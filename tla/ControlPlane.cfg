\* The daemon, the CLI and a module rotate concurrently; Telegram redelivers, responses are lost,
\* the server restarts; tokens of every life.
SPECIFICATION Spec
CONSTANTS
  OPERATOR_SENDERS = {"operator"}
  OPERATOR_CHATS = {"dm", "group"}
  Updates <- MCUpdates
  CliNames <- MCCliNames
  ModuleNames <- MCModuleNames
  Modules = {"github", "telegram", "ping"}
  Hooks = {"github"}
  TTL <- MCTtl
  DEFAULT_TTL = 3
  MIN_TTL = 2
  Lifetimes <- MCLifetimes
  MAX_UPDATES = 2
  MAX_KEYS = 1
  MAX_TIME = 4
INVARIANTS
  TypeOK
  HandledOnce
  ConfirmedWereHandled
  EveryNameAnswered
  TokenServedWithinLife
PROPERTIES
  OnlyOperatorsRotate
  DaemonKeepsPolling
