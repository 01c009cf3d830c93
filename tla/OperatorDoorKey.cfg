\* What the operator's gesture mints.
SPECIFICATION Spec
CONSTANTS
  OPERATOR_SENDERS = {"operator"}
  OPERATOR_CHATS = {"dm", "group"}
  Updates <- MCUpdates
  CliNames <- MCNobody
  ModuleNames <- MCNobody
  Modules = {"github", "telegram", "ping"}
  Hooks = {"github"}
  TTL <- MCTtl
  DEFAULT_TTL = 4
  MIN_TTL = 2
  Lifetimes = {4}
  MAX_UPDATES = 2
  MAX_KEYS = 1
  MAX_TIME = 1
INVARIANTS
  OperatorIssueMintsDoorKey
