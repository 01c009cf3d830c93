\* Server and CLI interleave step by step, and crash.
SPECIFICATION Spec
CONSTANTS
  Cli = {c1}
  Tokens = {t1}
  ServerRotates = {"hmac:current", t1}
  KEY_TTL_SEC = 1
  TOKEN_TTL_SEC = 1
  MAX_TIME = 3
  MAX_KEYS = 2
INVARIANTS
  TypeOK
  NoExpiredKeyServed
  RetiredKeyNotInFile
  IssuedKeyPersists
  ServerSeesOwnWrites
PROPERTIES
  NeverCachesRetiredKey
  ImplementsAtomicStore
