\* A server that was asked before the first issue.
SPECIFICATION Spec
CONSTANTS
  Cli = {c1}
  Tokens = {t1}
  ServerRotates = {t1}
  KEY_TTL_SEC = 2
  TOKEN_TTL_SEC = 1
  MAX_TIME = 3
  MAX_KEYS = 2
PROPERTIES
  IssueActivates
