\* Redirect chains, changing DNS answers with addresses of every block, and
\* chunks around the cap.
SPECIFICATION Spec
CONSTANTS
  Targets <- MCTargets
  Addresses <- MCAddresses
  Blocked <- MCBlocked
  Answers <- MCAnswers
  LiteralAddress <- MCLiteralAddress
  TextOf <- MCTextOf
  ALLOW_HOSTS = {"github", "telegram", "10.0.0.1"}
  GH_HOST = "github"
  PROXY_MAX_REDIRECT = 2
  DO_MAX_RESP = 2
  MAX_BODY = 4
  MAX_CHUNK = 2
INVARIANTS
  TypeOK
  
  CredentialStaysOnHost
  WholeOrFlagged
PROPERTIES
  CallReturns
