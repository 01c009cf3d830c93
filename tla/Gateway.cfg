\* Every shape of request, two sockets, a nonce memory of one entry, default retention
\* (NONCE_TTL_SEC = TS_WINDOW_SEC) and clients whose clocks are not ahead.
SPECIFICATION Spec
CONSTANTS
  Conns = {c1, c2}
  Requests <- MCAll
  Keys = {1}
  Nonces = {"n1", "n2"}
  TS_WINDOW_SEC = 1
  NONCE_TTL_SEC = 1
  NONCE_MAX = 1
  ALLOW_KEY_PARAM = TRUE
  SKEW_AHEAD = 0
  MAX_TIME = 3
INVARIANTS
  TypeOK
  SignedAtMostOnce
  ProtectedRunsAuthenticated
PROPERTIES
  NonceTakenOnlyByAccepted
  ReplayRefusedForReason
