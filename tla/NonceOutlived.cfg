\* Default retention, and a client one second ahead of the server.
SPECIFICATION Spec
CONSTANTS
  Conns = {c1}
  Requests <- MCSigned
  Keys = {1}
  Nonces = {"n1", "n2"}
  TS_WINDOW_SEC = 1
  NONCE_TTL_SEC = 1
  NONCE_MAX = 2
  ALLOW_KEY_PARAM = TRUE
  SKEW_AHEAD = 1
  MAX_TIME = 4
INVARIANTS
  SignedAtMostOnce
