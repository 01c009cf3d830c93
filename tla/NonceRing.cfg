\* The nonce ring under a wall clock that may be set back.
SPECIFICATION Spec
CONSTANTS
  Nonces = {n1, n2, n3, n4}
  NONCE_TTL_SEC = 2
  NONCE_MAX = 2
  CLOCK_STEPS_BACK = TRUE
  MAX_TIME = 6
SYMMETRY NonceSymmetry
INVARIANTS
  TypeOK
  SizeBounded
PROPERTIES
  ImplementsRegister
  NoLiveEviction
