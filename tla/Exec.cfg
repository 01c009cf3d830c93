\* Output around the cap; scripts may leave processes behind that hold their stdout,
\* their stderr or both.
SPECIFICATION Spec
CONSTANTS
  EXEC_ENABLED = TRUE
  EXEC_MAX_OUT = 3
  MAX_CHUNK = 2
  MAX_OUTPUT = 6
INVARIANTS
  TypeOK
  OkMeansComplete
PROPERTIES
  AnswersOnceReleased
