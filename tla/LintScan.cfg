\* Every text of six pieces, that is of up to eleven characters: a call with
\* a string, a comma inside it or after it, and its closing parenthesis.
SPECIFICATION Spec
CONSTANT MAX_PIECES = 6
INVARIANTS
  ViewsAreExact
  ArgumentsAreFound
\* A text may end anywhere.
CHECK_DEADLOCK FALSE
