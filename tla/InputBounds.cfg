SPECIFICATION Spec
CONSTANTS
  BUFFER_SIZE = 3
  U32 = 8
  Keys = {a, NL, BS}
  NL = NL
  BS = BS
  NUL = NUL
  Sizes = {0, 2}
  MaxTyped = 5
INVARIANT StaysInBounds
CHECK_DEADLOCK FALSE
