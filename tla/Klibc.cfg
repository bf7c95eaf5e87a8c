CONSTANTS
  Item = {a, b}
  Index <- MCIndex
  NULL = NULL
  JUNK = JUNK
  DL_INIT_CAPACITY = 6
  MaxTotal = 7
  Letter = {a, b}
  SLASH = SLASH
  NUL = NUL
  MaxLength = 6
  MaxLookups = 2
  NIBBLES = 3
  Numbers <- MCNumbers
  Texts <- MCTexts
  Bases = {1, 2, 10, 16, 36, 37}
  MaxPieces = 3
  SIZE = 6
  STRINGS = 5
  Byte = {0, 97, 200}
SPECIFICATION MCSpec
INVARIANTS LittleWaste NamesRight OnlyOnce NumbersRight FormatRight MemoryRight
PROPERTY RefinesList
CHECK_DEADLOCK FALSE
