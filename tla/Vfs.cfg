CONSTANTS
  a = a
  b = b
  Name = {a, b}
  DEV = dev
  Heaps <- MCHeaps
  Files <- MCFiles
  MaxDepth = 2
  Sizes <- MCSizes
  Lengths <- MCLengths
  WORD = 16384
  DIGITS = 5
  Names = {"f", "long"}
  LONG = "long"
  MaxFiles = 2
SPECIFICATION MCSpec
INVARIANTS OnePlace HeapAccounted LayoutRight ReadsRight
PROPERTY PathsRight
CHECK_DEADLOCK FALSE
