SPECIFICATION Spec
CONSTANTS
  BLOCK_SIZE = 18
  Entries = 9
  Top = 9
  MemMap <- SolidMap
  StaleBits <- AnyPair
  StaleEntry = 3
  Amounts = {18, 54}
INVARIANT AllocationsCover
