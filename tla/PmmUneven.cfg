SPECIFICATION Spec
CONSTANTS
  BLOCK_SIZE = 16
  Entries = 9
  Top = 9
  MemMap <- UnevenMap
  StaleBits <- PairsNotFree
  StaleEntry = 3
  Amounts = {16, 40}
INVARIANT TablesNotHandedOut
