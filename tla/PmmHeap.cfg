SPECIFICATION Spec
CONSTANTS
  BLOCK_SIZE = 16
  Entries = 9
  Top = 9
  MemMap <- UnevenMap
  StaleBits <- PairsNotFree
  StaleEntry = 3
  Amounts = {16, 17, 48}
INVARIANTS HandsOutUsableMemory TablesKept
PROPERTY RefinesHeap
