SPECIFICATION Spec
CONSTANTS
  BLOCK_SIZE = 18
  Entries = 9
  Top = 9
  MemMap <- SolidMap
  StaleBits <- AnyPair
  StaleEntry = 3
  Amounts = {0, 18, 19}
INVARIANTS HeldIsInUse NothingLeaks ExtentsKept ShortOnlyPastTheMap ForeignUntouched
