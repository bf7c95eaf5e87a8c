CONSTANTS
  TRIGGER = 2
  FIFO = 3
  Other = {0, 12}
  MaxKeys = 2
  MaxBytes = 4
  MaxEdges = 2
SPECIFICATION Spec
INVARIANTS LineHeard NothingHeldBack SerialHasByte
PROPERTIES KeysRead BytesRead
CHECK_DEADLOCK FALSE
