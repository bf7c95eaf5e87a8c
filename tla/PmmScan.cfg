SPECIFICATION LoopSpec
CONSTANTS
  BLOCK_SIZE = 2
  Entries = 4
  Top = 4
  LoopAmounts <- MCAmounts
INVARIANTS AnswerRight LoopInv
PROPERTY Ends
CHECK_DEADLOCK FALSE
