SPECIFICATION EchoSpec
CONSTANTS
  BUFFER_SIZE = 3
  U32 = 8
  Keys = {a, NL, BS}
  NL = NL
  BS = BS
  NUL = NUL
  CR = CR
  DEL = DEL
  Sizes = {2}
  Silent = {}
  Prompt = {a}
  MaxTyped = 4
  MaxPrinted = 1
  MaxNulls = 1
INVARIANTS RingHoldsTyped ReaderHoldsOldest LineAsTyped EchoIsLine
PROPERTIES ReadlnReturns PromptKept
CHECK_DEADLOCK FALSE
