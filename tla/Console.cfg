CONSTANTS
  a = a
  A = A
  R = R
  W = W
  Letter = {a, A}
  Colour = {R, W}
  WHITE = W
  NL = NL
  BS = BS
  TAB = TAB
  CR = CR
  SPACE = SPACE
  WIDTH = 26
  HEIGHT = 33
  BITMAP_SIZE = 8
  U32 = 65536
  LogChar = {R, CR, TAB}
  Small = {a}
  Upper <- MCUpper
  KeyChar = {a, BS, NL}
  MaxAhead = 1
  RaceLog = {SPACE, NL}
  RaceKeys = {SPACE, NL, BS}
  MaxDrift = 1
  MaxPushed = 1
  font <- Glyphs
  Pixel <- Pixels
  DrawAt <- MCAt
  MaxDraws = 2
  pitch = 112
SPECIFICATION MCSpec
INVARIANTS PromptStays DrawnInside RacedOnPage PixelsRight
PROPERTY RefinesTerminal
