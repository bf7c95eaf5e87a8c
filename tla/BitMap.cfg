CONSTANTS
  BitNumbers <- MCIndex
  Sectors = 4
  Fill <- MCFill
SPECIFICATION WordsSpec
PROPERTY RefinesBitArray
