SPECIFICATION Spec
CONSTANTS
  MaxResWidth = 7
  MaxResHeight = 9
  CellWidth = 2
  CellHeight = 3
  FontWidth = 2
  FontHeight = 3
  DefaultLength = 3
  DefaultCount = 2
  FormatRoom = 5
  Resolutions <- SmallResolutions
  Characters <- SmallCharacters
  Texts <- SmallTexts
  Newline = Newline
  Blank = Blank
  Nul = Nul
  a = a
  b = b
  MaxText = 8
INVARIANTS TypeOK StaysInside
PROPERTY ImplementsTerminal
CHECK_DEADLOCK FALSE
