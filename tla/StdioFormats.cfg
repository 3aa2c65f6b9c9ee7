SPECIFICATION FairSpec
CONSTANTS
  SizeLimit = 64
  Formats <- AllFormats
  Rooms = {1, 2, 4, 6}
  PanicFormats <- ShortFormats
  BadSpecifier <- BadText
  PrintRoom = 10
  Places <- AllPlaces
  MaxFrames = 2
INVARIANTS TypeOK TextContinues OnlyLateFieldsEscape
PROPERTIES PanicHalts
CHECK_DEADLOCK FALSE
