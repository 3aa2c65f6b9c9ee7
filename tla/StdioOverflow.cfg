SPECIFICATION FairSpec
CONSTANTS
  SizeLimit = 64
  Formats <- TestFormats
  Rooms = {5}
  PanicFormats <- None
  BadSpecifier <- BadText
  PrintRoom = 10
  Places <- AllPlaces
  MaxFrames = 0
INVARIANT KsnprintfStaysInside
CHECK_DEADLOCK FALSE
