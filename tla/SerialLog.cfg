SPECIFICATION FairSpec
CONSTANTS
  BufferSize = 8
  FifoSize = 3
  Lengths = {1, 2, 4}
  FoundLength = 2
  AbsentLength = 1
  CompleteLength = 1
  PanicLength = 3
  FrameLength = 2
  Frames = 2
  StackDepth = 3
  MaxPrinted = 14
INVARIANTS TypeOK
PROPERTIES ImplementsLog PrintedArrives PanicHaltsOrBufferFull
CHECK_DEADLOCK FALSE
