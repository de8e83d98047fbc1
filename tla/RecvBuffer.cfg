\* Three buffer sizes of room, five packets, every way to split them into reads.
SPECIFICATION FairSpec
CONSTANTS
  Capacity = 9
  BufferSize = 3
  HeaderSize = 2
  Sizes <- MCSizes
  Start <- MCStart
  Garbage <- MCGarbage
CHECK_DEADLOCK FALSE
INVARIANTS
  TypeOK
  CutOnce
  IntactUntilRewind
  UnreadIsLatest
PROPERTIES
  ReceivedIsHandled
  ImplementsChannel
