\* The smallest instance that shows it.
SPECIFICATION Spec
CONSTANTS
  Capacity = 6
  BufferSize = 3
  HeaderSize = 2
  Sizes <- MCSizes
  Start <- MCStart
  Garbage <- MCGarbage
CHECK_DEADLOCK FALSE
INVARIANT DataBeforeDisconnect
