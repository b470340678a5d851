\* Chunks of one and two bytes in a ring of four.
SPECIFICATION FairSpec
CONSTANTS
  B0 = B0
  B1 = B1
  Bytes = {B0, B1}
  Size = 4
  MaxChunk = 2
INVARIANT RoomForWrite
PROPERTIES
  IsQueue
  OperationsEnd
