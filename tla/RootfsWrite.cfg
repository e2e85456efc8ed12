SPECIFICATION Spec
CONSTANTS
  DeviceSize = 8
  Start = 2
  Count = 5
  Ratio = 2
  EraseBuffer = 2
  FileHeader = 1
  ChunkHeader = 1
  Word = 1
  BlockWords = 2
  MaxBlocks = 3
  MaxSize = 6
INVARIANTS
  TypeOK
  RejectedUntouched
  InsidePartition
  WriterAgrees
  NeverRefused
  DoneIsComplete
CHECK_DEADLOCK FALSE
