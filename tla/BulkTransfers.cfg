\* Two requests of one stage, three stages or too long, over pipes that both exist.
SPECIFICATION Spec
CONSTANTS
  r1 = r1
  r2 = r2
  ReadPipe = ReadPipe
  WritePipe = WritePipe
  Requests <- TwoRequests
  MaxTransferSize = 2
  MaximumTransferSize = 5
  Lengths <- MCLengths
  ConfiguredPipes <- BothPipes
  Faults <- MCFaults
INVARIANTS
  TypeOK
  OneOwner
  ReleasedOnce
  StageInBuffer
  InfoIsBytesMoved
PROPERTIES
  StagesAdvance
  ImplementsIoRequest
CHECK_DEADLOCK FALSE
