\* A transfer of two stages, two threads that reset, and every call may fail.
SPECIFICATION FairSpec
CONSTANTS
  r1 = r1
  r2 = r2
  t1 = t1
  t2 = t2
  ReadPipe = ReadPipe
  WritePipe = WritePipe
  Requests <- OneRequest
  Threads <- TwoThreads
  MaxTransferSize = 2
  MaximumTransferSize = 4
  Lengths <- StagedLengths
  ConfiguredPipes <- BothPipes
  Faults <- AllFaults
  MaxIoctls = 2
INVARIANTS
  ThreadsTypeOK
  StoppedHasStarter
  StallHasReset
  ResetPortQuiesced
PROPERTIES
  Spec
  ResettersFinish
  ThreadsFinish
  HeldIsReleased
  StallRecovers
  RequestsComplete
CHECK_DEADLOCK FALSE
