\* Two threads reset the device at the same time.
SPECIFICATION DriverSpec
CONSTANTS
  r1 = r1
  r2 = r2
  t1 = t1
  t2 = t2
  ReadPipe = ReadPipe
  WritePipe = WritePipe
  Requests <- OneRequest
  Threads <- TwoThreads
  MaxTransferSize = 2
  MaximumTransferSize = 4
  Lengths <- ShortLengths
  ConfiguredPipes <- BothPipes
  Faults <- NoFaults
  MaxIoctls = 2
INVARIANTS
  ResetPortAlwaysQuiesced
CHECK_DEADLOCK FALSE
