\* One request of three stages over a healthy bus: a middle stage may come back short.
SPECIFICATION Spec
CONSTANTS
  r1 = r1
  r2 = r2
  ReadPipe = ReadPipe
  WritePipe = WritePipe
  Requests <- OneRequest
  MaxTransferSize = 2
  MaximumTransferSize = 5
  Lengths <- ThreeStages
  ConfiguredPipes <- BothPipes
  Faults <- NoFaults
INVARIANTS
  SuccessHasNoHole
CHECK_DEADLOCK FALSE
