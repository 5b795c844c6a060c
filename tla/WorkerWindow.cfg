\* Two threads create the window, every call may fail, two dialogs, three changes, any unload.
SPECIFICATION FairSpec
CONSTANTS
  t1 = t1
  t2 = t2
  d1 = d1
  d2 = d2
  None = None
  Threads <- MCThreads
  Dialogs <- MCDialogs
  MaxPlugs = 3
  Faults <- AllFaults
INVARIANTS
  TypeOK
  OneWindow
  WindowGoesWithDll
PROPERTIES
  RemovalIsNoticed
  ArrivalIsNoticed
  DialogCloses
CHECK_DEADLOCK FALSE
