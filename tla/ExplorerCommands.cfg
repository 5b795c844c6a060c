\* Two enumerators, of the tasks and of what is below them, are read at once.
SPECIFICATION FairSpec
CONSTANTS
  e1 = e1
  e2 = e2
  Enumerators <- MCEnumerators
  Celts <- MCCelts
  UlongSize = 8
  Faults <- AllFaults
INVARIANTS
  HoleEndsItsCall
PROPERTIES
  ImplementsEnumeration
  ReadingEnds
