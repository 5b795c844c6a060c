\* Two enumerations of a Rio with two folders, which may be formatted meanwhile; a Skip
\* may take the position of one of them round.
SPECIFICATION Spec
CONSTANTS
  e1 = e1
  e2 = e2
  Enumerators <- MCEnumerators
  Contents <- MCContents
  LongNames <- MCLongNames
  ByteSize = 2
  WordSize = 16
  IntLimit = 3
  FlagSets <- MCFlagSets
  Celts <- MCCelts
  Skips <- MCSkips
  MaxWraps = 1
  MaxLeaks = 1
  Junk <- MCJunk
  InFront <- MCInFront
  Faults <- AllFaults
SYMMETRY Explorers
INVARIANTS
  SessionsBalance
  ChildShowsItsFolder
  IdsOrderedByPath
PROPERTIES
  ImplementsEnumeration
CHECK_DEADLOCK FALSE
