\* Up to four objects at a time, created, referenced, released and unloaded.
SPECIFICATION Spec
CONSTANTS
  o1 = o1
  o2 = o2
  o3 = o3
  o4 = o4
  None = None
  Objects <- FourObjects
  MaxRefs = 2
  MaxLocks = 1
SYMMETRY Places
INVARIANTS
  TypeOK
  ModuleCountIsRight
  ReferencesBalance
CHECK_DEADLOCK FALSE
