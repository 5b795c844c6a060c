\* A command outlives the folder it was asked of.
SPECIFICATION Spec
CONSTANTS
  o1 = o1
  o2 = o2
  o3 = o3
  o4 = o4
  None = None
  Objects <- ThreeObjects
  MaxRefs = 2
  MaxLocks = 1
SYMMETRY Places
INVARIANTS
  UnloadedWithoutReferences
CHECK_DEADLOCK FALSE
