\* Any sequence of registrations and removals, with failures and crashes.
SPECIFICATION Spec
CONSTANTS
  LostRows <- MCLostRows
  Faults <- AllFaults
INVARIANTS
  NameSpaceHasClass
  RegisterAllOrNothing
  UnregisterTellsTheTruth
