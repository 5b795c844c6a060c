\* A Rio that is restarted once by the PnP manager.
SPECIFICATION Spec
CONSTANTS
  Devices <- RioOnly
  RegistryValues <- MCRegistryValues
  DefaultTransferSize = 6
  MaxRestarts = 1
INVARIANTS
  PipesAreCurrent
CHECK_DEADLOCK FALSE
