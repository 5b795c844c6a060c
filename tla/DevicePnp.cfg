\* Devices that are started, stopped and started again, up to twice.
SPECIFICATION Spec
CONSTANTS
  Devices <- MCDevices
  RegistryValues <- MCRegistryValues
  DefaultTransferSize = 6
  MaxRestarts = 2
INVARIANTS
  TypeOK
  PipesOfFirstStart
  UsbdHandleClosed
  DescriptorIsLatest
CHECK_DEADLOCK FALSE
