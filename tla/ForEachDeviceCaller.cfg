SPECIFICATION Spec
CONSTANTS
  NumDevices = 2
  NumChunks = 6
INVARIANTS
  CallerDeviceRestored
CHECK_DEADLOCK FALSE
