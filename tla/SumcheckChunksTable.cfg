SPECIFICATION RoundSpec
CONSTANTS
  NumDevices = 1
  NumChunks = 2
INVARIANTS
  ChunksReadTable
CHECK_DEADLOCK FALSE
