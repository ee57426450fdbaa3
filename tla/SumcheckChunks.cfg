SPECIFICATION RoundSpec
CONSTANTS
  NumDevices = 2
  NumChunks = 8
INVARIANTS
  ContextStable
  EachChunkCountedOnce
  EarlierCopySeen
PROPERTIES
  ChunkOnItsDevice
  Completes
CHECK_DEADLOCK FALSE
