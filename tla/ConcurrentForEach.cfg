SPECIFICATION ForEachSpec
CONSTANTS
  NumDevices = 2
  TargetMaxActive = 1
  Events <- MCEvents
  Waiters <- MCWaiters
  NoEvent = NoEvent
  a = a
  b = b
  Loops <- TwoLoops
  NumChunks = 3
  NumSteps = 2
INVARIANTS
  NotOversubscribed
  RunFinishesLoops
  OneWakerEach
PROPERTIES
  LoopsReturn
