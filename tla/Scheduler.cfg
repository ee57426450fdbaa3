SPECIFICATION MCSpec
CONSTANTS
  NumDevices = 2
  TargetMaxActive = 1
  Events = {1, 2, 3, 4}
  Waiters = {1, 2, 3}
  NoEvent = 0
INVARIANTS
  Saturated
  CountsMatchEvents
  NoEventLost
PROPERTIES
  InvokesOnceWhenComplete
  GrantsLeastLoaded
  EventsInvoked
  WaitersGranted
  ImplementsPool
