SPECIFICATION Spec
CONSTANTS
  Timeouts <- SomeTimeouts
  connect_relog = 3
  MaxTime = 10
INVARIANTS
  LogIsOnTime
PROPERTIES
  TimeoutIsExact
  PendingIsServed
CHECK_DEADLOCK FALSE
