SPECIFICATION FairSpec
CONSTANTS
  Procs = {p1, p2, p3}
  None = None
INVARIANTS
  ListenerIsNamed
  OneAtATime
PROPERTIES
  StartEnds
CHECK_DEADLOCK FALSE
