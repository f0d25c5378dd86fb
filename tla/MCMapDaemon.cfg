SPECIFICATION FairSpec
CONSTANTS
  c1 = c1
  d1 = d1
  d2 = d2
  None = None
  Clients = {c1}
  Daemons = {d1, d2}
  Strange <- StrangePackets
  retry = 2
  MaxLookups = 2
  QueueLen = 2
INVARIANTS
  AnswerIsForTheKey
PROPERTIES
  ImplementsMapService
  GivesUpWhenRefused
  LookupReturns
CHECK_DEADLOCK FALSE
