SPECIFICATION Spec
CONSTANTS
  Options <- PlainMapOptions
  MaxLogins = 2
  MaxPipelined = 1
INVARIANTS
  HeardFromPeer
