SPECIFICATION Spec
CONSTANTS
  Options <- ForceListenOptions
  MaxLogins = 2
  MaxPipelined = 1
INVARIANTS
  TlsStateIsCurrent
