SPECIFICATION FairSpec
CONSTANTS
  Options <- AllOptions
  MaxLogins = 2
  MaxPipelined = 2
INVARIANTS
  NoPlaintextLogin
  NoPlaintextRelay
  NothingFromBeforeTheHandshake
  OneServerPerLogin
  CleanSlate
  Unprivileged
  TlsStateNeverOverstates
PROPERTIES
  SentByThisLogin
  ImplementsContract
  AttemptAnswered
