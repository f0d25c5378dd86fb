SPECIFICATION FairSpec
CONSTANTS
  None = None
  Delim <- At
  Lower <- NoUpperCase
  Options <- SomeOptions
  Peers <- SomePeers
  Servers <- SomeServers
  Timeouts = {0, 60}
INVARIANTS
  ConnectionIsAsAsked
  PeerIsNamed
PROPERTIES
  HandshakeEnds
