SPECIFICATION Spec
CONSTANTS
  Protos <- AllProtos
  Modes <- AllModes
  Shapes <- CommonShapes
  MaxCommands = 3
  MaxPipeline = 2
INVARIANTS
  PlaintextNotObeyed
  NobodyWaits
  OneReply
  HonestCapability
  SuccessIsSeeded
