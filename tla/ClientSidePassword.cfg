SPECIFICATION Spec
CONSTANTS
  Protos <- AllProtos
  Modes <- AllModes
  Shapes <- CommonShapes
  MaxCommands = 2
  MaxPipeline = 2
INVARIANT
  CredentialsIntact
