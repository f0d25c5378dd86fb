SPECIFICATION Spec
CONSTANTS
  Protos <- AllProtos
  Policies <- AllPolicies
INVARIANTS
  SuccessIsReal
  AnswersPaired
  NeverWaitsInVain
  ServerIsObeyed
  NoPlaintextCredentials
