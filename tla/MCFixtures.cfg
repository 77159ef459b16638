CONSTANTS
  NSlots = 3
  Launched <- Builders
  Edited <- SomeCircuits
  MaxEdits = 1
  MaxRuns = 2
  NoVerifier <- MissingVerifier
  None = None
SPECIFICATION Spec
INVARIANTS FixtureReplays OneVerifierAccepts MadeFromOneRun ManifestSeesV1
PROPERTY VerifierFitsTheProof
CHECK_DEADLOCK FALSE
