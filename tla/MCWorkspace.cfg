SPECIFICATION Spec
CONSTANTS
  j1 = j1
  j2 = j2
  j3 = j3
  Jobs = {j1, j2, j3}
  Kinds <- Trios
  MaxRunning = 2
  MaxEdits = 1
  Edited = {"mutate_slot"}
  None = None
INVARIANTS ReadsItsOwn FixtureIsWhole WitnessGoesWithItsProcess
CHECK_DEADLOCK FALSE
