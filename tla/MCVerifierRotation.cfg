CONSTANTS
  SlotIds <- SixAndEight
  KnownSlots <- OneSlot
  Unset <- OneSlot
  Verifiers = {v0, v1, v2}
  Deployed = v0
  NoVerifier = none
  Accounts = {deployer, other}
  Deployer = deployer
  Timelock = 2
  MaxTime = 4
  MaxAsked = 2
SPECIFICATION Spec
INVARIANTS SetOnce ProposalUsedOnce
PROPERTY TimelockHeld
