CONSTANTS
  Slots = {1, 2, 3}
  MintSlots = {1, 2}
  Foreign = {101}
  Tools = {"render", "mint", "transfer"}
  MaxChanges = 3
SPECIFICATION Spec
CHECK_DEADLOCK FALSE
INVARIANTS PassedMintWasIntact PassedTransferWasIntact SolvedRenderIsExact
