CONSTANTS
  Keys = {ka, kb, off}
  CurveKeys = {ka, kb}
  Pixels = {p, q}
  MaxCount = 2
  Zero = zero
  Users = {robot, alice}
  Contracts = {robot}
  Shadows = {s1}
  NSlots = 2
  NMintAtoms = 2
  HeldBound = 1
  Perms = {z1}
  MaxBatch = 2
SYMMETRY Symmetry
SPECIFICATION Spec
INVARIANTS KeyFollowsOwner MetadataBound T10Fresh
PROPERTIES SolvedIsFinal SolvedT10Frozen
