CONSTANTS
  Keys = {ka}
  CurveKeys = {ka}
  Pixels = {p}
  MaxCount = 2
  Zero = zero
  Users = {alice, bob}
  Contracts = {}
  Shadows = {s1, s2}
  NSlots = 2
  NMintAtoms = 1
  HeldBound = 2
  Perms = {z1}
  MaxBatch = 1
SYMMETRY Symmetry
SPECIFICATION Spec
INVARIANTS TypeOK NothingBeforeMint SingleHost CarriersFollowHost
PROPERTIES CarrierHistory ImplementsCustody
