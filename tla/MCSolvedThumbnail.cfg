CONSTANTS
  Keys = {ka}
  CurveKeys = {ka}
  Pixels = {p}
  MaxCount = 1
  Zero = zero
  Users = {robot}
  Contracts = {robot}
  Shadows = {s1}
  NSlots = 1
  NMintAtoms = 1
  HeldBound = 1
  Perms = {z1}
  MaxBatch = 1
SPECIFICATION Spec
PROPERTIES SolvedT10Forever
