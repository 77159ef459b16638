CONSTANTS
  Keys = {ka}
  CurveKeys = {ka}
  Pixels = {p}
  MaxCount = 0
  Zero = zero
  Users = {alice, bob, bridge}
  Contracts = {}
  Shadows = {s1, s2}
  NSlots = 1
  NMintAtoms = 1
  HeldBound = 0
  Perms = {z1}
  MaxBatch = 1
  BridgeAddress = bridge
  MaxMessages = 3
SPECIFICATION FairBridgeSpec
INVARIANTS BridgeTypeOK OneLiveCopy NothingStranded MirrorFaithful
PROPERTIES ImplementsAsset BridgedArrives BurnedReturns
