SPECIFICATION Spec
CONSTANTS
  s0 = s0
  s1 = s1
  s8 = s8
  OtherKey = OtherKey
  Keys = {Owner, OtherKey}
  Slots = {s0, s1, s8}
  MintSlots = {s0, s1}
  Salts = {p}
  Perms = {z}
  Owner = Owner
  Recipient = Recipient
  Empty = Empty
  NoPerm = NoPerm
  None = None
SYMMETRY SlotSymmetry
INVARIANTS HonestTransferLands
CHECK_DEADLOCK FALSE
