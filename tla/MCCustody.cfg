CONSTANTS
  Users = {alice, bob}
  Shadows = {s1, s2}
  Slots <- MCSlots
  Carriers <- MCCarriers
  Nobody = nobody
SPECIFICATION Spec
INVARIANTS OneCarrierPerSlot HeldTogether
