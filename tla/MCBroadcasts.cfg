CONSTANTS
  A = A
  B = B
  None = None
  Accounts = {A, B}
  Bridge = bridge
  Slots <- MCSlots
  Carriers <- MCCarriers
  States <- MCStates
  Empty = 0
  Perms = {"perm"}
  NoPerm = "no perm"
  Campaign <- MCCampaign
  Pictures <- MCPictures
  Again = {1, 2, 3, 5, 7, 8, 10, 11, 12}
  MaxFaults = 3
SPECIFICATION Spec
CHECK_DEADLOCK FALSE
INVARIANTS TypeOK CampaignInOrder RerunGoesThrough
PROPERTIES Completes
