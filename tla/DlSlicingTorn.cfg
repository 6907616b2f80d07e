SPECIFICATION DlSpec
CONSTANTS
  UplinkBlocks = {}
  DownlinkBlocks = {3, 45}
  UEs = {0, 1}
  N_RBG = 17
  Unit = 3
  LastRBG = 2
  NPids = 1
  Mlimit = 2
  Reservations <- Reservations10MHz
  Growth = {0, 8}
INVARIANTS
  IndexInRange
