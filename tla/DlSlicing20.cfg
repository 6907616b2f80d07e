SPECIFICATION FairDlSpec
CONSTANTS
  UplinkBlocks = {}
  DownlinkBlocks = {4, 36}
  UEs = {0, 1}
  N_RBG = 25
  Unit = 4
  LastRBG = 4
  NPids = 1
  Mlimit = 2
  Reservations <- Reservations20MHz
  Growth = {0, 8}
INVARIANTS
  DlTypeOK
  TransmissionsDisjoint
  SharesAreIsolated
  ClaimsCovered
  RetransmissionKeepsSize
PROPERTIES
  RetransmissionServed
