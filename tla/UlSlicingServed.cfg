SPECIFICATION FairUlSpec
CONSTANTS
  UplinkBlocks = {7}
  DownlinkBlocks = {}
  UEs = {0, 1}
  N_RB_UL = 25
  NPids = 1
  Mlimit = 2
  Occasions <- WithPrach
  Demands = {9}
  MayFail = {}
INVARIANTS
  GrantsAvoidControl
PROPERTIES
  RequestServed
