SPECIFICATION UlSpec
CONSTANTS
  UplinkBlocks = {}
  DownlinkBlocks = {}
  UEs = {0, 1}
  N_RB_UL = 25
  NPids = 1
  Mlimit = 2
  Occasions <- WithMsg3
  Demands = {9}
  MayFail = {0, 1}
INVARIANTS
  GrantsAvoidMsg3
