SPECIFICATION UlSpec
CONSTANTS
  UplinkBlocks = {0, 2}
  DownlinkBlocks = {}
  UEs = {0, 1}
  N_RB_UL = 6
  NPids = 1
  Mlimit = 2
  Occasions <- AnyOccasion
  Demands = {3}
  MayFail = {0}
INVARIANTS
  UlTypeOK
  UlDisjoint
  GrantWithinShare
  NotSqueezed
