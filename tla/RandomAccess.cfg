SPECIFICATION FairRaSpec
CONSTANTS
  NB_RA_PROC_MAX = 2
  NUMBER_OF_UE_MAX = 2
  maxHARQ_Msg3Tx = 2
  Rntis = {1, 2}
  MaxPreambles = 3
INVARIANTS
  
  NoSlotLeaks
  AbortOnlyWhileRemoving
PROPERTIES
  ProceduresEnd
CHECK_DEADLOCK FALSE
