SPECIFICATION FairRlcUmSpec
CONSTANTS
  Threads = {rxtx0}
  Window = 3
  SduSize = 3
  MaxSdus = 3
  Rooms = {1, 4}
  MaxAir = 2
  MaxPdus = 7
INVARIANTS
  WholeSdus
  NothingDropped
  HeldInWindow
PROPERTIES
  IsLossyFifo
  EveryPduPasses
CHECK_DEADLOCK FALSE
