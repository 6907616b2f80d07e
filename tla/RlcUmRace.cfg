SPECIFICATION RlcUmSpec
CONSTANTS
  Threads = {rxtx0, rxtx1}
  Window = 2
  SduSize = 1
  MaxSdus = 4
  Rooms = {1}
  MaxAir = 2
  MaxPdus = 4
INVARIANTS
  InOrder
CHECK_DEADLOCK FALSE
