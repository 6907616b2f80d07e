SPECIFICATION FairSliceSpec
CONSTANTS
  Allocations <- MCAllocations
  Garbage <- MCGarbage
  BUFFER_SIZE = 5
  Segments = {2}
  MaxAccepts = 2
  MaxOverlaps = 2
  MaxSends = 2
  MayFail = {2}
  TruncateAt = {1}
INVARIANTS
  LastAllocationWins
PROPERTIES
  AllocationTakesEffect
  CurrentConnectionIsDrained
  TableIsStore
  OrderlyTable
CHECK_DEADLOCK FALSE
