SPECIFICATION FairPoolSpec
CONSTANTS
  Allocators = {a1, a2}
  Freers = {f1}
  N = 2
  MaxPosition = 6
INVARIANTS
  EveryItemInOnePlace
PROPERTIES
  IsFreeList
  AllocationSucceeds
CHECK_DEADLOCK FALSE
