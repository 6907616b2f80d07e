SPECIFICATION FairRxTxSpec
CONSTANTS
  Polls = 2
  MaxSubframes = 5
INVARIANTS
  RxTxTypeOK
  ContextIsOwn
  Neighbours
  NoCallLost
PROPERTIES
  EachInTurn
  SubframesProcessed
  ShutdownEnds
CHECK_DEADLOCK FALSE
