SPECIFICATION FairStreamSpec
CONSTANTS
  RingCap = 3
  ChanCap = 2
  MaxSeq = 7
  MaxDrops = 2
INVARIANTS
  ChannelIsRetained
  ShownOnceInOrder
  GapsAreMarked
PROPERTY
  CatchesUp
CHECK_DEADLOCK FALSE
