\* Three changes, a channel of two, one restart: searches, rebuilds, losses.
SPECIFICATION EventSpec
CONSTANTS
  MaxVer = 3
  TableAt <- Contents
  Queries <- TokenSets
  ChanCap = 2
  MaxWire = 1
  MaxRestarts = 1
INVARIANTS
  TypeOK
  NewsIsPending
  SearchMatchesBothSnapshots
PROPERTIES
  HeardIsBuilt
  IndexConverges
