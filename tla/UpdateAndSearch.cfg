\* An Update of two comics by two workers and a Drop, with the search service
\* that hears of them.
SPECIFICATION HubSpec
CONSTANTS
  Updates = {u1}
  Drops = {d1}
  Concurrency = 2
  MaxID = 2
  MaxVer = 4
  ChanCap = 1
  MaxWire = 1
  MaxRestarts = 1
INVARIANTS
  OneHandPerComic
  IndexFollowsTable
PROPERTIES
  UpdateComplete
