\* An Update, a Drop and three comics.
SPECIFICATION Spec
CONSTANTS
  Updates = {u1}
  Drops = {d1}
  MaxID = 3
  Rows <- Texts
  Absent = Absent
  None = None
INVARIANTS
  FetchedWithinTotal
  IdleStatsAreExact
