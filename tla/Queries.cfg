\* Three comics, four kinds of row; with a word of three bits the offset of page
\* 5 wraps.
SPECIFICATION Spec
CONSTANTS
  Updates = {u1}
  Drops = {d1}
  MaxID = 3
  Rows <- Docs
  Absent = Absent
  None = None
  WeightTitle = 5
  WeightAlt = 3
  WeightWords = 1
  WeightCover = 100
  Phrases <- TwoTokens
  Pages = {0, 1, 2, 5}
  Limits = {0, 1, 2, 3}
  DefaultLimit = 1
  MaxLimit = 2
  Word = 8
INVARIANTS
  TopMatches
  SearchesAgree
  BreadthFirst
  PageIsSlice
  RandomFailsOnlyOnEmpty
