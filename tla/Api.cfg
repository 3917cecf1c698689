\* One request on any route and a search that competes with it, with shutdown
\* and restart.
SPECIFICATION LiveSpec
CONSTANTS
  Requests = {1, 2}
  Routes <- Assigned
  SearchConcurrency = 1
  Pinged = {"words"}
INVARIANTS
  BlameIsRight
  SlotsAreHandlers
  CutOnlyAfterGrace
PROPERTIES
  EveryRequestAnswered
