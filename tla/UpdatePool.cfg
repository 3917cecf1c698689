\* An Update with one worker against a Drop, a cancellation, a crash and late
\* statements; the channel (capacity 2) fills up and the dispatcher blocks.
SPECIFICATION FairSpec
CONSTANTS
  Updates = {u1}
  Drops = {d1}
  Concurrency = 1
  MaxID = 3
  None = None
INVARIANTS
  TypeOK
  SingleFlight
  QuietWhenIdle
  ChangesAnnounced
PROPERTIES
  NeverOverwrites
  ImplementsTable
  EveryCallAnswered
