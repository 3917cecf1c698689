------------------------- MODULE UpdateStatsProofs -------------------------
(***************************************************************************)
(* What Status and Stats promise, for every catalogue and every number of  *)
(* Updates and Drops.                                                      *)
(***************************************************************************)
EXTENDS UpdateStats, FiniteSetTheorems, TLAPS

-----------------------------------------------------------------------------
(* The inductive invariant.                                                *)

Tables == [IDs -> Rows \cup {Absent}]
StoredIn(t) == {id \in IDs : t[id] # Absent}
TotalIn(t) == Total([id \in StoredIn(t) |-> Cardinality(t[id])])
UniqueIn(t) == Cardinality(UNION {t[id] : id \in StoredIn(t)})

StatsRecords ==
  [pc : {"done", "unique", "count", "last"}, code : {"none", "OK", "Internal"},
   wordsTotal : {0} \cup {TotalIn(t) : t \in Tables},
   wordsUnique : {0} \cup {UniqueIn(t) : t \in Tables},
   comicsFetched : Nat, comicsTotal : Nat, calm : BOOLEAN]

\* A row is only there for a comic that has been published.
TableInv ==
  /\ xkcdLast \in Nat /\ rows \in Tables
  /\ \A id \in IDs : id > xkcdLast => rows[id] = Absent

\* What Stats has counted, xkcd.com has published.
FetchedInv ==
  /\ stats \in StatsRecords
  /\ stats.pc # "done" => stats.code # "OK"
  /\ stats.pc = "last" => stats.comicsFetched <= xkcdLast
  /\ FetchedWithinTotal

\* As long as it is calm nobody owns the table ...
CalmInv == calm \in BOOLEAN /\ (calm \/ stats.calm => owner = None)

\* ... and what Stats has read so far is what the table holds.
ReadInv ==
  stats.calm /\ ~ raced =>
    /\ stats.pc \in {"unique", "count", "last"} \/ stats.code = "OK" =>
         stats.wordsTotal = WordsTotal
    /\ stats.pc \in {"count", "last"} \/ stats.code = "OK" =>
         stats.wordsUnique = WordsUnique
    /\ stats.pc = "last" \/ stats.code = "OK" =>
         stats.comicsFetched = ComicsFetched

StatsInv == TableInv /\ FetchedInv /\ CalmInv /\ ReadInv

-----------------------------------------------------------------------------
(* Lemmas.                                                                 *)

\* The operators of the model, as functions of the table.
LEMMA OfTheTable ==
  /\ WordsTotal = TotalIn(rows) /\ WordsUnique = UniqueIn(rows)
  /\ ComicsFetched = Cardinality(StoredIn(rows)) /\ Stored = StoredIn(rows)
  BY DEF WordsTotal, WordsUnique, ComicsFetched, TotalIn, UniqueIn, Stored,
         StoredIn

\* Rows that stay leave the numbers as they are.
LEMMA SameNumbers ==
  ASSUME rows' = rows
  PROVE  UNCHANGED <<WordsTotal, WordsUnique, ComicsFetched>>
  BY DEF WordsTotal, WordsUnique, ComicsFetched, Stored

\* There are at most as many rows as comics have been published.
LEMMA FewerThanPublished ==
  ASSUME TableInv
  PROVE  ComicsFetched \in Nat /\ ComicsFetched <= xkcdLast
<1>1. Stored \subseteq 1 .. xkcdLast
  BY StatsAssumption DEF TableInv, Stored, IDs
<1>2. IsFiniteSet(1 .. xkcdLast) /\ Cardinality(1 .. xkcdLast) = xkcdLast
  BY FS_Interval DEF TableInv
<1>3. IsFiniteSet(Stored) /\ Cardinality(Stored) <= xkcdLast
  BY <1>1, <1>2, FS_Subset
<1> QED
  BY <1>3, FS_CardinalityType DEF ComicsFetched

\* A call that has not begun.
LEMMA NoStatsType ==
  /\ NoStats \in StatsRecords
  /\ NoStats.pc = "done" /\ NoStats.code = "none" /\ NoStats.calm = FALSE
<1>1. FALSE \in BOOLEAN
  OBVIOUS
<1> QED
  BY <1>1 DEF NoStats, StatsRecords

-----------------------------------------------------------------------------
(* Every step.                                                             *)

\* The update service has just started.
LEMMA StatsInit == Init => StatsInv
<1> SUFFICES ASSUME Init PROVE StatsInv
  OBVIOUS
<1>1. TableInv
  BY StatsAssumption DEF Init, TableInit, TableInv, Tables, IDs
<1>2. FetchedInv
  BY NoStatsType DEF Init, FetchedInv, FetchedWithinTotal
<1>3. CalmInv /\ ReadInv
  BY NoStatsType DEF Init, TableInit, CalmInv, ReadInv
<1> QED
  BY <1>1, <1>2, <1>3 DEF StatsInv

\* Nothing is stored that is not published.
LEMMA TableNextKeeps ==
  TableInv /\ (TableNext \/ UNCHANGED tableVars) => TableInv'
<1> SUFFICES ASSUME TableInv, TableNext \/ UNCHANGED tableVars PROVE TableInv'
  OBVIOUS
<1>1. CASE UNCHANGED <<xkcdLast, rows>>
  BY <1>1 DEF TableInv
<1>2. ASSUME NEW id \in IDs, NEW row \in Rows, id <= xkcdLast,
             rows' = [rows EXCEPT ![id] = row], xkcdLast' = xkcdLast
      PROVE  TableInv'
  BY <1>2, StatsAssumption DEF TableInv, Tables, IDs
<1>3. CASE rows' = EmptyTable /\ xkcdLast' = xkcdLast
  BY <1>3 DEF TableInv, Tables, EmptyTable
<1>4. CASE Publish
  BY <1>4, StatsAssumption DEF Publish, TableInv, IDs
<1> QED
  BY <1>1, <1>2, <1>3, <1>4 DEF TableNext, Acquire, Release, AddRow, Truncate,
     LateStatement, tableVars

\* Every step keeps the invariant.
LEMMA StatsNext == StatsInv /\ [Next]_vars => StatsInv'
<1> SUFFICES ASSUME StatsInv, [Next]_vars PROVE StatsInv'
  OBVIOUS
<1>0. /\ stats \in StatsRecords /\ xkcdLast \in Nat /\ rows \in Tables
      /\ TableInv /\ FetchedInv /\ CalmInv /\ ReadInv
  BY DEF StatsInv, TableInv, FetchedInv
<1>1. CASE Status
  <2>1. UNCHANGED <<rows, xkcdLast, owner, raced, stats>>
    BY <1>1 DEF Status, tableVars
  <2>2. CalmInv'
    BY <1>0, <1>1, <2>1 DEF Status, CalmInv
  <2>3. ReadInv'
    BY <1>0, <2>1, SameNumbers DEF ReadInv
  <2> QED
    BY <1>0, <2>1, <2>2, <2>3
       DEF StatsInv, TableInv, FetchedInv, FetchedWithinTotal
\* The reads of Stats.
<1>2. ASSUME stats' \in StatsRecords, UNCHANGED <<tableVars, status, calm>>,
             stats'.pc # "done" => stats'.code # "OK",
             stats'.pc = "last" => stats'.comicsFetched <= xkcdLast,
             stats'.code = "OK" => stats'.comicsFetched <= stats'.comicsTotal,
             stats'.calm => stats.calm \/ calm,
             ReadInv'
      PROVE  StatsInv'
  <2>1. UNCHANGED <<rows, xkcdLast, owner, raced, calm>>
    BY <1>2 DEF tableVars
  <2>2. TableInv' /\ CalmInv'
    BY <1>0, <1>2, <2>1 DEF TableInv, CalmInv
  <2>3. FetchedInv'
    BY <1>2, <2>1 DEF FetchedInv, FetchedWithinTotal
  <2> QED
    BY <1>2, <2>2, <2>3 DEF StatsInv
<1>3. CASE StatsBegin
  <2>1. /\ stats' = [NoStats EXCEPT !.pc = "unique", !.wordsTotal = WordsTotal,
                                    !.calm = calm]
        /\ UNCHANGED <<tableVars, status, calm>>
    BY <1>3 DEF StatsBegin
  <2>2. calm \in BOOLEAN /\ WordsTotal \in {TotalIn(t) : t \in Tables}
    BY <1>0, OfTheTable DEF CalmInv
  <2>3. /\ stats' \in StatsRecords /\ stats'.pc = "unique"
        /\ stats'.code = "none" /\ stats'.wordsTotal = WordsTotal
        /\ stats'.calm = calm
    BY <2>1, <2>2, NoStatsType DEF StatsRecords
  <2>4. ReadInv'
    BY <2>1, <2>3, SameNumbers DEF ReadInv, tableVars
  <2> QED
    BY <1>2, <2>1, <2>3, <2>4
<1>4. CASE StatsUnique
  <2>1. /\ stats' = [stats EXCEPT !.pc = "count", !.wordsUnique = WordsUnique]
        /\ stats.pc = "unique" /\ UNCHANGED <<tableVars, status, calm>>
    BY <1>4 DEF StatsUnique
  <2>2. WordsUnique \in {UniqueIn(t) : t \in Tables}
    BY <1>0, OfTheTable
  <2>3. /\ stats' \in StatsRecords /\ stats'.pc = "count"
        /\ stats'.code = stats.code /\ stats'.wordsTotal = stats.wordsTotal
        /\ stats'.wordsUnique = WordsUnique /\ stats'.calm = stats.calm
    BY <1>0, <2>1, <2>2 DEF StatsRecords
  <2>4. stats.code # "OK"
    BY <1>0, <2>1 DEF FetchedInv
  <2>5. ReadInv'
    BY <1>0, <2>1, <2>3, <2>4, SameNumbers DEF ReadInv, tableVars
  <2> QED
    BY <1>2, <2>1, <2>3, <2>4, <2>5
<1>5. CASE StatsCount
  <2>1. /\ stats' = [stats EXCEPT !.pc = "last",
                                  !.comicsFetched = ComicsFetched]
        /\ stats.pc = "count" /\ UNCHANGED <<tableVars, status, calm>>
    BY <1>5 DEF StatsCount
  <2>2. ComicsFetched \in Nat /\ ComicsFetched <= xkcdLast
    BY <1>0, FewerThanPublished
  <2>3. /\ stats' \in StatsRecords /\ stats'.pc = "last"
        /\ stats'.code = stats.code /\ stats'.wordsTotal = stats.wordsTotal
        /\ stats'.wordsUnique = stats.wordsUnique
        /\ stats'.comicsFetched = ComicsFetched /\ stats'.calm = stats.calm
    BY <1>0, <2>1, <2>2 DEF StatsRecords
  <2>4. stats.code # "OK"
    BY <1>0, <2>1 DEF FetchedInv
  <2>5. ReadInv'
    BY <1>0, <2>1, <2>3, <2>4, SameNumbers DEF ReadInv, tableVars
  <2> QED
    BY <1>2, <2>1, <2>2, <2>3, <2>4, <2>5
<1>6. CASE StatsLast
  <2>1. /\ stats' = [stats EXCEPT !.pc = "done", !.code = "OK",
                                  !.comicsTotal = xkcdLast]
        /\ stats.pc = "last" /\ UNCHANGED <<tableVars, status, calm>>
    BY <1>6 DEF StatsLast
  <2>2. /\ stats' \in StatsRecords /\ stats'.pc = "done" /\ stats'.code = "OK"
        /\ stats'.wordsTotal = stats.wordsTotal
        /\ stats'.wordsUnique = stats.wordsUnique
        /\ stats'.comicsFetched = stats.comicsFetched
        /\ stats'.comicsTotal = xkcdLast /\ stats'.calm = stats.calm
    BY <1>0, <2>1 DEF StatsRecords
  <2>3. stats.comicsFetched <= xkcdLast
    BY <1>0, <2>1 DEF FetchedInv
  <2>4. ReadInv'
    BY <1>0, <2>1, <2>2, SameNumbers DEF ReadInv, tableVars
  <2> QED
    BY <1>2, <2>1, <2>2, <2>3, <2>4
<1>7. CASE StatsFails
  <2>1. /\ stats' = [NoStats EXCEPT !.code = "Internal"]
        /\ UNCHANGED <<tableVars, status, calm>>
    BY <1>7 DEF StatsFails
  <2>2. /\ stats' \in StatsRecords /\ stats'.pc = "done"
        /\ stats'.code = "Internal" /\ stats'.calm = FALSE
    BY <2>1, NoStatsType DEF StatsRecords
  <2>3. ReadInv'
    BY <2>2 DEF ReadInv
  <2> QED
    BY <1>2, <2>1, <2>2, <2>3
<1>8. CASE TableStep
  <2>1. /\ TableNext /\ calm' = (calm /\ owner' \in {owner, None})
        /\ stats' = [stats EXCEPT !.calm = @ /\ owner' \in {owner, None}]
    BY <1>8 DEF TableStep
  <2>2. TableInv'
    BY <1>0, <2>1, TableNextKeeps
  <2>3. /\ stats' \in StatsRecords /\ stats'.pc = stats.pc
        /\ stats'.code = stats.code /\ stats'.wordsTotal = stats.wordsTotal
        /\ stats'.wordsUnique = stats.wordsUnique
        /\ stats'.comicsFetched = stats.comicsFetched
        /\ stats'.comicsTotal = stats.comicsTotal
        /\ stats'.calm = (stats.calm /\ owner' \in {owner, None})
    <3> DEFINE b == stats.calm /\ owner' \in {owner, None}
    <3>1. b \in BOOLEAN /\ stats' = [stats EXCEPT !.calm = b]
      BY <1>0, <2>1 DEF StatsRecords
    <3> HIDE DEF b
    <3>2. /\ stats' \in StatsRecords /\ stats'.pc = stats.pc
          /\ stats'.code = stats.code /\ stats'.wordsTotal = stats.wordsTotal
          /\ stats'.wordsUnique = stats.wordsUnique
          /\ stats'.comicsFetched = stats.comicsFetched
          /\ stats'.comicsTotal = stats.comicsTotal
          /\ stats'.calm = b
      BY <1>0, <3>1 DEF StatsRecords
    <3> QED
      BY <3>2 DEF b
  <2>4. xkcdLast' \in Nat /\ xkcdLast <= xkcdLast'
    BY <1>0, <2>1 DEF TableNext, Acquire, Release, AddRow, Truncate,
                      LateStatement, Publish
  <2>5. FetchedInv'
    BY <1>0, <2>3, <2>4 DEF FetchedInv, FetchedWithinTotal, StatsRecords
  <2>6. CalmInv'
    BY <1>0, <2>1, <2>3 DEF CalmInv
  <2>7. ASSUME stats'.calm, ~ raced' PROVE rows' = rows /\ ~ raced
    <3>1. owner = None /\ owner' = None
      BY <1>0, <2>3, <2>7 DEF CalmInv
    <3> QED
      BY <2>1, <2>7, <3>1, StatsAssumption
         DEF TableNext, Acquire, Release, AddRow, Truncate, LateStatement,
             Publish
  <2>8. ReadInv'
    BY <1>0, <2>3, <2>7, SameNumbers DEF ReadInv
  <2> QED
    BY <2>2, <2>5, <2>6, <2>8 DEF StatsInv
<1>9. CASE UNCHANGED vars
  <2>1. UNCHANGED <<rows, xkcdLast, owner, raced, stats, calm>>
    BY <1>9 DEF vars, tableVars
  <2>2. ReadInv'
    BY <1>0, <2>1, SameNumbers DEF ReadInv
  <2> QED
    BY <1>0, <2>1, <2>2
       DEF StatsInv, TableInv, FetchedInv, FetchedWithinTotal, CalmInv
<1> QED
  BY <1>1, <1>3, <1>4, <1>5, <1>6, <1>7, <1>8, <1>9 DEF Next

-----------------------------------------------------------------------------
(* The theorems.                                                           *)

\* The invariant holds at all times.
THEOREM StatsInvariant == Spec => []StatsInv
  BY StatsInit, StatsNext, PTL DEF Spec

\* FetchedWithinTotal: Stats never claims more comics than xkcd.com has,
\* though it reads the two numbers at different times (service.go:162-175).
THEOREM NeverMoreThanPublished == Spec => []FetchedWithinTotal
<1>1. StatsInv => FetchedWithinTotal
  BY DEF StatsInv, FetchedInv
<1> QED
  BY StatsInvariant, <1>1, PTL

\* IdleStatsAreExact: after an idle Status the three SELECTs of Stats see one
\* table (service.go:162-182).
THEOREM IdleMeansExact == Spec => []IdleStatsAreExact
<1>1. StatsInv => IdleStatsAreExact
  BY DEF StatsInv, ReadInv, IdleStatsAreExact
<1> QED
  BY StatsInvariant, <1>1, PTL
=============================================================================
