---------------------------- MODULE UpdateStats ----------------------------
(***************************************************************************)
(* Status and Stats of the update service (update/core/service.go,         *)
(* update/adapters/db/storage.go, update/adapters/grpc/server.go).  Stats  *)
(* is three SELECTs and a request to xkcd.com, with no transaction around  *)
(* them, while an Update or a Drop goes on.                                *)
(*                                                                         *)
(* Of a row only the words column matters here: the set of its words.      *)
(***************************************************************************)
EXTENDS ComicsTable, FiniteSets, Functions

ASSUME StatsAssumption == MaxID \in Nat /\ None \notin Updates \cup Drops

VARIABLES
  status,       \* the last answer of Status
  stats,        \* the Stats call under way, or the last one with its answer
  calm          \* history: no request got into the core since that Status

vars == <<tableVars, status, stats, calm>>

NoStats ==
  [pc |-> "done", code |-> "none", wordsTotal |-> 0, wordsUnique |-> 0,
   comicsFetched |-> 0, comicsTotal |-> 0,
   calm |-> FALSE]   \* history: ... began after an idle Status, as "calm"

Init ==
  /\ TableInit
  /\ status = "none"
  /\ stats = NoStats
  /\ calm = FALSE

-----------------------------------------------------------------------------
Total(f) == FoldFunction(+, 0, f)
WordsTotal == Total([id \in Stored |-> Cardinality(rows[id])])
WordsUnique == Cardinality(UNION {rows[id] : id \in Stored})
ComicsFetched == Cardinality(Stored)

\* Mutant of Status: only an Update counts as running.
StatusOfUpdates ==
  /\ stats.pc = "done"
  /\ status' = IF owner \in Updates THEN "running" ELSE "idle"
  /\ calm' = (status' = "idle")
  /\ UNCHANGED <<tableVars, stats>>

\* s.running.Load()
Status ==
  /\ stats.pc = "done"
  /\ status' = IF owner # None THEN "running" ELSE "idle"
  /\ calm' = (status' = "idle")
  /\ UNCHANGED <<tableVars, stats>>

\* The first SELECT.
StatsBegin ==
  /\ stats.pc = "done"
  /\ stats' = [NoStats EXCEPT !.pc = "unique", !.wordsTotal = WordsTotal,
                              !.calm = calm]
  /\ UNCHANGED <<tableVars, status, calm>>

StatsUnique ==
  /\ stats.pc = "unique"
  /\ stats' = [stats EXCEPT !.pc = "count", !.wordsUnique = WordsUnique]
  /\ UNCHANGED <<tableVars, status, calm>>

StatsCount ==
  /\ stats.pc = "count"
  /\ stats' = [stats EXCEPT !.pc = "last", !.comicsFetched = ComicsFetched]
  /\ UNCHANGED <<tableVars, status, calm>>

\* Mutant of StatsLast: the newest comic is the one before the newest.
StatsLastOffByOne ==
  /\ stats.pc = "last"
  /\ stats' = [stats EXCEPT !.pc = "done", !.code = "OK",
                            !.comicsTotal = xkcdLast - 1]
  /\ UNCHANGED <<tableVars, status, calm>>

\* xkcd.LastID, and the reply.
StatsLast ==
  /\ stats.pc = "last"
  /\ stats' = [stats EXCEPT !.pc = "done", !.code = "OK",
                            !.comicsTotal = xkcdLast]
  /\ UNCHANGED <<tableVars, status, calm>>

\* A statement or the request to xkcd.com fails, or the client gave up.
StatsFails ==
  /\ stats' = [NoStats EXCEPT !.code = "Internal"]
  /\ UNCHANGED <<tableVars, status, calm>>

\* The update service goes on meanwhile.
TableStep ==
  /\ TableNext
  /\ calm' = (calm /\ owner' \in {owner, None})
  /\ stats' = [stats EXCEPT !.calm = @ /\ owner' \in {owner, None}]
  /\ UNCHANGED status

Next ==
  \/ Status
  \/ StatsBegin \/ StatsUnique \/ StatsCount \/ StatsLast \/ StatsFails
  \/ TableStep

Spec == Init /\ [][Next]_vars

-----------------------------------------------------------------------------
(* Properties.                                                             *)

\* Whatever goes on between the four reads, Stats never claims more comics
\* fetched than xkcd.com has: the newest id is asked for last, and a row is
\* only ever added for a comic that has been published (service.go:162-175).
FetchedWithinTotal ==
  stats.code = "OK" => stats.comicsFetched <= stats.comicsTotal

\* Stats read after Status said "idle", with no request accepted since, are
\* the numbers of the table as it is, all three of them: "idle" means that
\* nobody is writing, unless a statement was left behind by a client that gave
\* up (service.go:162-182, storage.go:71-102).
IdleStatsAreExact ==
  stats.code = "OK" /\ stats.calm /\ ~ raced =>
    /\ stats.wordsTotal = WordsTotal
    /\ stats.wordsUnique = WordsUnique
    /\ stats.comicsFetched = ComicsFetched
=============================================================================
