---------------------------- MODULE UpdateTable ----------------------------
(***************************************************************************)
(* UpdateService implements ComicsTable: of its flag, program counters,    *)
(* channel, workers, late statements and crashes the readers of the table  *)
(* see one owner at a time, missing rows added one by one, and nothing     *)
(* else.                                                                   *)
(***************************************************************************)
EXTENDS UpdateService

CONSTANT None   \* no owner

ASSUME NoneAssumption == None \notin Requests

\* The request between its compare-and-swap and its return.
CoreOwner ==
  IF \E r \in Requests : pc[r] \in Busy
    THEN CHOOSE r \in Requests : pc[r] \in Busy
    ELSE None

Table == INSTANCE ComicsTable WITH rows <- db, owner <- CoreOwner

\* Every behaviour of the update service is one that ComicsTable allows:
\* workers, late statements and crashes change the table only in the ways the
\* readers reckon with, and a row is added only for a comic that exists, that
\* was missing, and by the request that owns the table (service.go:40-157).
ImplementsTable == Table!TableSpec

\* What is downloaded, queued or left on the wire has been published.
PublishedOK ==
  /\ \A u \in Updates :
       /\ latest[u] <= xkcdLast
       /\ \A i \in 1 .. Len(jobs[u]) : jobs[u][i] <= xkcdLast
       /\ \A w \in Workers : wjob[u][w] <= xkcdLast
  /\ \A s \in lateAdds : s[2] <= xkcdLast
=============================================================================
