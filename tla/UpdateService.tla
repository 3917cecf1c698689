--------------------------- MODULE UpdateService ---------------------------
(***************************************************************************)
(* The update microservice: core.Service (update/core/service.go), its     *)
(* Postgres adapter (update/adapters/db/storage.go), its gRPC server       *)
(* (update/adapters/grpc/server.go) and its NATS publisher.                *)
(*                                                                         *)
(* A request is one gRPC call of Update or Drop.  Both take the service's  *)
(* atomic flag "running" with a compare-and-swap and give it back when     *)
(* they return.  An Update reads the newest xkcd id and the ids already    *)
(* stored, spawns a pool of workers on a bounded channel, sends every id   *)
(* that is missing, closes the channel and waits for the workers.  The     *)
(* server publishes an event when the core returned nil.                   *)
(*                                                                         *)
(* Postgres, xkcd.com, the words service and NATS are external.  What is   *)
(* assumed of them: a statement is atomic; a statement whose context was   *)
(* cancelled, or whose client died, may still take effect LATER, because   *)
(* the driver gives up on the answer, not on the server; every call can    *)
(* fail; the newest xkcd id never decreases and the document of comic n    *)
(* says that its number is n.                                              *)
(***************************************************************************)
EXTENDS Naturals, Sequences, FiniteSets

CONSTANTS
  Updates,      \* the Update calls
  Drops,        \* the Drop calls
  Concurrency,  \* XKCD_CONCURRENCY, the size of the worker pool
  MaxID         \* bound on the newest xkcd id

ASSUME ConstantsAssumption ==
  /\ Updates \cap Drops = {}
  /\ Concurrency \in Nat \ {0}          \* NewService rejects the others
  /\ MaxID \in Nat \ {0}

Requests == Updates \cup Drops
IDs == 1 .. MaxID

\* At most 64 workers are started, whatever the configuration says.
NumWorkers == IF Concurrency > 64 THEN 64 ELSE Concurrency
Workers == 1 .. NumWorkers

\* Capacity of the jobs channel.
JobsCap == NumWorkers * 2

\* What a row holds: "full", the comic with its normalised texts, or
\* "hollow", a comic one of whose texts words could not normalise (it is
\* stored empty) or the empty placeholder of an id xkcd answered 404.
Rows == {"full", "hollow"}
Absent == "absent"

VARIABLES
  xkcdLast,     \* the newest id on xkcd.com
  db,           \* the comics table: id -> row or Absent
  running,      \* Service.running
  pc,           \* where each request is
  cancelled,    \* requests whose context is done
  reply,        \* the gRPC code each request was answered with
  latest,       \* Update's local latest
  exists,       \* Update's local set of ids found in the table
  cursor,       \* Update's loop variable id
  jobs,         \* Update's jobs channel
  wpc,          \* where each worker of an Update is
  wjob,         \* the id a worker holds, 0 for none
  wrow,         \* the row a worker is about to store
  lateAdds,     \* upserts given up by their client and not settled yet
  lateDrops,    \* TRUNCATEs given up by their client and not settled yet
  \* history variables
  skipped,      \* ids of an Update that were given up on an error
  unannounced,  \* requests that changed the table since the last event
  pubFailed,    \* requests whose event could not be published
  raced         \* a given-up statement took effect late

locals == <<latest, exists, cursor, jobs, wpc, wjob, wrow, skipped>>
history == <<unannounced, pubFailed, raced>>
vars == <<xkcdLast, db, running, pc, cancelled, reply, locals,
          lateAdds, lateDrops, history>>

\* Program points at which a request holds the flag "running".
Busy == {"lastid", "ids", "dispatch", "abort", "wait", "truncate"}
\* Program points between the acceptance of a call and its answer.
Active == Busy \cup {"notify"}
\* The channel is closed on both ways out of the dispatch loop.
Closed(u) == pc[u] \in {"abort", "wait"}
\* Program points at which an Update's workers may be alive.
Pooling == {"dispatch", "abort", "wait"}

Present == {id \in IDs : db[id] # Absent}

\* Worker w of Update u is at the top of its loop or inside it.
Live(u, w) == wpc[u][w] \in {"select", "fetch", "store"}

\* A process that has just started, on the table an earlier one left behind.
Init ==
  /\ xkcdLast \in IDs
  /\ db \in [IDs -> Rows \cup {Absent}]
  /\ \A id \in IDs : id > xkcdLast => db[id] = Absent
  /\ running = FALSE
  /\ pc = [r \in Requests |-> "new"]
  /\ cancelled = {}
  /\ reply = [r \in Requests |-> "none"]
  /\ latest = [u \in Updates |-> 0]
  /\ exists = [u \in Updates |-> {}]
  /\ cursor = [u \in Updates |-> 0]
  /\ jobs = [u \in Updates |-> << >>]
  /\ wpc = [u \in Updates |-> [w \in Workers |-> "off"]]
  /\ wjob = [u \in Updates |-> [w \in Workers |-> 0]]
  /\ wrow = [u \in Updates |-> [w \in Workers |-> Absent]]
  /\ lateAdds = {}
  /\ lateDrops = {}
  /\ skipped = [u \in Updates |-> {}]
  /\ unannounced = {}
  /\ pubFailed = {}
  /\ raced = FALSE

-----------------------------------------------------------------------------
(* Leaving the core.                                                       *)

\* Update's locals are gone: the state they had before the call.
ClearLocals(u) ==
  /\ latest' = [latest EXCEPT ![u] = 0]
  /\ exists' = [exists EXCEPT ![u] = {}]
  /\ cursor' = [cursor EXCEPT ![u] = 0]
  /\ jobs' = [jobs EXCEPT ![u] = << >>]
  /\ wpc' = [wpc EXCEPT ![u] = [w \in Workers |-> "off"]]
  /\ wjob' = [wjob EXCEPT ![u] = [w \in Workers |-> 0]]
  /\ wrow' = [wrow EXCEPT ![u] = [w \in Workers |-> Absent]]
  /\ skipped' = [skipped EXCEPT ![u] = {}]

\* Request r is answered with a gRPC code.
Answer(r, code) ==
  /\ pc' = [pc EXCEPT ![r] = "done"]
  /\ reply' = [reply EXCEPT ![r] = code]

\* The core returns an error: the deferred running.Store(false), and the
\* server answers Internal without notifying.
Fail(r) ==
  /\ running' = FALSE
  /\ Answer(r, "Internal")

\* The core returns nil: the deferred running.Store(false), and the server
\* goes on to its notifier.
Succeed(r) ==
  /\ running' = FALSE
  /\ pc' = [pc EXCEPT ![r] = "notify"]
  /\ UNCHANGED reply

-----------------------------------------------------------------------------
(* Update, on the goroutine of the gRPC call.                              *)

\* Mutant of UpdateAccepted: no compare-and-swap.
UpdateAcceptedNoCAS(u) ==
  /\ pc[u] = "new"
  /\ running' = TRUE
  /\ pc' = [pc EXCEPT ![u] = "lastid"]
  /\ UNCHANGED <<xkcdLast, db, cancelled, reply, locals, lateAdds, lateDrops,
                 history>>

UpdateAccepted(u) ==
  /\ pc[u] = "new"
  /\ ~running
  /\ running' = TRUE
  /\ pc' = [pc EXCEPT ![u] = "lastid"]
  /\ UNCHANGED <<xkcdLast, db, cancelled, reply, locals, lateAdds, lateDrops,
                 history>>

\* The compare-and-swap fails: ErrAlreadyExists, AlreadyExists on the wire.
UpdateRejected(u) ==
  /\ pc[u] = "new"
  /\ running
  /\ Answer(u, "AlreadyExists")
  /\ UNCHANGED <<xkcdLast, db, running, cancelled, locals, lateAdds,
                 lateDrops, history>>

UpdateLastID(u) ==
  /\ pc[u] = "lastid"
  /\ latest' = [latest EXCEPT ![u] = xkcdLast]
  /\ pc' = [pc EXCEPT ![u] = "ids"]
  /\ UNCHANGED <<xkcdLast, db, running, cancelled, reply, exists, cursor, jobs,
                 wpc, wjob, wrow, skipped, lateAdds, lateDrops, history>>

\* Mutant of UpdateIDs: the ids in the table are not remembered.
UpdateIDsForgotten(u) ==
  /\ pc[u] = "ids"
  /\ cursor' = [cursor EXCEPT ![u] = 1]
  /\ wpc' = [wpc EXCEPT ![u] = [w \in Workers |-> "select"]]
  /\ pc' = [pc EXCEPT ![u] = "dispatch"]
  /\ UNCHANGED <<xkcdLast, db, running, cancelled, reply, latest, exists, jobs,
                 wjob, wrow, skipped, lateAdds, lateDrops, history>>

\* The ids in the table, then the channel and the workers.
UpdateIDs(u) ==
  /\ pc[u] = "ids"
  /\ exists' = [exists EXCEPT ![u] = Present]
  /\ cursor' = [cursor EXCEPT ![u] = 1]
  /\ wpc' = [wpc EXCEPT ![u] = [w \in Workers |-> "select"]]
  /\ pc' = [pc EXCEPT ![u] = "dispatch"]
  /\ UNCHANGED <<xkcdLast, db, running, cancelled, reply, latest, jobs, wjob,
                 wrow, skipped, lateAdds, lateDrops, history>>

\* xkcd.LastID or db.IDs returns an error, and so does Update.
UpdateFails(u) ==
  /\ pc[u] \in {"lastid", "ids"}
  /\ Fail(u)
  /\ ClearLocals(u)
  /\ UNCHANGED <<xkcdLast, db, cancelled, lateAdds, lateDrops, history>>

\* for id := 1; id <= latest; id++: an id that is already stored is skipped.
DispatchSkip(u) ==
  /\ pc[u] = "dispatch"
  /\ cursor[u] <= latest[u]
  /\ cursor[u] \in exists[u]
  /\ cursor' = [cursor EXCEPT ![u] = @ + 1]
  /\ UNCHANGED <<xkcdLast, db, running, pc, cancelled, reply, latest, exists,
                 jobs, wpc, wjob, wrow, skipped, lateAdds, lateDrops, history>>

\* Mutant of DispatchSend: id <= latest + 1.
DispatchSendPastLatest(u) ==
  /\ pc[u] = "dispatch"
  /\ cursor[u] <= latest[u] + 1
  /\ cursor[u] \notin exists[u]
  /\ Len(jobs[u]) < JobsCap
  /\ jobs' = [jobs EXCEPT ![u] = Append(@, cursor[u])]
  /\ cursor' = [cursor EXCEPT ![u] = @ + 1]
  /\ UNCHANGED <<xkcdLast, db, running, pc, cancelled, reply, latest, exists,
                 wpc, wjob, wrow, skipped, lateAdds, lateDrops, history>>

\* ... and a missing one is sent as soon as the channel has room ...
DispatchSend(u) ==
  /\ pc[u] = "dispatch"
  /\ cursor[u] <= latest[u]
  /\ cursor[u] \notin exists[u]
  /\ Len(jobs[u]) < JobsCap
  /\ jobs' = [jobs EXCEPT ![u] = Append(@, cursor[u])]
  /\ cursor' = [cursor EXCEPT ![u] = @ + 1]
  /\ UNCHANGED <<xkcdLast, db, running, pc, cancelled, reply, latest, exists,
                 wpc, wjob, wrow, skipped, lateAdds, lateDrops, history>>

\* Mutant of DispatchAbort: the context is looked at before the send and not
\* in one select with it, so a send blocked on a full channel stays blocked.
DispatchAbortUnlessBlocked(u) ==
  /\ pc[u] = "dispatch"
  /\ cursor[u] <= latest[u]
  /\ cursor[u] \notin exists[u]
  /\ Len(jobs[u]) < JobsCap
  /\ u \in cancelled
  /\ pc' = [pc EXCEPT ![u] = "abort"]
  /\ UNCHANGED <<xkcdLast, db, running, cancelled, reply, locals, lateAdds,
                 lateDrops, history>>

\* ... unless the select sees the context done: close(jobs), then wg.Wait().
DispatchAbort(u) ==
  /\ pc[u] = "dispatch"
  /\ cursor[u] <= latest[u]
  /\ cursor[u] \notin exists[u]
  /\ u \in cancelled
  /\ pc' = [pc EXCEPT ![u] = "abort"]
  /\ UNCHANGED <<xkcdLast, db, running, cancelled, reply, locals, lateAdds,
                 lateDrops, history>>

\* The loop is over: close(jobs), then wg.Wait().
DispatchDone(u) ==
  /\ pc[u] = "dispatch"
  /\ cursor[u] > latest[u]
  /\ pc' = [pc EXCEPT ![u] = "wait"]
  /\ UNCHANGED <<xkcdLast, db, running, cancelled, reply, locals, lateAdds,
                 lateDrops, history>>

\* Mutant of UpdateReturn: no wg.Wait().
UpdateReturnNoWait(u) ==
  /\ Closed(u)
  /\ IF pc[u] = "abort" THEN Fail(u) ELSE Succeed(u)
  /\ UNCHANGED <<xkcdLast, db, cancelled, locals, lateAdds, lateDrops,
                 history>>

\* wg.Wait() returns once every worker has, then Update does: ctx.Err() after
\* an aborted loop, nil after a complete one (done context or not).
UpdateReturn(u) ==
  /\ Closed(u)
  /\ \A w \in Workers : wpc[u][w] = "exit"
  /\ IF pc[u] = "abort" THEN Fail(u) ELSE Succeed(u)
  /\ ClearLocals(u)
  /\ UNCHANGED <<xkcdLast, db, cancelled, lateAdds, lateDrops, history>>

-----------------------------------------------------------------------------
(* The workers of an Update.                                               *)

\* Mutant of WorkerReceive: the id stays in the channel.
WorkerReceivePeek(u, w) ==
  /\ wpc[u][w] = "select"
  /\ jobs[u] # << >>
  /\ wjob' = [wjob EXCEPT ![u][w] = Head(jobs[u])]
  /\ wpc' = [wpc EXCEPT ![u][w] = "fetch"]
  /\ UNCHANGED <<xkcdLast, db, running, pc, cancelled, reply, latest, exists,
                 cursor, jobs, wrow, skipped, lateAdds, lateDrops, history>>

\* case j, ok := <-jobs: the oldest id in the channel.
WorkerReceive(u, w) ==
  /\ wpc[u][w] = "select"
  /\ jobs[u] # << >>
  /\ wjob' = [wjob EXCEPT ![u][w] = Head(jobs[u])]
  /\ jobs' = [jobs EXCEPT ![u] = Tail(@)]
  /\ wpc' = [wpc EXCEPT ![u][w] = "fetch"]
  /\ UNCHANGED <<xkcdLast, db, running, pc, cancelled, reply, latest, exists,
                 cursor, wrow, skipped, lateAdds, lateDrops, history>>

\* Mutant of WorkerExit: a closed channel is left with ids in it.
WorkerExitUndrained(u, w) ==
  /\ wpc[u][w] = "select"
  /\ u \in cancelled \/ Closed(u)
  /\ wpc' = [wpc EXCEPT ![u][w] = "exit"]
  /\ UNCHANGED <<xkcdLast, db, running, pc, cancelled, reply, latest, exists,
                 cursor, jobs, wjob, wrow, skipped, lateAdds, lateDrops,
                 history>>

\* The select's other ways out: the context is done, or the channel is
\* closed and drained.
WorkerExit(u, w) ==
  /\ wpc[u][w] = "select"
  /\ \/ u \in cancelled
     \/ Closed(u) /\ jobs[u] = << >>
  /\ wpc' = [wpc EXCEPT ![u][w] = "exit"]
  /\ UNCHANGED <<xkcdLast, db, running, pc, cancelled, reply, latest, exists,
                 cursor, jobs, wjob, wrow, skipped, lateAdds, lateDrops,
                 history>>

\* Back to the top of the loop; an id given up on an error is remembered.
NextJob(u, w, gaveUp) ==
  /\ wpc' = [wpc EXCEPT ![u][w] = "select"]
  /\ wjob' = [wjob EXCEPT ![u][w] = 0]
  /\ wrow' = [wrow EXCEPT ![u][w] = Absent]
  /\ skipped' = IF gaveUp THEN [skipped EXCEPT ![u] = @ \cup {wjob[u][w]}]
                          ELSE skipped

\* xkcd.Get and the three words.Norm calls.  A 404 or a failed Norm makes a
\* hollow row.
WorkerFetch(u, w) ==
  /\ wpc[u][w] = "fetch"
  /\ \E row \in Rows : wrow' = [wrow EXCEPT ![u][w] = row]
  /\ wpc' = [wpc EXCEPT ![u][w] = "store"]
  /\ UNCHANGED <<xkcdLast, db, running, pc, cancelled, reply, latest, exists,
                 cursor, jobs, wjob, skipped, lateAdds, lateDrops, history>>

\* Any other error of xkcd.Get, or an upsert that failed: the id is given up,
\* the worker goes on.
WorkerGivesUp(u, w) ==
  /\ wpc[u][w] \in {"fetch", "store"}
  /\ NextJob(u, w, TRUE)
  /\ UNCHANGED <<xkcdLast, db, running, pc, cancelled, reply, latest, exists,
                 cursor, jobs, lateAdds, lateDrops, history>>

\* db.Add, an upsert by id, takes effect; the worker learns of it or gets an
\* error all the same.
WorkerStore(u, w) ==
  /\ wpc[u][w] = "store"
  /\ db' = [db EXCEPT ![wjob[u][w]] = wrow[u][w]]
  /\ unannounced' = unannounced \cup {u}
  /\ \E lostReply \in BOOLEAN : NextJob(u, w, lostReply)
  /\ UNCHANGED <<xkcdLast, running, pc, cancelled, reply, latest, exists,
                 cursor, jobs, lateAdds, lateDrops, pubFailed, raced>>

\* db.Add with a done context: the worker gets an error, the server still has
\* the statement.
WorkerAbandons(u, w) ==
  /\ wpc[u][w] = "store"
  /\ u \in cancelled
  /\ lateAdds' = lateAdds \cup {<<u, wjob[u][w], wrow[u][w]>>}
  /\ NextJob(u, w, TRUE)
  /\ UNCHANGED <<xkcdLast, db, running, pc, cancelled, reply, latest, exists,
                 cursor, jobs, lateDrops, history>>

-----------------------------------------------------------------------------
(* Drop.                                                                   *)

\* Mutant of DropAccepted: no compare-and-swap.
DropAcceptedNoCAS(d) ==
  /\ pc[d] = "new"
  /\ running' = TRUE
  /\ pc' = [pc EXCEPT ![d] = "truncate"]
  /\ UNCHANGED <<xkcdLast, db, cancelled, reply, locals, lateAdds, lateDrops,
                 history>>

DropAccepted(d) ==
  /\ pc[d] = "new"
  /\ ~running
  /\ running' = TRUE
  /\ pc' = [pc EXCEPT ![d] = "truncate"]
  /\ UNCHANGED <<xkcdLast, db, cancelled, reply, locals, lateAdds, lateDrops,
                 history>>

\* Drop's server does not tell ErrAlreadyExists from other errors.
DropRejected(d) ==
  /\ pc[d] = "new"
  /\ running
  /\ Answer(d, "Internal")
  /\ UNCHANGED <<xkcdLast, db, running, cancelled, locals, lateAdds,
                 lateDrops, history>>

\* db.Drop takes effect and Drop returns, with an error if the answer is lost.
DropTruncate(d) ==
  /\ pc[d] = "truncate"
  /\ db' = [id \in IDs |-> Absent]
  /\ unannounced' = unannounced \cup {d}
  /\ Succeed(d) \/ Fail(d)
  /\ UNCHANGED <<xkcdLast, cancelled, locals, lateAdds, lateDrops, pubFailed,
                 raced>>

\* db.Drop fails.
DropFails(d) ==
  /\ pc[d] = "truncate"
  /\ Fail(d)
  /\ UNCHANGED <<xkcdLast, db, cancelled, locals, lateAdds, lateDrops, history>>

\* db.Drop with a done context (the api gives it a deadline): an error here,
\* and a TRUNCATE that the server still has.
DropAbandons(d) ==
  /\ pc[d] = "truncate"
  /\ d \in cancelled
  /\ lateDrops' = lateDrops \cup {d}
  /\ Fail(d)
  /\ UNCHANGED <<xkcdLast, db, cancelled, locals, lateAdds, history>>

-----------------------------------------------------------------------------
(* The server's notifier: Publish and Flush, whose errors are only logged. *)

Notify(r) ==
  /\ pc[r] = "notify"
  /\ \/ unannounced' = {} /\ UNCHANGED pubFailed
     \/ pubFailed' = pubFailed \cup {r} /\ UNCHANGED unannounced
  /\ Answer(r, "OK")
  /\ UNCHANGED <<xkcdLast, db, running, cancelled, locals, lateAdds,
                 lateDrops, raced>>

-----------------------------------------------------------------------------
(* The environment.                                                        *)

\* The caller's deadline passes, or its connection is gone.
Cancel(r) ==
  /\ pc[r] \in Busy
  /\ r \notin cancelled
  /\ cancelled' = cancelled \cup {r}
  /\ UNCHANGED <<xkcdLast, db, running, pc, reply, locals, lateAdds,
                 lateDrops, history>>

\* xkcd.com publishes its next comic.
XkcdPublish ==
  /\ xkcdLast < MaxID
  /\ xkcdLast' = xkcdLast + 1
  /\ UNCHANGED <<db, running, pc, cancelled, reply, locals, lateAdds,
                 lateDrops, history>>

\* Postgres executes an upsert that its client gave up, or drops it.
SettleAdd(s) ==
  /\ s \in lateAdds
  /\ lateAdds' = lateAdds \ {s}
  /\ \/ /\ db' = [db EXCEPT ![s[2]] = s[3]]
        /\ unannounced' = unannounced \cup {s[1]}
        /\ raced' = TRUE
     \/ UNCHANGED <<db, unannounced, raced>>
  /\ UNCHANGED <<xkcdLast, running, pc, cancelled, reply, locals, lateDrops,
                 pubFailed>>

\* The same for a TRUNCATE.
SettleDrop(d) ==
  /\ d \in lateDrops
  /\ lateDrops' = lateDrops \ {d}
  /\ \/ /\ db' = [id \in IDs |-> Absent]
        /\ unannounced' = unannounced \cup {d}
        /\ raced' = TRUE
     \/ UNCHANGED <<db, unannounced, raced>>
  /\ UNCHANGED <<xkcdLast, running, pc, cancelled, reply, locals, lateAdds,
                 pubFailed>>

\* The process dies and is restarted (compose.yaml: restart unless-stopped).
\* The flag and every goroutine are gone, the callers see Unavailable, the
\* table stays, statements on the wire may still be executed.
Crash ==
  /\ \E r \in Requests : pc[r] \in Active
  /\ running' = FALSE
  /\ pc' = [r \in Requests |-> IF pc[r] \in Active THEN "done" ELSE pc[r]]
  /\ reply' = [r \in Requests |->
                 IF pc[r] \in Active THEN "Unavailable" ELSE reply[r]]
  /\ latest' = [u \in Updates |-> 0]
  /\ exists' = [u \in Updates |-> {}]
  /\ cursor' = [u \in Updates |-> 0]
  /\ jobs' = [u \in Updates |-> << >>]
  /\ wpc' = [u \in Updates |-> [w \in Workers |-> "off"]]
  /\ wjob' = [u \in Updates |-> [w \in Workers |-> 0]]
  /\ wrow' = [u \in Updates |-> [w \in Workers |-> Absent]]
  /\ skipped' = [u \in Updates |-> {}]
  /\ lateAdds' = lateAdds \cup
       {<<x[1], wjob[x[1]][x[2]], wrow[x[1]][x[2]]>> :
          x \in {y \in Updates \X Workers : wpc[y[1]][y[2]] = "store"}}
  /\ lateDrops' = lateDrops \cup {d \in Drops : pc[d] = "truncate"}
  /\ UNCHANGED <<xkcdLast, db, cancelled, history>>

-----------------------------------------------------------------------------
UpdateStep(u) ==
  \/ UpdateLastID(u) \/ UpdateIDs(u) \/ UpdateFails(u)
  \/ DispatchSkip(u) \/ DispatchSend(u) \/ DispatchAbort(u)
  \/ DispatchDone(u) \/ UpdateReturn(u)

WorkerStep(u, w) ==
  \/ WorkerReceive(u, w) \/ WorkerExit(u, w) \/ WorkerFetch(u, w)
  \/ WorkerGivesUp(u, w) \/ WorkerStore(u, w) \/ WorkerAbandons(u, w)

DropStep(d) == DropTruncate(d) \/ DropFails(d) \/ DropAbandons(d)

\* All calls are answered and nothing is left to settle.
Terminated ==
  /\ \A r \in Requests : pc[r] = "done"
  /\ lateAdds = {} /\ lateDrops = {} /\ xkcdLast = MaxID
  /\ UNCHANGED vars

Next ==
  \/ \E u \in Updates : UpdateAccepted(u) \/ UpdateRejected(u) \/ UpdateStep(u)
  \/ \E u \in Updates : \E w \in Workers : WorkerStep(u, w)
  \/ \E d \in Drops : DropAccepted(d) \/ DropRejected(d) \/ DropStep(d)
  \/ \E r \in Requests : Notify(r) \/ Cancel(r)
  \/ \E s \in lateAdds : SettleAdd(s)
  \/ \E d \in Drops : SettleDrop(d)
  \/ XkcdPublish
  \/ Crash
  \/ Terminated

Spec == Init /\ [][Next]_vars

\* The Go scheduler runs every goroutine that can run, and every external
\* call of the service returns: the xkcd client has a timeout, the others
\* fail when their connection does.  Callers, deadlines, crashes, xkcd.com
\* and late statements owe nothing.
Fairness ==
  /\ \A u \in Updates : WF_vars(UpdateStep(u))
  /\ \A u \in Updates : \A w \in Workers : WF_vars(WorkerStep(u, w))
  /\ \A d \in Drops : WF_vars(DropStep(d))
  /\ \A r \in Requests : WF_vars(Notify(r))

FairSpec == Spec /\ Fairness

-----------------------------------------------------------------------------
(* Properties.                                                             *)

RequestPoints == Active \cup {"new", "done"}
WorkerPoints == {"off", "select", "fetch", "store", "exit"}
Codes == {"none", "OK", "AlreadyExists", "Internal", "Unavailable"}

\* The types of the locals of the Updates.
LocalsTypeOK ==
  /\ latest \in [Updates -> 0 .. MaxID]
  /\ exists \in [Updates -> SUBSET IDs]
  /\ cursor \in [Updates -> 0 .. MaxID + 1]
  /\ jobs \in [Updates -> Seq(IDs)]
  /\ wpc \in [Updates -> [Workers -> WorkerPoints]]
  /\ wjob \in [Updates -> [Workers -> 0 .. MaxID]]
  /\ wrow \in [Updates -> [Workers -> Rows \cup {Absent}]]
  /\ skipped \in [Updates -> SUBSET IDs]

\* Every variable of the update service keeps its type.
TypeOK ==
  /\ LocalsTypeOK
  /\ xkcdLast \in IDs
  /\ db \in [IDs -> Rows \cup {Absent}]
  /\ running \in BOOLEAN
  /\ pc \in [Requests -> RequestPoints]
  /\ cancelled \subseteq Requests
  /\ reply \in [Requests -> Codes]
  /\ lateAdds \subseteq Updates \X IDs \X Rows
  /\ lateDrops \subseteq Drops
  /\ unannounced \subseteq Requests
  /\ pubFailed \subseteq Requests
  /\ raced \in BOOLEAN

\* The flag "running" lets one request at a time into the core: at most one
\* Update or Drop is between its compare-and-swap and its return, and the flag
\* is up exactly while there is one, whichever way the last one returned
\* (service.go:40-43, 185-188).
SingleFlight ==
  /\ \A r, s \in Requests :
       pc[r] \in Busy /\ pc[s] \in Busy => r = s
  /\ running <=> \E r \in Requests : pc[r] \in Busy

\* Status answers "idle" only when no worker is left: wg.Wait stands before
\* every return that has started the pool, cancelled or not
\* (service.go:140-159, 177-182).
QuietWhenIdle ==
  ~running => \A u \in Updates, w \in Workers : ~Live(u, w)

\* No id is in two hands: two workers, of one Update or of two, never hold
\* the same comic, and none holds one that is still in a channel, so that no
\* two upserts of one comic are on their way at once (service.go:144-155).
OneHandPerComic ==
  \A u \in Updates, w \in Workers : wjob[u][w] # 0 =>
    /\ \A v \in Updates, x \in Workers :
         wjob[v][x] = wjob[u][w] => v = u /\ x = w
    /\ \A v \in Updates : \A i \in 1 .. Len(jobs[v]) : jobs[v][i] # wjob[u][w]

\* An Update that was not cancelled and returns nil has taken care of every
\* comic up to the newest one it saw: it is in the table, or its download or
\* its upsert failed.  Nothing in the channel or in the hands of a worker is
\* forgotten, and nothing that the Update saw or stored has been dropped under
\* it (service.go:144-159).  Only a late TRUNCATE of an earlier, cancelled
\* Drop can break this.
UpdateComplete ==
  [][\A u \in Updates :
       pc[u] = "wait" /\ pc'[u] = "notify" /\ u \notin cancelled /\ ~raced =>
         (1 .. latest[u]) \subseteq (Present \cup skipped[u])]_vars

\* An Update downloads only what is missing: whatever the workers do, a row
\* is never rewritten in place, only dropped by a Drop.  Add is an upsert and
\* would overwrite; that it does not rests on the snapshot of the ids, taken
\* under the flag, and on each id being sent once (service.go:52-62, 144-155;
\* README "idempotent update").  Late upserts are the exception.
NeverOverwrites ==
  [][\A id \in IDs :
       db[id] # Absent => db'[id] \in {db[id], Absent} \/ raced']_vars

\* Every change of the table is followed by an event, except the changes of a
\* request that is still under way, failed, lost its process or could not
\* publish, and of late statements (grpc/server.go:50-64, 79-90).
ChangesAnnounced ==
  \A r \in unannounced :
    \/ pc[r] \in Active
    \/ reply[r] \in {"Internal", "Unavailable"}
    \/ r \in pubFailed
    \/ raced

\* Every call is answered: the dispatcher blocked on a full channel, workers
\* that leave on a done context and wg.Wait never wait for one another for
\* ever, and so the flag always comes down again.
EveryCallAnswered ==
  \A r \in Requests : pc[r] \in Active ~> pc[r] = "done"

-----------------------------------------------------------------------------
(* The inductive invariant behind the safety properties.                   *)

InHand(u, id) == \E w \in Workers : wjob[u][w] = id
Queued(u, id) == \E i \in 1 .. Len(jobs[u]) : jobs[u][i] = id

\* A worker holds an id exactly while it works on one, and a row when it is
\* about to store it; an Update has workers only while its pool exists; the
\* dispatch loop starts at 1.
HandsOK ==
  /\ \A u \in Updates :
       /\ pc[u] = "dispatch" => cursor[u] # 0
       /\ pc[u] \notin Pooling => \A w \in Workers : wpc[u][w] = "off"
  /\ \A u \in Updates, w \in Workers :
       /\ wpc[u][w] \in {"fetch", "store"} <=> wjob[u][w] # 0
       /\ wpc[u][w] = "store" => wrow[u][w] \in Rows

\* A pool has all its workers, an Update without one has an empty channel, and
\* workers leave early only on a done context.
PoolOf(u) ==
  /\ pc[u] \in Pooling => \A w \in Workers : wpc[u][w] # "off"
  /\ pc[u] \notin Pooling => jobs[u] = << >>
  /\ \A w \in Workers :
       wpc[u][w] = "exit" /\ u \notin cancelled =>
         Closed(u) /\ jobs[u] = << >>
  /\ pc[u] = "abort" => u \in cancelled
  /\ pc[u] = "wait" => cursor[u] > latest[u]

\* Ids are sent once and in ascending order, and none that was there.
QueueOf(u) ==
  /\ \A i \in 1 .. Len(jobs[u]) :
       jobs[u][i] < cursor[u] /\ jobs[u][i] \notin exists[u]
  /\ \A i, j \in 1 .. Len(jobs[u]) : i < j => jobs[u][i] < jobs[u][j]
  /\ \A w \in Workers : wjob[u][w] # 0 =>
       /\ wjob[u][w] < cursor[u] /\ wjob[u][w] \notin exists[u]
       /\ ~Queued(u, wjob[u][w])
       /\ \A x \in Workers : wjob[u][x] = wjob[u][w] => x = w

\* As long as no late statement interferes, the snapshot of a pooling Update
\* is still true of what it has not stored itself.
SnapshotOf(u) ==
  ~raced /\ pc[u] \in Pooling =>
    /\ exists[u] \subseteq Present
    /\ \A id \in Present : id \in exists[u] \/ id < cursor[u]
    /\ \A id \in Present : ~Queued(u, id) /\ ~InHand(u, id)

\* Every id that the loop has passed is stored, queued, in hand or given up.
CoverageOf(u) ==
  ~raced /\ pc[u] \in Pooling =>
    \A id \in IDs : id <= latest[u] /\ id < cursor[u] =>
      id \in Present \cup skipped[u] \/ Queued(u, id) \/ InHand(u, id)

PoolOK == \A u \in Updates : PoolOf(u)
QueueOK == \A u \in Updates : QueueOf(u)
SnapshotOK == \A u \in Updates : SnapshotOf(u)
CoverageOK == \A u \in Updates : CoverageOf(u)

IndInv ==
  /\ TypeOK /\ HandsOK /\ SingleFlight /\ PoolOK /\ QueueOK
  /\ SnapshotOK /\ CoverageOK
=============================================================================
