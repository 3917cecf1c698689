------------------------ MODULE UpdateServiceProofs ------------------------
(***************************************************************************)
(* Safety of the update service for every number of calls, workers and     *)
(* comics.  IndInv of UpdateService is shown to be inductive, part by      *)
(* part, each part from the ones before it; the properties follow.  Then   *)
(* the service is shown to implement ComicsTable, and the search service   *)
(* to follow the table.                                                    *)
(***************************************************************************)
EXTENDS UpdateTable, UpdateAndSearch, TLAPS

\* The pool is never empty.
LEMMA PoolSize == NumWorkers \in Nat \ {0} /\ 1 \in Workers
  BY ConstantsAssumption DEF NumWorkers, Workers

-----------------------------------------------------------------------------
(* Types, and what workers hold.                                           *)

TypeInv == TypeOK /\ HandsOK

\* The service starts well typed, with idle workers.
LEMMA TypeInit == Init => TypeInv
<1> SUFFICES ASSUME Init PROVE TypeInv
  OBVIOUS
<1>1. LocalsTypeOK
  BY ConstantsAssumption DEF Init, LocalsTypeOK, WorkerPoints
<1>2. TypeOK
  BY <1>1 DEF Init, TypeOK, Requests, RequestPoints, Active, Busy, Codes
<1>3. HandsOK
  BY DEF Init, HandsOK, Pooling, Requests
<1> QED
  BY <1>2, <1>3 DEF TypeInv

\* Dropping the locals of an Update that leaves the core keeps them typed.
LEMMA ClearTypes ==
  ASSUME LocalsTypeOK, NEW u \in Updates, ClearLocals(u)
  PROVE  LocalsTypeOK'
  BY ConstantsAssumption DEF ClearLocals, LocalsTypeOK, WorkerPoints

\* ... and leaves no worker of it with an id in its hands.
LEMMA ClearHands ==
  ASSUME TypeInv, NEW u \in Updates, ClearLocals(u),
         \A v \in Updates : v # u => pc'[v] = pc[v],
         pc'[u] \notin Pooling
  PROVE  HandsOK'
<1>1. \A w \in Workers : wpc'[u][w] = "off" /\ wjob'[u][w] = 0
  BY DEF TypeInv, TypeOK, LocalsTypeOK, ClearLocals
<1>2. \A v \in Updates : v # u =>
         wpc'[v] = wpc[v] /\ wjob'[v] = wjob[v] /\ wrow'[v] = wrow[v]
                          /\ cursor'[v] = cursor[v]
  BY DEF TypeInv, TypeOK, LocalsTypeOK, ClearLocals
<1> QED
  BY <1>1, <1>2 DEF TypeInv, HandsOK, Pooling

\* Steps of the goroutine of an Update call keep the types.
LEMMA TypeUpdate ==
  ASSUME TypeInv, NEW u \in Updates,
         UpdateAccepted(u) \/ UpdateRejected(u) \/ UpdateStep(u)
  PROVE  TypeInv'
<1> USE DEF TypeInv
<1>1. CASE UpdateAccepted(u)
  BY <1>1 DEF UpdateAccepted, TypeOK, LocalsTypeOK, HandsOK, Pooling, Requests,
              RequestPoints, Active, Busy, locals, history
<1>2. CASE UpdateRejected(u)
  BY <1>2 DEF UpdateRejected, TypeOK, LocalsTypeOK, HandsOK, Pooling, Requests,
              RequestPoints, Answer, Codes, locals, history
<1>3. CASE UpdateLastID(u)
  <2>1. latest' \in [Updates -> 0 .. MaxID]
    BY <1>3, ConstantsAssumption DEF UpdateLastID, TypeOK, LocalsTypeOK, IDs
  <2>2. LocalsTypeOK'
    BY <1>3, <2>1 DEF UpdateLastID, TypeOK, LocalsTypeOK
  <2>3. TypeOK'
    BY <1>3, <2>2 DEF UpdateLastID, TypeOK, Requests, RequestPoints, Active,
                      Busy, history
  <2>4. HandsOK'
    BY <1>3 DEF UpdateLastID, TypeOK, HandsOK, Pooling, Requests
  <2> QED
    BY <2>3, <2>4
<1>4. CASE UpdateIDs(u)
  <2>1. exists' \in [Updates -> SUBSET IDs]
    <3>1. Present \in SUBSET IDs
      BY DEF Present
    <3> QED
      BY <1>4, <3>1 DEF UpdateIDs, TypeOK, LocalsTypeOK
  <2>2. cursor' \in [Updates -> 0 .. MaxID + 1]
    BY <1>4, ConstantsAssumption DEF UpdateIDs, TypeOK, LocalsTypeOK
  <2>3. wpc' \in [Updates -> [Workers -> WorkerPoints]]
    BY <1>4 DEF UpdateIDs, TypeOK, LocalsTypeOK, WorkerPoints
  <2>4. LocalsTypeOK'
    BY <1>4, <2>1, <2>2, <2>3 DEF UpdateIDs, TypeOK, LocalsTypeOK
  <2>5. TypeOK'
    BY <1>4, <2>4 DEF UpdateIDs, TypeOK, Requests, RequestPoints, Active,
                      Busy, history
  <2>6. \A w \in Workers : wjob[u][w] = 0
    BY <1>4 DEF UpdateIDs, HandsOK, Pooling
  <2>7. HandsOK'
    BY <1>4, <2>6 DEF UpdateIDs, TypeOK, LocalsTypeOK, HandsOK, Pooling,
                      Requests
  <2> QED
    BY <2>5, <2>7
<1>5. CASE UpdateFails(u)
  <2>1. LocalsTypeOK'
    BY <1>5, ClearTypes DEF UpdateFails, TypeOK
  <2>2. TypeOK'
    BY <1>5, <2>1 DEF UpdateFails, TypeOK, Requests, RequestPoints, Fail,
                       Answer, Codes, history
  <2>3. HandsOK'
    BY <1>5, ClearHands DEF UpdateFails, TypeOK, Requests, Fail, Answer,
                             Pooling
  <2> QED
    BY <2>2, <2>3
<1>6. CASE DispatchSkip(u)
  BY <1>6, ConstantsAssumption
  DEF DispatchSkip, TypeOK, LocalsTypeOK, HandsOK, Pooling, history
<1>7. CASE DispatchSend(u)
  <2>1. /\ cursor[u] \in IDs /\ cursor[u] + 1 \in 0 .. MaxID + 1
        /\ cursor[u] + 1 # 0
    BY <1>7, ConstantsAssumption
    DEF DispatchSend, TypeOK, LocalsTypeOK, HandsOK, IDs
  <2>2. /\ jobs' \in [Updates -> Seq(IDs)]
        /\ cursor' \in [Updates -> 0 .. MaxID + 1]
    BY <1>7, <2>1 DEF DispatchSend, TypeOK, LocalsTypeOK
  <2>3. TypeOK'
    BY <1>7, <2>2 DEF DispatchSend, TypeOK, LocalsTypeOK, history
  <2>4. HandsOK'
    BY <1>7, <2>1 DEF DispatchSend, TypeOK, LocalsTypeOK, HandsOK
  <2> QED
    BY <2>3, <2>4
<1>8. CASE DispatchAbort(u)
  BY <1>8 DEF DispatchAbort, TypeOK, LocalsTypeOK, HandsOK, Pooling, Requests,
              RequestPoints, Active, Busy, locals, history
<1>9. CASE DispatchDone(u)
  BY <1>9 DEF DispatchDone, TypeOK, LocalsTypeOK, HandsOK, Pooling, Requests,
              RequestPoints, Active, Busy, locals, history
<1>10. CASE UpdateReturn(u)
  <2>1. LocalsTypeOK'
    BY <1>10, ClearTypes DEF UpdateReturn, TypeOK
  <2>2. TypeOK'
    BY <1>10, <2>1 DEF UpdateReturn, TypeOK, Requests, RequestPoints, Active,
                      Fail, Succeed, Answer, Codes, history
  <2>3. HandsOK'
    BY <1>10, ClearHands DEF UpdateReturn, TypeOK, Requests, Fail, Succeed,
                            Answer, Pooling
  <2> QED
    BY <2>2, <2>3
<1> QED
  BY <1>1, <1>2, <1>3, <1>4, <1>5, <1>6, <1>7, <1>8, <1>9, <1>10
  DEF UpdateStep

\* A worker that goes back to the top of its loop keeps the types.
LEMMA NextJobTypes ==
  ASSUME TypeInv, NEW u \in Updates, NEW w \in Workers, NEW gaveUp \in BOOLEAN,
         wpc[u][w] \in {"fetch", "store"}, NextJob(u, w, gaveUp),
         UNCHANGED <<pc, latest, exists, cursor, jobs>>
  PROVE  LocalsTypeOK' /\ HandsOK'
<1>1. wpc' \in [Updates -> [Workers -> WorkerPoints]]
  BY DEF TypeInv, TypeOK, LocalsTypeOK, NextJob, WorkerPoints
<1>2. wjob' \in [Updates -> [Workers -> 0 .. MaxID]]
  BY ConstantsAssumption DEF TypeInv, TypeOK, LocalsTypeOK, NextJob
<1>3. wrow' \in [Updates -> [Workers -> Rows \cup {Absent}]]
  BY DEF TypeInv, TypeOK, LocalsTypeOK, NextJob
<1>4. skipped' \in [Updates -> SUBSET IDs]
  <2>1. wjob[u][w] \in IDs
    BY DEF TypeInv, TypeOK, LocalsTypeOK, HandsOK, IDs
  <2> QED
    BY <2>1 DEF TypeInv, TypeOK, LocalsTypeOK, NextJob
<1>5. LocalsTypeOK'
  BY <1>1, <1>2, <1>3, <1>4 DEF TypeInv, TypeOK, LocalsTypeOK
<1>6. HandsOK'
  BY DEF TypeInv, TypeOK, LocalsTypeOK, HandsOK, NextJob, Pooling
<1> QED
  BY <1>5, <1>6

\* Steps of a worker keep the types.
LEMMA TypeWorker ==
  ASSUME TypeInv, NEW u \in Updates, NEW w \in Workers, WorkerStep(u, w)
  PROVE  TypeInv'
<1> USE DEF TypeInv
<1>1. CASE WorkerReceive(u, w)
  <2>1. Head(jobs[u]) \in IDs /\ Tail(jobs[u]) \in Seq(IDs)
    BY <1>1 DEF WorkerReceive, TypeOK, LocalsTypeOK
  <2>2. wjob' \in [Updates -> [Workers -> 0 .. MaxID]]
    BY <1>1, <2>1, ConstantsAssumption
    DEF WorkerReceive, TypeOK, LocalsTypeOK, IDs
  <2>3. jobs' \in [Updates -> Seq(IDs)]
    BY <1>1, <2>1 DEF WorkerReceive, TypeOK, LocalsTypeOK
  <2>4. LocalsTypeOK'
    BY <1>1, <2>2, <2>3
    DEF WorkerReceive, TypeOK, LocalsTypeOK, WorkerPoints
  <2>5. HandsOK'
    <3>1. Head(jobs[u]) # 0
      BY <2>1, ConstantsAssumption DEF IDs
    <3> QED
      BY <1>1, <3>1 DEF WorkerReceive, TypeOK, LocalsTypeOK, HandsOK, Pooling
  <2> QED
    BY <1>1, <2>4, <2>5 DEF WorkerReceive, TypeOK, history
<1>2. CASE WorkerExit(u, w)
  BY <1>2 DEF WorkerExit, TypeOK, LocalsTypeOK, HandsOK, WorkerPoints,
              Pooling, history
<1>3. CASE WorkerFetch(u, w)
  <2>1. LocalsTypeOK'
    <3>1. wrow' \in [Updates -> [Workers -> Rows \cup {Absent}]]
      BY <1>3 DEF WorkerFetch, TypeOK, LocalsTypeOK
    <3>2. wpc' \in [Updates -> [Workers -> WorkerPoints]]
      BY <1>3 DEF WorkerFetch, TypeOK, LocalsTypeOK, WorkerPoints
    <3> QED
      BY <1>3, <3>1, <3>2 DEF WorkerFetch, TypeOK, LocalsTypeOK
  <2>2. HandsOK'
    BY <1>3 DEF WorkerFetch, TypeOK, LocalsTypeOK, HandsOK, Pooling
  <2> QED
    BY <1>3, <2>1, <2>2 DEF WorkerFetch, TypeOK, history
<1>4. CASE WorkerGivesUp(u, w)
  BY <1>4, NextJobTypes DEF WorkerGivesUp, TypeOK, history
<1>5. CASE WorkerStore(u, w)
  <2>1. LocalsTypeOK' /\ HandsOK'
    BY <1>5, NextJobTypes DEF WorkerStore
  <2>2. wrow[u][w] \in Rows \cup {Absent}
    BY DEF TypeOK, LocalsTypeOK
  <2>3. db' \in [IDs -> Rows \cup {Absent}]
    BY <1>5, <2>2 DEF WorkerStore, TypeOK
  <2> QED
    BY <1>5, <2>1, <2>3 DEF WorkerStore, TypeOK, Requests
<1>6. CASE WorkerAbandons(u, w)
  <2>1. LocalsTypeOK' /\ HandsOK'
    BY <1>6, NextJobTypes DEF WorkerAbandons
  <2>2. wjob[u][w] \in IDs /\ wrow[u][w] \in Rows
    BY <1>6 DEF WorkerAbandons, TypeOK, LocalsTypeOK, HandsOK, IDs
  <2>3. lateAdds' \subseteq Updates \X IDs \X Rows
    BY <1>6, <2>2 DEF WorkerAbandons, TypeOK
  <2> QED
    BY <1>6, <2>1, <2>3 DEF WorkerAbandons, TypeOK, history
<1> QED
  BY <1>1, <1>2, <1>3, <1>4, <1>5, <1>6 DEF WorkerStep

\* Steps of a Drop, the notifier and the environment keep the types.
LEMMA TypeDrop ==
  ASSUME TypeInv, NEW d \in Drops,
         DropAccepted(d) \/ DropRejected(d) \/ DropStep(d)
  PROVE  TypeInv'
<1> USE DEF TypeInv
<1>1. UNCHANGED locals
  BY DEF DropAccepted, DropRejected, DropStep, DropTruncate, DropFails,
         DropAbandons
<1>2. LocalsTypeOK'
  BY <1>1 DEF TypeOK, LocalsTypeOK, locals
<1>3. HandsOK'
  <2>1. \A u \in Updates : pc'[u] = pc[u]
    BY ConstantsAssumption
    DEF DropAccepted, DropRejected, DropStep, DropTruncate, DropFails,
        DropAbandons, Fail, Succeed, Answer, TypeOK, Requests
  <2> QED
    BY <1>1, <2>1 DEF HandsOK, locals
<1>4. pc' \in [Requests -> RequestPoints] /\ reply' \in [Requests -> Codes]
  BY DEF DropAccepted, DropRejected, DropStep, DropTruncate, DropFails,
         DropAbandons, Fail, Succeed, Answer, TypeOK, Requests, RequestPoints,
         Active, Busy, Codes
<1>5. db' \in [IDs -> Rows \cup {Absent}]
  BY DEF DropAccepted, DropRejected, DropStep, DropTruncate, DropFails,
         DropAbandons, TypeOK
<1>6. TypeOK'
  BY <1>2, <1>4, <1>5
  DEF DropAccepted, DropRejected, DropStep, DropTruncate, DropFails,
      DropAbandons, Fail, Succeed, TypeOK, Requests, history
<1> QED
  BY <1>3, <1>6

\* Steps of the notifier, the callers, xkcd.com and Postgres keep the types.
LEMMA TypeEnvironment ==
  ASSUME TypeInv,
         \/ \E r \in Requests : Notify(r) \/ Cancel(r)
         \/ \E s \in lateAdds : SettleAdd(s)
         \/ \E d \in Drops : SettleDrop(d)
         \/ XkcdPublish \/ Terminated
  PROVE  TypeInv'
<1> USE DEF TypeInv
<1>1. ASSUME NEW r \in Requests, Notify(r) PROVE TypeInv'
  BY <1>1 DEF Notify, TypeOK, LocalsTypeOK, HandsOK, Pooling, Answer, Codes,
              RequestPoints, locals
<1>2. ASSUME NEW r \in Requests, Cancel(r) PROVE TypeInv'
  BY <1>2 DEF Cancel, TypeOK, LocalsTypeOK, HandsOK, locals, history
<1>3. ASSUME NEW s \in lateAdds, SettleAdd(s) PROVE TypeInv'
  <2>1. s[1] \in Updates /\ s[2] \in IDs /\ s[3] \in Rows
    BY <1>3 DEF TypeOK
  <2>2. db' \in [IDs -> Rows \cup {Absent}]
    BY <1>3, <2>1 DEF SettleAdd, TypeOK
  <2>3. LocalsTypeOK' /\ HandsOK'
    BY <1>3 DEF SettleAdd, TypeOK, LocalsTypeOK, HandsOK, locals
  <2> QED
    BY <1>3, <2>1, <2>2, <2>3 DEF SettleAdd, TypeOK, Requests
<1>4. ASSUME NEW d \in Drops, SettleDrop(d) PROVE TypeInv'
  <2>1. db' \in [IDs -> Rows \cup {Absent}]
    BY <1>4 DEF SettleDrop, TypeOK
  <2>2. LocalsTypeOK' /\ HandsOK'
    BY <1>4 DEF SettleDrop, TypeOK, LocalsTypeOK, HandsOK, locals
  <2> QED
    BY <1>4, <2>1, <2>2 DEF SettleDrop, TypeOK, Requests
<1>5. CASE XkcdPublish
  BY <1>5, ConstantsAssumption
  DEF XkcdPublish, TypeOK, LocalsTypeOK, HandsOK, IDs, locals, history
<1>6. CASE Terminated
  BY <1>6 DEF Terminated, TypeOK, LocalsTypeOK, HandsOK, vars, locals, history
<1> QED
  BY <1>1, <1>2, <1>3, <1>4, <1>5, <1>6

\* A crash keeps the types, those of the statements on the wire included.
LEMMA TypeCrash == TypeInv /\ Crash => TypeInv'
<1> SUFFICES ASSUME TypeInv, Crash PROVE TypeInv'
  OBVIOUS
<1> USE DEF TypeInv
<1>1. LocalsTypeOK'
  BY ConstantsAssumption DEF Crash, LocalsTypeOK, WorkerPoints
<1>2. HandsOK'
  <2>1. \A u \in Updates : pc'[u] \notin Pooling
    BY DEF Crash, Requests, Active, Busy, Pooling
  <2>2. \A u \in Updates, w \in Workers :
           wpc'[u][w] = "off" /\ wjob'[u][w] = 0
    BY DEF Crash
  <2> QED
    BY <2>1, <2>2 DEF HandsOK, Pooling
<1>3. pc' \in [Requests -> RequestPoints] /\ reply' \in [Requests -> Codes]
  BY DEF Crash, TypeOK, RequestPoints, Codes
<1>4. lateAdds' \subseteq Updates \X IDs \X Rows
  <2>1. \A u \in Updates, w \in Workers : wpc[u][w] = "store" =>
           wjob[u][w] \in IDs /\ wrow[u][w] \in Rows
    BY DEF TypeOK, LocalsTypeOK, HandsOK, IDs
  <2> QED
    BY <2>1 DEF Crash, TypeOK
<1> QED
  BY <1>1, <1>2, <1>3, <1>4 DEF Crash, TypeOK, history

\* Every step keeps the types.
LEMMA TypeNext == TypeInv /\ [Next]_vars => TypeInv'
<1> SUFFICES ASSUME TypeInv, [Next]_vars PROVE TypeInv'
  OBVIOUS
<1>1. CASE UNCHANGED vars
  BY <1>1 DEF TypeInv, TypeOK, LocalsTypeOK, HandsOK, vars, locals, history
<1> QED
  BY <1>1, TypeUpdate, TypeWorker, TypeDrop, TypeEnvironment, TypeCrash
  DEF Next

\* Every variable of the update service keeps its type, for any number of
\* calls, workers and comics.
THEOREM TypeCorrect == Spec => []TypeOK
<1>1. Spec => []TypeInv
  BY TypeInit, TypeNext, PTL DEF Spec
<1> QED
  BY <1>1, PTL DEF TypeInv

-----------------------------------------------------------------------------
(* One request at a time in the core.                                      *)

\* A step that moves nobody in or out leaves the flag right.
LEMMA FlightStays ==
  ASSUME SingleFlight, running' = running,
         \A r \in Requests : pc'[r] \in Busy <=> pc[r] \in Busy
  PROVE  SingleFlight'
  BY DEF SingleFlight, Busy

\* A compare-and-swap that succeeds finds the core empty.
LEMMA FlightEnters ==
  ASSUME SingleFlight, ~running, running' = TRUE, NEW r \in Requests,
         pc'[r] \in Busy, \A s \in Requests : s # r => pc'[s] = pc[s]
  PROVE  SingleFlight'
  BY DEF SingleFlight, Busy

\* The request that returns is the only one there was.
LEMMA FlightLeaves ==
  ASSUME SingleFlight, running' = FALSE, NEW r \in Requests,
         pc[r] \in Busy, pc'[r] \notin Busy,
         \A s \in Requests : s # r => pc'[s] = pc[s]
  PROVE  SingleFlight'
  BY DEF SingleFlight, Busy

\* Every step keeps the flag right.
LEMMA FlightNext == TypeInv /\ SingleFlight /\ [Next]_vars => SingleFlight'
<1> SUFFICES ASSUME TypeInv, SingleFlight, [Next]_vars PROVE SingleFlight'
  OBVIOUS
<1>t. pc \in [Requests -> RequestPoints]
  BY DEF TypeInv, TypeOK
<1>1. ASSUME NEW u \in Updates, UpdateAccepted(u) PROVE SingleFlight'
  BY <1>1, <1>t, FlightEnters DEF UpdateAccepted, Requests, Busy
<1>2. ASSUME NEW d \in Drops, DropAccepted(d) PROVE SingleFlight'
  BY <1>2, <1>t, FlightEnters DEF DropAccepted, Requests, Busy
<1>3. ASSUME NEW r \in Requests, UpdateRejected(r) \/ DropRejected(r)
      PROVE SingleFlight'
  BY <1>3, <1>t, FlightStays DEF UpdateRejected, DropRejected, Answer, Busy
<1>4. ASSUME NEW u \in Updates, UpdateStep(u) PROVE SingleFlight'
  <2>0. u \in Requests
    BY DEF Requests
  <2>1. CASE UpdateLastID(u) \/ UpdateIDs(u)
    BY <2>0, <2>1, <1>t, FlightStays DEF UpdateLastID, UpdateIDs, Busy
  <2>2. CASE UpdateFails(u)
    BY <2>0, <2>2, <1>t, FlightLeaves DEF UpdateFails, Fail, Answer, Busy
  <2>3. CASE DispatchSkip(u) \/ DispatchSend(u)
    BY <2>3, FlightStays DEF DispatchSkip, DispatchSend
  <2>4. CASE DispatchAbort(u) \/ DispatchDone(u)
    BY <2>0, <2>4, <1>t, FlightStays DEF DispatchAbort, DispatchDone, Busy
  <2>5. CASE UpdateReturn(u)
    <3>1. running' = FALSE /\ pc[u] \in Busy /\ pc'[u] \notin Busy
          /\ \A s \in Requests : s # u => pc'[s] = pc[s]
      BY <2>0, <2>5, <1>t
      DEF UpdateReturn, Closed, Fail, Succeed, Answer, Busy
    <3> QED
      BY <2>0, <3>1, FlightLeaves
  <2> QED
    BY <1>4, <2>1, <2>2, <2>3, <2>4, <2>5 DEF UpdateStep
<1>5. ASSUME NEW u \in Updates, NEW w \in Workers, WorkerStep(u, w)
      PROVE SingleFlight'
  BY <1>5, FlightStays
  DEF WorkerStep, WorkerReceive, WorkerExit, WorkerFetch, WorkerGivesUp,
      WorkerStore, WorkerAbandons
<1>6. ASSUME NEW d \in Drops, DropStep(d) PROVE SingleFlight'
  <2>1. running' = FALSE /\ pc[d] \in Busy /\ pc'[d] \notin Busy
        /\ \A s \in Requests : s # d => pc'[s] = pc[s]
    BY <1>6, <1>t
    DEF DropStep, DropTruncate, DropFails, DropAbandons, Fail, Succeed, Answer,
        Busy, Requests
  <2> QED
    BY <2>1, FlightLeaves DEF Requests
<1>7. ASSUME NEW r \in Requests, Notify(r) \/ Cancel(r) PROVE SingleFlight'
  BY <1>7, <1>t, FlightStays DEF Notify, Cancel, Answer, Busy
<1>8. ASSUME NEW s \in lateAdds, SettleAdd(s) PROVE SingleFlight'
  BY <1>8, FlightStays DEF SettleAdd
<1>9. ASSUME NEW d \in Drops, SettleDrop(d) PROVE SingleFlight'
  BY <1>9, FlightStays DEF SettleDrop
<1>10. CASE XkcdPublish \/ Terminated \/ UNCHANGED vars
  BY <1>10, FlightStays DEF XkcdPublish, Terminated, vars
<1>11. CASE Crash
  BY <1>11 DEF Crash, SingleFlight, Active, Busy
<1> QED
  BY <1>1, <1>2, <1>3, <1>4, <1>5, <1>6, <1>7, <1>8, <1>9, <1>10, <1>11
  DEF Next, Requests

\* At most one Update or Drop is in the core, and "running" is up exactly
\* while there is one, for any number of concurrent calls.
THEOREM MutualExclusion == Spec => []SingleFlight
<1>1. Init => SingleFlight
  BY DEF Init, SingleFlight, Busy
<1>2. TypeInv /\ SingleFlight /\ [Next]_vars => (TypeInv /\ SingleFlight)'
  BY TypeNext, FlightNext
<1> QED
  BY <1>1, <1>2, TypeInit, PTL DEF Spec

\* While "running" is down, no worker of any Update is alive: Status never
\* says idle while rows are still being written.
THEOREM IdleMeansQuiet == Spec => []QuietWhenIdle
<1>1. TypeInv /\ SingleFlight => QuietWhenIdle
  BY DEF TypeInv, HandsOK, SingleFlight, QuietWhenIdle, Live, Busy, Pooling,
         Requests
<1>2. Spec => []TypeInv
  BY TypeInit, TypeNext, PTL DEF Spec
<1> QED
  BY <1>1, <1>2, MutualExclusion, PTL

-----------------------------------------------------------------------------
(* What a step can do to the pool of an Update v.                          *)

\* Nothing of Update v is touched.
Kept(v) ==
  /\ pc'[v] = pc[v] /\ latest'[v] = latest[v] /\ exists'[v] = exists[v]
  /\ cursor'[v] = cursor[v] /\ jobs'[v] = jobs[v] /\ wpc'[v] = wpc[v]
  /\ wjob'[v] = wjob[v] /\ wrow'[v] = wrow[v] /\ skipped'[v] = skipped[v]

\* Update v has no pool after the step.
NoPool(v) == pc'[v] \notin Pooling /\ jobs'[v] = << >>

\* Steps of the pool of Update v.
PoolStep(v) ==
  \/ UpdateIDs(v) \/ DispatchSkip(v) \/ DispatchSend(v)
  \/ DispatchAbort(v) \/ DispatchDone(v)
  \/ \E w \in Workers : WorkerStep(v, w)

\* A step of one Update call leaves the others alone.
LEMMA KeptByUpdate ==
  ASSUME TypeInv, NEW u \in Updates, NEW v \in Updates, v # u,
         UpdateAccepted(u) \/ UpdateRejected(u) \/ UpdateStep(u)
  PROVE  Kept(v)
<1> USE DEF Kept, TypeInv, TypeOK, LocalsTypeOK, Requests, locals
<1>1. CASE UpdateAccepted(u)
  BY <1>1 DEF UpdateAccepted
<1>2. CASE UpdateRejected(u)
  BY <1>2 DEF UpdateRejected, Answer
<1>3. CASE UpdateLastID(u)
  BY <1>3 DEF UpdateLastID
<1>4. CASE UpdateIDs(u)
  BY <1>4 DEF UpdateIDs
<1>5. CASE UpdateFails(u)
  BY <1>5 DEF UpdateFails, Fail, Answer, ClearLocals
<1>6. CASE DispatchSkip(u)
  BY <1>6 DEF DispatchSkip
<1>7. CASE DispatchSend(u)
  BY <1>7 DEF DispatchSend
<1>8. CASE DispatchAbort(u)
  BY <1>8 DEF DispatchAbort
<1>9. CASE DispatchDone(u)
  BY <1>9 DEF DispatchDone
<1>10. CASE UpdateReturn(u)
  <2>1. pc'[v] = pc[v]
    BY <1>10 DEF UpdateReturn, Fail, Succeed, Answer
  <2> QED
    BY <1>10, <2>1 DEF UpdateReturn, ClearLocals
<1> QED
  BY <1>1, <1>2, <1>3, <1>4, <1>5, <1>6, <1>7, <1>8, <1>9, <1>10
  DEF UpdateStep

\* ... and so does a step of a worker.
LEMMA KeptByWorker ==
  ASSUME TypeInv, NEW u \in Updates, NEW v \in Updates, v # u,
         NEW w \in Workers, WorkerStep(u, w)
  PROVE  Kept(v)
<1> USE DEF Kept, TypeInv, TypeOK, LocalsTypeOK
<1>1. CASE WorkerReceive(u, w)
  BY <1>1 DEF WorkerReceive
<1>2. CASE WorkerExit(u, w)
  BY <1>2 DEF WorkerExit
<1>3. CASE WorkerFetch(u, w)
  BY <1>3 DEF WorkerFetch
<1>4. CASE WorkerGivesUp(u, w)
  BY <1>4 DEF WorkerGivesUp, NextJob
<1>5. CASE WorkerStore(u, w)
  BY <1>5 DEF WorkerStore, NextJob
<1>6. CASE WorkerAbandons(u, w)
  BY <1>6 DEF WorkerAbandons, NextJob
<1> QED
  BY <1>1, <1>2, <1>3, <1>4, <1>5, <1>6 DEF WorkerStep

\* Every step keeps Update v, leaves it without a pool or is one of its pool.
LEMMA StepKinds ==
  ASSUME TypeInv, PoolOK, [Next]_vars, NEW v \in Updates
  PROVE  Kept(v) \/ NoPool(v) \/ PoolStep(v)
<1>t. /\ pc \in [Requests -> RequestPoints]
      /\ jobs \in [Updates -> Seq(IDs)]
  BY DEF TypeInv, TypeOK, LocalsTypeOK
<1>p. pc[v] \notin Pooling => jobs[v] = << >>
  BY DEF PoolOK, PoolOf
<1>1. ASSUME NEW u \in Updates,
             UpdateAccepted(u) \/ UpdateRejected(u) \/ UpdateStep(u)
      PROVE  Kept(v) \/ NoPool(v) \/ PoolStep(v)
  <2>1. CASE v # u
    BY <1>1, <2>1, KeptByUpdate
  <2>2. CASE v = u /\ (UpdateAccepted(v) \/ UpdateRejected(v))
    BY <1>t, <1>p, <2>2
    DEF UpdateAccepted, UpdateRejected, Answer, NoPool, Pooling, Requests,
        locals
  <2>3. CASE v = u /\ UpdateLastID(v)
    BY <1>t, <1>p, <2>3 DEF UpdateLastID, NoPool, Pooling, Requests
  <2>4. CASE v = u /\ UpdateFails(v)
    BY <1>t, <2>4
    DEF UpdateFails, Fail, Answer, ClearLocals, NoPool, Pooling, Requests
  <2>5. CASE v = u /\ UpdateReturn(v)
    <3>1. pc'[v] \notin Pooling
      BY <1>t, <2>5
      DEF UpdateReturn, Fail, Succeed, Answer, Pooling, Requests
    <3> QED
      BY <1>t, <2>5, <3>1 DEF UpdateReturn, ClearLocals, NoPool
  <2> QED
    BY <1>1, <2>1, <2>2, <2>3, <2>4, <2>5 DEF UpdateStep, PoolStep
<1>2. ASSUME NEW u \in Updates, NEW w \in Workers, WorkerStep(u, w)
      PROVE  Kept(v) \/ PoolStep(v)
  BY <1>2, KeptByWorker DEF PoolStep
<1>3. ASSUME NEW d \in Drops, DropAccepted(d) \/ DropRejected(d) \/ DropStep(d)
      PROVE  Kept(v)
  <2>1. UNCHANGED locals
    BY <1>3 DEF DropAccepted, DropRejected, DropStep, DropTruncate, DropFails,
                DropAbandons
  <2>2. pc'[v] = pc[v]
    BY <1>3, <1>t, ConstantsAssumption
    DEF DropAccepted, DropRejected, DropStep, DropTruncate, DropFails,
        DropAbandons, Fail, Succeed, Answer, Requests
  <2> QED
    BY <2>1, <2>2 DEF Kept, locals
<1>4. ASSUME NEW r \in Requests, Notify(r) PROVE Kept(v) \/ NoPool(v)
  BY <1>4, <1>t, <1>p
  DEF Notify, Answer, Kept, NoPool, Pooling, Requests, locals
<1>5. ASSUME \/ \E r \in Requests : Cancel(r)
             \/ \E s \in lateAdds : SettleAdd(s)
             \/ \E d \in Drops : SettleDrop(d)
             \/ XkcdPublish \/ Terminated \/ UNCHANGED vars
      PROVE  Kept(v)
  BY <1>5
  DEF Cancel, SettleAdd, SettleDrop, XkcdPublish, Terminated, vars, locals, Kept
<1>6. CASE Crash
  BY <1>6 DEF Crash, NoPool, Pooling, Active, Busy, Requests
<1> QED
  BY <1>1, <1>2, <1>3, <1>4, <1>5, <1>6 DEF Next

\* A context stays done, and a race is not undone.
LEMMA Monotone ==
  ASSUME TypeInv, [Next]_vars
  PROVE  cancelled \subseteq cancelled' /\ (raced => raced')
<1>1. ASSUME NEW u \in Updates,
             UpdateAccepted(u) \/ UpdateRejected(u) \/ UpdateStep(u)
      PROVE  UNCHANGED <<cancelled, raced>>
  BY <1>1
  DEF UpdateAccepted, UpdateRejected, UpdateStep, UpdateLastID, UpdateIDs,
      UpdateFails, DispatchSkip, DispatchSend, DispatchAbort, DispatchDone,
      UpdateReturn, history
<1>2. ASSUME NEW u \in Updates, NEW w \in Workers, WorkerStep(u, w)
      PROVE  UNCHANGED <<cancelled, raced>>
  BY <1>2
  DEF WorkerStep, WorkerReceive, WorkerExit, WorkerFetch, WorkerGivesUp,
      WorkerStore, WorkerAbandons, history
<1>3. ASSUME NEW d \in Drops, DropAccepted(d) \/ DropRejected(d) \/ DropStep(d)
      PROVE  UNCHANGED <<cancelled, raced>>
  BY <1>3
  DEF DropAccepted, DropRejected, DropStep, DropTruncate, DropFails,
      DropAbandons, history
<1>4. ASSUME NEW r \in Requests, Notify(r) \/ Cancel(r)
      PROVE  cancelled \subseteq cancelled' /\ raced' = raced
  BY <1>4 DEF Notify, Cancel, history
<1>5. ASSUME \/ \E s \in lateAdds : SettleAdd(s)
             \/ \E d \in Drops : SettleDrop(d)
      PROVE  cancelled' = cancelled /\ (raced => raced')
  BY <1>5 DEF SettleAdd, SettleDrop
<1>6. CASE XkcdPublish \/ Crash \/ Terminated \/ UNCHANGED vars
  BY <1>6 DEF XkcdPublish, Crash, Terminated, vars, history
<1> QED
  BY <1>1, <1>2, <1>3, <1>4, <1>5, <1>6 DEF Next

-----------------------------------------------------------------------------
(* The pool and its channel.                                               *)

\* An Update without a pool has nothing queued and nothing in hand.
LEMMA NoPoolOK ==
  ASSUME TypeInv', NEW v \in Updates, NoPool(v)
  PROVE  PoolOf(v)' /\ QueueOf(v)'
<1>1. \A w \in Workers : wpc'[v][w] = "off" /\ wjob'[v][w] = 0
  BY DEF TypeInv, HandsOK, NoPool
<1>2. PoolOf(v)'
  BY <1>1 DEF PoolOf, NoPool, Pooling, Closed
<1>3. QueueOf(v)'
  BY <1>1 DEF QueueOf, NoPool
<1> QED
  BY <1>2, <1>3

\* A step outside the pool of v disturbs neither its pool nor its channel.
LEMMA KeptOK ==
  ASSUME NEW v \in Updates, Kept(v), cancelled \subseteq cancelled',
         PoolOf(v), QueueOf(v)
  PROVE  PoolOf(v)' /\ QueueOf(v)'
<1>1. PoolOf(v)'
  BY DEF PoolOf, Kept, Pooling, Closed
<1>2. QueueOf(v)'
  BY DEF QueueOf, Queued, Kept
<1> QED
  BY <1>1, <1>2

\* Steps of the dispatch loop keep the pool and the channel in order.
LEMMA DispatchOK ==
  ASSUME TypeInv, NEW v \in Updates, PoolOf(v), QueueOf(v),
         \/ UpdateIDs(v) \/ DispatchSkip(v) \/ DispatchSend(v)
         \/ DispatchAbort(v) \/ DispatchDone(v)
  PROVE  PoolOf(v)' /\ QueueOf(v)'
<1>t. /\ pc \in [Requests -> RequestPoints] /\ v \in Requests
      /\ latest \in [Updates -> 0 .. MaxID]
      /\ exists \in [Updates -> SUBSET IDs]
      /\ cursor \in [Updates -> 0 .. MaxID + 1]
      /\ jobs \in [Updates -> Seq(IDs)]
      /\ wpc \in [Updates -> [Workers -> WorkerPoints]]
      /\ wjob \in [Updates -> [Workers -> 0 .. MaxID]]
  BY DEF TypeInv, TypeOK, LocalsTypeOK, Requests
<1>m. MaxID \in Nat
  BY ConstantsAssumption
<1>1. CASE UpdateIDs(v)
  <2>1. /\ jobs'[v] = << >> /\ pc'[v] = "dispatch"
        /\ \A w \in Workers : wpc'[v][w] = "select" /\ wjob'[v][w] = 0
    BY <1>1, <1>t DEF UpdateIDs, TypeInv, HandsOK, PoolOf, Pooling
  <2>2. PoolOf(v)'
    BY <2>1 DEF PoolOf, Pooling
  <2>3. QueueOf(v)'
    BY <2>1 DEF QueueOf
  <2> QED
    BY <2>2, <2>3
<1>2. CASE DispatchSkip(v)
  <2>1. cursor'[v] = cursor[v] + 1
    BY <1>2, <1>t DEF DispatchSkip
  <2>2. PoolOf(v)'
    BY <1>2 DEF DispatchSkip, PoolOf, Pooling, Closed
  <2>3. QueueOf(v)'
    BY <1>2, <1>t, <1>m, <2>1 DEF DispatchSkip, QueueOf, Queued, IDs
  <2> QED
    BY <2>2, <2>3
<1>3. CASE DispatchSend(v)
  <2> DEFINE q == jobs[v]
  <2>1. /\ cursor'[v] = cursor[v] + 1
        /\ jobs'[v] = Append(q, cursor[v])
        /\ exists'[v] = exists[v] /\ wjob' = wjob /\ wpc' = wpc /\ pc' = pc
        /\ cancelled' = cancelled /\ cursor[v] \notin exists[v]
    BY <1>3, <1>t DEF DispatchSend
  <2>2. /\ Len(jobs'[v]) = Len(q) + 1 /\ Len(q) \in Nat
        /\ jobs'[v][Len(q) + 1] = cursor[v]
        /\ \A i \in 1 .. Len(q) : jobs'[v][i] = q[i] /\ q[i] \in IDs
    BY <1>3, <1>t, <1>m, <2>1 DEF DispatchSend, IDs
  <2>3. cursor[v] \in Nat /\ \A i \in IDs : i \in Nat
    BY <1>t, <1>m DEF IDs
  <2>4. PoolOf(v)'
    BY <1>3, <2>1 DEF DispatchSend, PoolOf, Pooling, Closed
  <2>5. \A i \in 1 .. Len(jobs'[v]) :
           jobs'[v][i] < cursor'[v] /\ jobs'[v][i] \notin exists'[v]
    <3> SUFFICES ASSUME NEW i \in 1 .. Len(q) + 1
                 PROVE  jobs'[v][i] < cursor'[v] /\ jobs'[v][i] \notin exists'[v]
      BY <2>2
    <3>1. CASE i = Len(q) + 1
      BY <3>1, <2>1, <2>2, <2>3
    <3>2. CASE i \in 1 .. Len(q)
      BY <3>2, <2>1, <2>2, <2>3 DEF QueueOf
    <3> QED
      BY <3>1, <3>2, <2>2
  <2>6. \A i, j \in 1 .. Len(jobs'[v]) : i < j => jobs'[v][i] < jobs'[v][j]
    <3> SUFFICES ASSUME NEW i \in 1 .. Len(q) + 1, NEW j \in 1 .. Len(q) + 1,
                        i < j
                 PROVE  jobs'[v][i] < jobs'[v][j]
      BY <2>2
    <3>1. i \in 1 .. Len(q)
      BY <2>2
    <3>2. CASE j = Len(q) + 1
      BY <3>1, <3>2, <2>2 DEF QueueOf
    <3>3. CASE j \in 1 .. Len(q)
      BY <3>1, <3>3, <2>2 DEF QueueOf
    <3> QED
      BY <3>2, <3>3, <2>2
  <2>7. ASSUME NEW w \in Workers, wjob'[v][w] # 0
        PROVE  /\ wjob'[v][w] < cursor'[v] /\ wjob'[v][w] \notin exists'[v]
               /\ ~Queued(v, wjob[v][w])'
               /\ \A x \in Workers : wjob'[v][x] = wjob'[v][w] => x = w
    <3>1. wjob[v][w] < cursor[v] /\ wjob[v][w] \in Nat
      BY <2>1, <2>7, <1>t, <1>m DEF QueueOf
    <3>2. ~Queued(v, wjob[v][w])'
      <4>1. \A i \in 1 .. Len(q) : jobs'[v][i] # wjob[v][w]
        BY <2>1, <2>2, <2>7 DEF QueueOf, Queued
      <4>2. jobs'[v][Len(q) + 1] # wjob[v][w]
        BY <2>2, <2>3, <3>1
      <4>3. \A i \in 1 .. Len(jobs'[v]) : i \in 1 .. Len(q) \/ i = Len(q) + 1
        BY <2>2
      <4> QED
        BY <2>1, <4>1, <4>2, <4>3 DEF Queued
    <3> QED
      BY <2>1, <2>3, <2>7, <3>1, <3>2 DEF QueueOf
  <2> QED
    BY <2>4, <2>5, <2>6, <2>7 DEF QueueOf
<1>4. CASE DispatchAbort(v)
  <2>1. PoolOf(v)'
    BY <1>4, <1>t DEF DispatchAbort, PoolOf, Pooling, Closed, locals
  <2>2. QueueOf(v)'
    BY <1>4 DEF DispatchAbort, QueueOf, Queued, locals
  <2> QED
    BY <2>1, <2>2
<1>5. CASE DispatchDone(v)
  <2>1. PoolOf(v)'
    BY <1>5, <1>t DEF DispatchDone, PoolOf, Pooling, Closed, locals
  <2>2. QueueOf(v)'
    BY <1>5 DEF DispatchDone, QueueOf, Queued, locals
  <2> QED
    BY <2>1, <2>2
<1> QED
  BY <1>1, <1>2, <1>3, <1>4, <1>5

\* A worker takes the oldest id: nobody else has it, and it is queued once.
LEMMA ReceiveOK ==
  ASSUME TypeInv, NEW v \in Updates, NEW w \in Workers, PoolOf(v), QueueOf(v),
         WorkerReceive(v, w)
  PROVE  PoolOf(v)' /\ QueueOf(v)'
<1> DEFINE q == jobs[v]
<1>m. MaxID \in Nat
  BY ConstantsAssumption
<1>1. /\ q \in Seq(IDs) /\ q # << >> /\ Len(q) \in Nat /\ Len(q) > 0
      /\ \A i \in 1 .. Len(q) : q[i] \in IDs
      /\ \A i \in IDs : i \in Nat /\ i # 0
      /\ cursor[v] \in Nat
  BY <1>m DEF TypeInv, TypeOK, LocalsTypeOK, WorkerReceive, IDs
<1>2. /\ jobs'[v] = Tail(q) /\ wjob'[v][w] = q[1] /\ wpc'[v][w] = "fetch"
      /\ \A x \in Workers : x # w =>
           wjob'[v][x] = wjob[v][x] /\ wpc'[v][x] = wpc[v][x]
      /\ pc' = pc /\ cursor' = cursor /\ latest' = latest /\ exists' = exists
      /\ cancelled' = cancelled
  BY <1>1 DEF TypeInv, TypeOK, LocalsTypeOK, WorkerReceive
<1>3. /\ Len(Tail(q)) = Len(q) - 1
      /\ \A i \in 1 .. Len(Tail(q)) : Tail(q)[i] = q[i + 1]
      /\ \A i \in 1 .. Len(Tail(q)) : i + 1 \in 1 .. Len(q)
      /\ 1 \in 1 .. Len(q)
  BY <1>1
<1>4. PoolOf(v)'
  <2>1. pc[v] \in Pooling
    BY <1>1 DEF PoolOf
  <2>2. \A x \in Workers : wpc'[v][x] # "off"
    BY <1>2, <2>1 DEF PoolOf
  <2>3. \A x \in Workers : wpc[v][x] = "exit" => v \in cancelled
    BY <1>1 DEF PoolOf
  <2> QED
    BY <1>2, <2>1, <2>2, <2>3 DEF PoolOf, Pooling
<1>5. \A i \in 1 .. Len(jobs'[v]) :
         jobs'[v][i] < cursor'[v] /\ jobs'[v][i] \notin exists'[v]
  BY <1>1, <1>2, <1>3 DEF QueueOf
<1>6. \A i, j \in 1 .. Len(jobs'[v]) : i < j => jobs'[v][i] < jobs'[v][j]
  BY <1>1, <1>2, <1>3 DEF QueueOf
<1>7. \A i \in 1 .. Len(jobs'[v]) : jobs'[v][i] # q[1]
  <2> SUFFICES ASSUME NEW i \in 1 .. Len(Tail(q)) PROVE q[i + 1] # q[1]
    BY <1>2, <1>3
  <2>1. i + 1 \in 1 .. Len(q) /\ 1 < i + 1
    BY <1>1, <1>3
  <2>2. q[1] < q[i + 1]
    BY <1>3, <2>1 DEF QueueOf
  <2> QED
    BY <1>1, <1>3, <2>1, <2>2
<1>8. \A x \in Workers : wjob[v][x] # q[1]
  BY <1>1, <1>3 DEF QueueOf, Queued
<1>9. ASSUME NEW x \in Workers, wjob'[v][x] # 0
      PROVE  /\ wjob'[v][x] < cursor'[v] /\ wjob'[v][x] \notin exists'[v]
             /\ ~Queued(v, wjob[v][x])'
             /\ \A y \in Workers : wjob'[v][y] = wjob'[v][x] => y = x
  <2>1. CASE x = w
    BY <1>1, <1>2, <1>3, <1>7, <1>8, <2>1 DEF QueueOf, Queued
  <2>2. CASE x # w
    <3>1. ~Queued(v, wjob[v][x])'
      BY <1>1, <1>2, <1>3, <1>9, <2>2 DEF QueueOf, Queued
    <3> QED
      BY <1>2, <1>8, <1>9, <2>2, <3>1 DEF QueueOf
  <2> QED
    BY <2>1, <2>2
<1> QED
  BY <1>4, <1>5, <1>6, <1>9 DEF QueueOf

\* The other steps of a worker take nothing and send nothing.
LEMMA WorkerOK ==
  ASSUME TypeInv, NEW v \in Updates, NEW w \in Workers, PoolOf(v), QueueOf(v),
         WorkerStep(v, w)
  PROVE  PoolOf(v)' /\ QueueOf(v)'
<1>1. CASE WorkerReceive(v, w)
  BY <1>1, ReceiveOK
<1>2. CASE ~WorkerReceive(v, w)
  <2>1. /\ UNCHANGED <<pc, cancelled, latest, exists, cursor, jobs>>
        /\ wpc[v][w] # "off" /\ wpc[v][w] # "exit"
    BY <1>2
    DEF WorkerStep, WorkerExit, WorkerFetch, WorkerGivesUp, WorkerStore,
        WorkerAbandons
  <2>2. \A x \in Workers : x # w =>
           wjob'[v][x] = wjob[v][x] /\ wpc'[v][x] = wpc[v][x]
    <3> USE DEF TypeInv, TypeOK, LocalsTypeOK
    <3>1. CASE WorkerExit(v, w)
      BY <3>1 DEF WorkerExit
    <3>2. CASE WorkerFetch(v, w)
      BY <3>2 DEF WorkerFetch
    <3>3. ASSUME NEW b, NextJob(v, w, b)
          PROVE  \A x \in Workers : x # w =>
                   wjob'[v][x] = wjob[v][x] /\ wpc'[v][x] = wpc[v][x]
      BY <3>3 DEF NextJob
    <3> QED
      BY <1>2, <3>1, <3>2, <3>3
      DEF WorkerStep, WorkerGivesUp, WorkerStore, WorkerAbandons
  <2>3. /\ wjob'[v][w] \in {0, wjob[v][w]}
        /\ wpc'[v][w] \in {"exit", "store", "select"}
        /\ wpc'[v][w] = "exit" =>
             v \in cancelled \/ (Closed(v) /\ jobs[v] = << >>)
    <3> USE DEF TypeInv, TypeOK, LocalsTypeOK
    <3>1. CASE WorkerExit(v, w)
      BY <3>1 DEF WorkerExit, Closed
    <3>2. CASE WorkerFetch(v, w)
      BY <3>2 DEF WorkerFetch
    <3>3. ASSUME NEW b, NextJob(v, w, b)
          PROVE  wjob'[v][w] = 0 /\ wpc'[v][w] = "select"
      BY <3>3 DEF NextJob
    <3> QED
      BY <1>2, <3>1, <3>2, <3>3
      DEF WorkerStep, WorkerGivesUp, WorkerStore, WorkerAbandons
  <2>4. PoolOf(v)'
    BY <2>1, <2>2, <2>3 DEF PoolOf, Closed, Pooling
  <2>5. QueueOf(v)'
    <3>1. ASSUME NEW x \in Workers, wjob'[v][x] # 0
          PROVE  wjob'[v][x] = wjob[v][x]
      BY <3>1, <2>2, <2>3
    <3> QED
      BY <2>1, <3>1 DEF QueueOf, Queued
  <2> QED
    BY <2>4, <2>5
<1> QED
  BY <1>1, <1>2

\* Every step keeps every pool and its channel in order.
LEMMA PoolNext ==
  TypeInv /\ PoolOK /\ QueueOK /\ [Next]_vars => PoolOK' /\ QueueOK'
<1> SUFFICES ASSUME TypeInv, PoolOK, QueueOK, [Next]_vars, NEW v \in Updates
             PROVE  PoolOf(v)' /\ QueueOf(v)'
  BY DEF PoolOK, QueueOK
<1>1. PoolOf(v) /\ QueueOf(v)
  BY DEF PoolOK, QueueOK
<1>2. CASE Kept(v)
  BY <1>1, <1>2, KeptOK, Monotone
<1>3. CASE NoPool(v)
  BY <1>3, NoPoolOK, TypeNext
<1>4. CASE PoolStep(v)
  BY <1>1, <1>4, DispatchOK, WorkerOK DEF PoolStep
<1> QED
  BY <1>2, <1>3, <1>4, StepKinds

SafeInv == TypeInv /\ SingleFlight /\ PoolOK /\ QueueOK

\* The parts of the invariant that do not speak of the table hold.
LEMMA SafeAlways == Spec => []SafeInv
<1>1. Init => SafeInv
  <2> SUFFICES ASSUME Init PROVE SafeInv
    OBVIOUS
  <2>1. TypeInv
    BY TypeInit
  <2>2. SingleFlight
    BY DEF Init, SingleFlight, Busy
  <2>3. PoolOK
    BY DEF Init, PoolOK, PoolOf, Pooling, Requests
  <2>4. QueueOK
    BY DEF Init, QueueOK, QueueOf
  <2> QED
    BY <2>1, <2>2, <2>3, <2>4 DEF SafeInv
<1>2. SafeInv /\ [Next]_vars => SafeInv'
  BY TypeNext, FlightNext, PoolNext DEF SafeInv
<1> QED
  BY <1>1, <1>2, PTL DEF Spec

\* No comic is in two hands, or in a hand and a channel, for any pool size and
\* any number of calls: no two upserts of one comic are under way at once.
THEOREM NoDoubleWork == Spec => []OneHandPerComic
<1>1. SafeInv => OneHandPerComic
  <2> SUFFICES ASSUME SafeInv, NEW u \in Updates, NEW w \in Workers,
                      wjob[u][w] # 0
               PROVE  /\ \A v \in Updates, x \in Workers :
                           wjob[v][x] = wjob[u][w] => v = u /\ x = w
                      /\ \A v \in Updates : \A i \in 1 .. Len(jobs[v]) :
                           jobs[v][i] # wjob[u][w]
    BY DEF OneHandPerComic
  <2>1. \A v \in Updates, x \in Workers : wjob[v][x] # 0 => pc[v] \in Pooling
    BY DEF SafeInv, TypeInv, HandsOK
  <2>2. \A v \in Updates : pc[v] \in Pooling => v = u
    BY <2>1 DEF SafeInv, SingleFlight, Pooling, Busy, Requests
  <2>3. \A v \in Updates : v # u => jobs[v] = << >>
    BY <2>2 DEF SafeInv, PoolOK, PoolOf
  <2>4. /\ ~Queued(u, wjob[u][w])
        /\ \A x \in Workers : wjob[u][x] = wjob[u][w] => x = w
    BY DEF SafeInv, QueueOK, QueueOf
  <2>5. \A v \in Updates : \A i \in 1 .. Len(jobs[v]) : jobs[v][i] # wjob[u][w]
    BY <2>3, <2>4 DEF Queued
  <2> QED
    BY <2>1, <2>2, <2>4, <2>5
<1> QED
  BY <1>1, SafeAlways, PTL

-----------------------------------------------------------------------------
(* The pool and the table.                                                 *)

\* While an Update has a pool, only its own workers and late statements touch
\* the table.
LEMMA TableStays ==
  ASSUME SafeInv, [Next]_vars, NEW v \in Updates, pc[v] \in Pooling, ~raced',
         \A w \in Workers : ~WorkerStore(v, w)
  PROVE  db' = db
<1>b. \A r \in Requests : pc[r] \in Busy => r = v
  BY DEF SafeInv, SingleFlight, Pooling, Busy, Requests
<1>1. ASSUME NEW u \in Updates,
             UpdateAccepted(u) \/ UpdateRejected(u) \/ UpdateStep(u)
      PROVE  db' = db
  BY <1>1
  DEF UpdateAccepted, UpdateRejected, UpdateStep, UpdateLastID, UpdateIDs,
      UpdateFails, DispatchSkip, DispatchSend, DispatchAbort, DispatchDone,
      UpdateReturn
<1>2. ASSUME NEW u \in Updates, NEW w \in Workers, WorkerStep(u, w)
      PROVE  db' = db
  <2>1. ~WorkerStore(u, w)
    <3> SUFFICES ASSUME WorkerStore(u, w) PROVE FALSE
      OBVIOUS
    <3>1. wpc[u][w] = "store"
      BY DEF WorkerStore
    <3>2. pc[u] \in Busy
      BY <3>1 DEF SafeInv, TypeInv, HandsOK, Pooling, Busy
    <3> QED
      BY <1>b, <3>2 DEF Requests
  <2> QED
    BY <1>2, <2>1
    DEF WorkerStep, WorkerReceive, WorkerExit, WorkerFetch, WorkerGivesUp,
        WorkerAbandons
<1>3. ASSUME NEW d \in Drops, DropAccepted(d) \/ DropRejected(d) \/ DropStep(d)
      PROVE  db' = db
  <2>1. pc[d] # "truncate"
    BY <1>b, ConstantsAssumption DEF Busy, Requests
  <2> QED
    BY <1>3, <2>1
    DEF DropAccepted, DropRejected, DropStep, DropTruncate, DropFails,
        DropAbandons
<1>4. ASSUME NEW r \in Requests, Notify(r) \/ Cancel(r) PROVE db' = db
  BY <1>4 DEF Notify, Cancel
<1>5. ASSUME \/ \E s \in lateAdds : SettleAdd(s)
             \/ \E d \in Drops : SettleDrop(d)
      PROVE  db' = db
  BY <1>5 DEF SettleAdd, SettleDrop
<1>6. CASE XkcdPublish \/ Crash \/ Terminated \/ UNCHANGED vars
  BY <1>6 DEF XkcdPublish, Crash, Terminated, vars
<1> QED
  BY <1>1, <1>2, <1>3, <1>4, <1>5, <1>6 DEF Next

\* Sending queues one id.
LEMMA SendEffect ==
  ASSUME TypeInv, NEW v \in Updates, DispatchSend(v), NEW id \in IDs
  PROVE  /\ Queued(v, id)' <=> Queued(v, id) \/ id = cursor[v]
         /\ InHand(v, id)' <=> InHand(v, id)
<1> DEFINE q == jobs[v]
<1>1. /\ q \in Seq(IDs) /\ cursor[v] \in IDs
      /\ jobs'[v] = Append(q, cursor[v]) /\ wjob' = wjob
  BY ConstantsAssumption
  DEF TypeInv, TypeOK, LocalsTypeOK, HandsOK, DispatchSend, IDs
<1>2. /\ Len(q) \in Nat /\ Len(jobs'[v]) = Len(q) + 1
      /\ jobs'[v][Len(q) + 1] = cursor[v]
      /\ \A i \in 1 .. Len(q) : jobs'[v][i] = q[i]
      /\ \A i \in 1 .. Len(q) + 1 : i \in 1 .. Len(q) \/ i = Len(q) + 1
      /\ \A i \in 1 .. Len(q) : i \in 1 .. Len(q) + 1
      /\ Len(q) + 1 \in 1 .. Len(q) + 1
  BY <1>1
<1>3. Queued(v, id)' <=> Queued(v, id) \/ id = cursor[v]
  BY <1>2 DEF Queued
<1> QED
  BY <1>1, <1>3 DEF InHand

\* Receiving moves one id from the channel to a hand.
LEMMA ReceiveEffect ==
  ASSUME TypeInv, NEW v \in Updates, NEW w \in Workers, WorkerReceive(v, w),
         NEW id \in IDs
  PROVE  /\ Queued(v, id) <=> Queued(v, id)' \/ id = jobs[v][1]
         /\ InHand(v, id)' <=> InHand(v, id) \/ id = jobs[v][1]
<1> DEFINE q == jobs[v]
<1>0. wjob[v][w] = 0
  BY DEF TypeInv, HandsOK, WorkerReceive
<1>1. /\ q \in Seq(IDs) /\ q # << >> /\ jobs'[v] = Tail(q)
      /\ wjob'[v][w] = q[1] /\ wjob[v][w] = 0
      /\ \A x \in Workers : x # w => wjob'[v][x] = wjob[v][x]
  BY <1>0 DEF TypeInv, TypeOK, LocalsTypeOK, WorkerReceive
<1>2. id # 0
  BY ConstantsAssumption DEF IDs
<1>3. /\ Len(q) \in Nat \ {0} /\ Len(Tail(q)) = Len(q) - 1
      /\ \A i \in 1 .. Len(Tail(q)) :
           Tail(q)[i] = q[i + 1] /\ i + 1 \in 1 .. Len(q)
      /\ \A i \in 1 .. Len(q) : i = 1 \/ i - 1 \in 1 .. Len(Tail(q))
      /\ \A i \in 1 .. Len(q) : (i - 1) + 1 = i
      /\ 1 \in 1 .. Len(q)
  BY <1>1
<1>4. Queued(v, id)' => Queued(v, id)
  BY <1>1, <1>3 DEF Queued
<1>5. Queued(v, id) => Queued(v, id)' \/ id = q[1]
  <2> SUFFICES ASSUME NEW i \in 1 .. Len(q), q[i] = id, i # 1
               PROVE  Queued(v, id)'
    BY DEF Queued
  <2>1. i - 1 \in 1 .. Len(jobs'[v]) /\ jobs'[v][i - 1] = id
    BY <1>1, <1>3
  <2> QED
    BY <2>1 DEF Queued
<1>6. id = q[1] => Queued(v, id)
  BY <1>3 DEF Queued
<1>7. InHand(v, id)' <=> InHand(v, id) \/ id = q[1]
  BY <1>1, <1>2 DEF InHand
<1> QED
  BY <1>4, <1>5, <1>6, <1>7

\* Going back to the top of the loop empties one hand.
LEMMA NextJobEffect ==
  ASSUME TypeInv, NEW v \in Updates, NEW w \in Workers, QueueOf(v),
         wpc[v][w] \in {"fetch", "store"}, NEW b, NextJob(v, w, b),
         jobs' = jobs, NEW id \in IDs
  PROVE  /\ Queued(v, id)' <=> Queued(v, id)
         /\ InHand(v, id)' <=> InHand(v, id) /\ id # wjob[v][w]
         /\ skipped[v] \subseteq skipped'[v]
         /\ b => wjob[v][w] \in skipped'[v]
<1>1. /\ wjob'[v][w] = 0 /\ wjob[v][w] # 0
      /\ \A x \in Workers : x # w => wjob'[v][x] = wjob[v][x]
  BY DEF TypeInv, TypeOK, LocalsTypeOK, HandsOK, NextJob
<1>2. \A x \in Workers : wjob[v][x] = wjob[v][w] => x = w
  BY <1>1 DEF QueueOf
<1>3. id # 0
  BY ConstantsAssumption DEF IDs
<1>4. InHand(v, id)' <=> InHand(v, id) /\ id # wjob[v][w]
  BY <1>1, <1>2, <1>3 DEF InHand
<1>5. skipped[v] \subseteq skipped'[v] /\ (b => wjob[v][w] \in skipped'[v])
  BY DEF TypeInv, TypeOK, LocalsTypeOK, NextJob
<1> QED
  BY <1>4, <1>5 DEF Queued

TableOf(v) == SnapshotOf(v) /\ CoverageOf(v)

\* Steps of the dispatch loop keep what is said of the table.
LEMMA DispatchTable ==
  ASSUME SafeInv, [Next]_vars, NEW v \in Updates, TableOf(v), ~raced', ~raced,
         \/ UpdateIDs(v) \/ DispatchSkip(v) \/ DispatchSend(v)
         \/ DispatchAbort(v) \/ DispatchDone(v)
  PROVE  TableOf(v)'
<1>t. /\ pc \in [Requests -> RequestPoints] /\ v \in Requests
      /\ latest \in [Updates -> 0 .. MaxID]
      /\ exists \in [Updates -> SUBSET IDs]
      /\ cursor \in [Updates -> 0 .. MaxID + 1]
  BY DEF SafeInv, TypeInv, TypeOK, LocalsTypeOK, Requests
<1>m. /\ MaxID \in Nat /\ \A id \in IDs : id \in Nat /\ id # 0
      /\ cursor[v] \in Nat /\ Present \subseteq IDs
  BY <1>t, ConstantsAssumption DEF IDs, Present
<1>db. db' = db /\ Present' = Present
  BY DEF UpdateIDs, DispatchSkip, DispatchSend, DispatchAbort, DispatchDone,
         Present
<1>1. CASE UpdateIDs(v)
  <2>1. /\ exists'[v] = Present /\ cursor'[v] = 1 /\ jobs'[v] = << >>
        /\ \A w \in Workers : wjob'[v][w] = 0
    <3>1. pc[v] \notin Pooling
      BY <1>1 DEF UpdateIDs, Pooling
    <3>2. jobs[v] = << >> /\ \A w \in Workers : wjob[v][w] = 0
      BY <3>1 DEF SafeInv, TypeInv, HandsOK, PoolOK, PoolOf
    <3> QED
      BY <1>1, <1>t, <3>2 DEF UpdateIDs
  <2>2. \A id \in IDs : ~Queued(v, id)' /\ ~InHand(v, id)'
    BY <2>1, <1>m DEF Queued, InHand
  <2>3. SnapshotOf(v)'
    BY <1>m, <1>db, <2>1, <2>2 DEF SnapshotOf
  <2>4. CoverageOf(v)'
    BY <1>m, <2>1 DEF CoverageOf
  <2> QED
    BY <2>3, <2>4 DEF TableOf
<1>2. CASE DispatchSkip(v)
  <2>1. /\ cursor'[v] = cursor[v] + 1 /\ cursor[v] \in exists[v]
        /\ pc[v] \in Pooling
        /\ UNCHANGED <<pc, exists, jobs, wjob, latest, skipped>>
    BY <1>2, <1>t DEF DispatchSkip, Pooling
  <2>2. \A id \in IDs : /\ Queued(v, id)' <=> Queued(v, id)
                        /\ InHand(v, id)' <=> InHand(v, id)
    BY <2>1 DEF Queued, InHand
  <2>3. SnapshotOf(v)'
    BY <1>m, <1>db, <2>1, <2>2 DEF SnapshotOf, TableOf
  <2>4. CoverageOf(v)'
    <3> SUFFICES ASSUME NEW id \in IDs, id <= latest[v], id < cursor[v] + 1
                 PROVE  \/ id \in Present \cup skipped[v]
                        \/ Queued(v, id) \/ InHand(v, id)
      BY <2>1, <2>2, <1>db DEF CoverageOf
    <3>1. CASE id = cursor[v]
      BY <3>1, <2>1 DEF TableOf, SnapshotOf
    <3>2. CASE id < cursor[v]
      BY <3>2, <2>1 DEF TableOf, CoverageOf
    <3> QED
      BY <3>1, <3>2, <1>m
  <2> QED
    BY <2>3, <2>4 DEF TableOf
<1>3. CASE DispatchSend(v)
  <2>1. /\ cursor'[v] = cursor[v] + 1 /\ cursor[v] \notin exists[v]
        /\ pc[v] \in Pooling
        /\ UNCHANGED <<pc, exists, latest, skipped>>
    BY <1>3, <1>t DEF DispatchSend, Pooling
  <2>2. \A id \in IDs :
           /\ Queued(v, id)' <=> Queued(v, id) \/ id = cursor[v]
           /\ InHand(v, id)' <=> InHand(v, id)
    BY <1>3, SendEffect DEF SafeInv
  <2>3. cursor[v] \notin Present
    BY <1>m, <2>1 DEF TableOf, SnapshotOf
  <2>4. SnapshotOf(v)'
    BY <1>m, <1>db, <2>1, <2>2, <2>3 DEF SnapshotOf, TableOf
  <2>5. CoverageOf(v)'
    <3> SUFFICES ASSUME NEW id \in IDs, id <= latest[v], id < cursor[v] + 1
                 PROVE  \/ id \in Present \cup skipped[v]
                        \/ Queued(v, id)' \/ InHand(v, id)'
      BY <2>1, <1>db DEF CoverageOf
    <3>1. CASE id = cursor[v]
      BY <3>1, <2>2
    <3>2. CASE id < cursor[v]
      BY <3>2, <2>1, <2>2 DEF TableOf, CoverageOf
    <3> QED
      BY <3>1, <3>2, <1>m
  <2> QED
    BY <2>4, <2>5 DEF TableOf
<1>4. CASE DispatchAbort(v) \/ DispatchDone(v)
  <2>1. pc[v] \in Pooling /\ UNCHANGED locals
    BY <1>4 DEF DispatchAbort, DispatchDone, Pooling
  <2>2. \A id \in IDs : /\ Queued(v, id)' <=> Queued(v, id)
                        /\ InHand(v, id)' <=> InHand(v, id)
    BY <2>1 DEF Queued, InHand, locals
  <2>3. SnapshotOf(v)'
    BY <1>m, <1>db, <2>1, <2>2 DEF SnapshotOf, TableOf, locals
  <2>4. CoverageOf(v)'
    BY <1>m, <1>db, <2>1, <2>2 DEF CoverageOf, TableOf, locals
  <2> QED
    BY <2>3, <2>4 DEF TableOf
<1> QED
  BY <1>1, <1>2, <1>3, <1>4

\* Steps of the workers keep what is said of the table.
LEMMA WorkerTable ==
  ASSUME SafeInv, NEW v \in Updates, NEW w \in Workers, TableOf(v),
         ~raced', ~raced, WorkerStep(v, w)
  PROVE  TableOf(v)'
<1>m. /\ \A id \in IDs : id \in Nat /\ id # 0
      /\ Present \subseteq IDs /\ wrow \in [Updates -> [Workers -> Rows \cup {Absent}]]
  BY ConstantsAssumption
  DEF IDs, Present, SafeInv, TypeInv, TypeOK, LocalsTypeOK
<1>f. UNCHANGED <<pc, latest, exists, cursor>>
  BY DEF WorkerStep, WorkerReceive, WorkerExit, WorkerFetch, WorkerGivesUp,
         WorkerStore, WorkerAbandons
<1>p. pc[v] \in Pooling
  BY DEF SafeInv, TypeInv, HandsOK, WorkerStep, WorkerReceive, WorkerExit,
         WorkerFetch, WorkerGivesUp, WorkerStore, WorkerAbandons
<1>1. CASE WorkerReceive(v, w)
  <2>1. \A id \in IDs :
           /\ Queued(v, id) <=> Queued(v, id)' \/ id = jobs[v][1]
           /\ InHand(v, id)' <=> InHand(v, id) \/ id = jobs[v][1]
    BY <1>1, ReceiveEffect DEF SafeInv
  <2>2. db' = db /\ Present' = Present /\ skipped' = skipped
    BY <1>1 DEF WorkerReceive, Present
  <2>3. SnapshotOf(v)'
    BY <1>m, <1>f, <1>p, <2>1, <2>2 DEF TableOf, SnapshotOf
  <2>4. CoverageOf(v)'
    BY <1>m, <1>f, <1>p, <2>1, <2>2 DEF TableOf, CoverageOf
  <2> QED
    BY <2>3, <2>4 DEF TableOf
<1>2. CASE WorkerExit(v, w) \/ WorkerFetch(v, w)
  <2>1. db' = db /\ Present' = Present /\ UNCHANGED <<skipped, jobs, wjob>>
    BY <1>2 DEF WorkerExit, WorkerFetch, Present
  <2>2. \A id \in IDs : /\ Queued(v, id)' <=> Queued(v, id)
                        /\ InHand(v, id)' <=> InHand(v, id)
    BY <2>1 DEF Queued, InHand
  <2>3. SnapshotOf(v)'
    BY <1>m, <1>f, <1>p, <2>1, <2>2 DEF TableOf, SnapshotOf
  <2>4. CoverageOf(v)'
    BY <1>m, <1>f, <1>p, <2>1, <2>2 DEF TableOf, CoverageOf
  <2> QED
    BY <2>3, <2>4 DEF TableOf
<1>3. CASE WorkerGivesUp(v, w) \/ WorkerAbandons(v, w)
  <2>1. /\ db' = db /\ Present' = Present /\ jobs' = jobs
        /\ NextJob(v, w, TRUE) /\ wpc[v][w] \in {"fetch", "store"}
    BY <1>3 DEF WorkerGivesUp, WorkerAbandons, Present
  <2>2. \A id \in IDs :
           /\ Queued(v, id)' <=> Queued(v, id)
           /\ InHand(v, id)' <=> InHand(v, id) /\ id # wjob[v][w]
           /\ skipped[v] \subseteq skipped'[v]
           /\ wjob[v][w] \in skipped'[v]
    BY <2>1, NextJobEffect DEF SafeInv, QueueOK
  <2>3. SnapshotOf(v)'
    BY <1>m, <1>f, <1>p, <2>1, <2>2 DEF TableOf, SnapshotOf
  <2>4. CoverageOf(v)'
    BY <1>m, <1>f, <1>p, <2>1, <2>2 DEF TableOf, CoverageOf
  <2> QED
    BY <2>3, <2>4 DEF TableOf
<1>4. CASE WorkerStore(v, w)
  <2> DEFINE j == wjob[v][w]
  <2>1. /\ j \in IDs /\ wrow[v][w] \in Rows /\ jobs' = jobs
        /\ wpc[v][w] = "store" /\ \E b \in BOOLEAN : NextJob(v, w, b)
    BY <1>4
    DEF WorkerStore, SafeInv, TypeInv, TypeOK, LocalsTypeOK, HandsOK, IDs
  <2>2. Present' = Present \cup {j}
    BY <1>4, <2>1
    DEF WorkerStore, Present, SafeInv, TypeInv, TypeOK, Rows, Absent
  <2>3. \A id \in IDs :
           /\ Queued(v, id)' <=> Queued(v, id)
           /\ InHand(v, id)' <=> InHand(v, id) /\ id # j
           /\ skipped[v] \subseteq skipped'[v]
    BY <2>1, NextJobEffect DEF SafeInv, QueueOK
  <2>4. j < cursor[v] /\ ~Queued(v, j)
    BY <2>1, <1>m DEF SafeInv, QueueOK, QueueOf
  <2>5. SnapshotOf(v)'
    BY <1>m, <1>f, <1>p, <2>1, <2>2, <2>3, <2>4 DEF TableOf, SnapshotOf
  <2>6. CoverageOf(v)'
    BY <1>m, <1>f, <1>p, <2>2, <2>3 DEF TableOf, CoverageOf
  <2> QED
    BY <2>5, <2>6 DEF TableOf
<1> QED
  BY <1>1, <1>2, <1>3, <1>4 DEF WorkerStep

\* Every step keeps what is said of the table.
LEMMA TableNext ==
  SafeInv /\ SnapshotOK /\ CoverageOK /\ [Next]_vars
    => SnapshotOK' /\ CoverageOK'
<1> SUFFICES ASSUME SafeInv, SnapshotOK, CoverageOK, [Next]_vars,
                    NEW v \in Updates
             PROVE  TableOf(v)'
  BY DEF SnapshotOK, CoverageOK, TableOf
<1>1. TableOf(v)
  BY DEF SnapshotOK, CoverageOK, TableOf
<1>2. raced => raced'
  BY Monotone DEF SafeInv
<1>3. CASE raced' \/ NoPool(v)
  BY <1>3 DEF TableOf, SnapshotOf, CoverageOf, NoPool
<1>4. CASE ~raced' /\ PoolStep(v)
  BY <1>1, <1>2, <1>4, DispatchTable, WorkerTable DEF PoolStep
<1>5. CASE ~raced' /\ Kept(v) /\ pc[v] \notin Pooling
  BY <1>5 DEF TableOf, SnapshotOf, CoverageOf, Kept
<1>6. CASE ~raced' /\ Kept(v) /\ pc[v] \in Pooling /\ ~PoolStep(v)
  <2>1. \A w \in Workers : ~WorkerStore(v, w)
    BY <1>6 DEF PoolStep, WorkerStep
  <2>2. Present' = Present
    BY <1>6, <2>1, TableStays DEF Present
  <2>3. \A id : /\ Queued(v, id)' <=> Queued(v, id)
                /\ InHand(v, id)' <=> InHand(v, id)
    BY <1>6 DEF Queued, InHand, Kept
  <2>4. SnapshotOf(v)'
    BY <1>1, <1>2, <1>6, <2>2, <2>3 DEF TableOf, SnapshotOf, Kept
  <2>5. CoverageOf(v)'
    BY <1>1, <1>2, <1>6, <2>2, <2>3 DEF TableOf, CoverageOf, Kept
  <2> QED
    BY <2>4, <2>5 DEF TableOf
<1> QED
  BY <1>3, <1>4, <1>5, <1>6, StepKinds DEF SafeInv

\* The whole inductive invariant holds, for every value of the constants.
THEOREM InvariantHolds == Spec => []IndInv
<1>1. Init => SnapshotOK /\ CoverageOK
  BY DEF Init, SnapshotOK, SnapshotOf, CoverageOK, CoverageOf, Pooling, Requests
<1>2. SafeInv /\ SnapshotOK /\ CoverageOK /\ [Next]_vars
        => (SnapshotOK /\ CoverageOK)'
  BY TableNext
<1>3. SafeInv /\ SnapshotOK /\ CoverageOK => IndInv
  BY DEF SafeInv, TypeInv, IndInv
<1> QED
  BY <1>1, <1>2, <1>3, SafeAlways, PTL DEF Spec

-----------------------------------------------------------------------------
(* What an Update promises.                                                *)

\* Whatever the interleaving, a row is never rewritten by an Update: it stays
\* as it is until a Drop, unless a late statement interfered.
THEOREM RowsAreStable == Spec => NeverOverwrites
<1> DEFINE Stable == \A id \in IDs :
             db[id] # Absent => db'[id] \in {db[id], Absent} \/ raced'
<1>1. ASSUME IndInv, [Next]_vars PROVE [Stable]_vars
  <2>t. db \in [IDs -> Rows \cup {Absent}]
    BY <1>1 DEF IndInv, TypeOK
  <2>1. ASSUME db' = db PROVE Stable
    BY <2>1
  <2>2. ASSUME db' = [id \in IDs |-> Absent] PROVE Stable
    BY <2>2
  <2>3. ASSUME NEW u \in Updates, NEW w \in Workers, WorkerStore(u, w)
        PROVE  Stable
    <3>1. CASE raced
      BY <2>3, <3>1 DEF WorkerStore
    <3>2. CASE ~raced
      <4>1. pc[u] \in Pooling
        BY <1>1, <2>3 DEF IndInv, HandsOK, WorkerStore
      <4>2. wjob[u][w] \notin Present
        BY <1>1, <3>2, <4>1 DEF IndInv, SnapshotOK, SnapshotOf, InHand
      <4> QED
        BY <2>3, <2>t, <4>2 DEF WorkerStore, Present
    <3> QED
      BY <3>1, <3>2
  <2>4. ASSUME NEW u \in Updates,
               UpdateAccepted(u) \/ UpdateRejected(u) \/ UpdateStep(u)
        PROVE  db' = db
    BY <2>4
    DEF UpdateAccepted, UpdateRejected, UpdateStep, UpdateLastID, UpdateIDs,
        UpdateFails, DispatchSkip, DispatchSend, DispatchAbort, DispatchDone,
        UpdateReturn
  <2>5. ASSUME NEW u \in Updates, NEW w \in Workers, WorkerStep(u, w)
        PROVE  db' = db \/ WorkerStore(u, w)
    BY <2>5
    DEF WorkerStep, WorkerReceive, WorkerExit, WorkerFetch, WorkerGivesUp,
        WorkerAbandons
  <2>6. ASSUME NEW d \in Drops,
               \/ DropAccepted(d) \/ DropRejected(d) \/ DropStep(d)
        PROVE  db' = db \/ db' = [id \in IDs |-> Absent]
    BY <2>6
    DEF DropAccepted, DropRejected, DropStep, DropTruncate, DropFails,
        DropAbandons
  <2>7. ASSUME NEW r \in Requests, Notify(r) \/ Cancel(r) PROVE db' = db
    BY <2>7 DEF Notify, Cancel
  <2>8. ASSUME \/ \E s \in lateAdds : SettleAdd(s)
               \/ \E d \in Drops : SettleDrop(d)
        PROVE  db' = db \/ raced'
    BY <2>8 DEF SettleAdd, SettleDrop
  <2>9. CASE XkcdPublish \/ Crash \/ Terminated \/ UNCHANGED vars
    BY <2>9, <2>1 DEF XkcdPublish, Crash, Terminated, vars
  <2>10. raced' => Stable
    OBVIOUS
  <2> QED
    BY <1>1, <2>1, <2>2, <2>3, <2>4, <2>5, <2>6, <2>7, <2>8, <2>9, <2>10
    DEF Next
<1>2. IndInv /\ [Next]_vars => [Stable]_vars
  BY <1>1
<1> QED
  BY <1>2, InvariantHolds, PTL DEF Spec, NeverOverwrites

\* Only the return of an Update takes it from waiting to notifying.
LEMMA OnlyReturnNotifies ==
  ASSUME TypeInv, [Next]_vars, NEW u \in Updates,
         pc[u] = "wait", pc'[u] = "notify"
  PROVE  UpdateReturn(u)
<1>t. pc \in [Requests -> RequestPoints] /\ u \in Requests
  BY DEF TypeInv, TypeOK, Requests
<1>1. ASSUME NEW v \in Updates,
             UpdateAccepted(v) \/ UpdateRejected(v) \/ UpdateStep(v)
      PROVE  UpdateReturn(u)
  <2>1. v = u
    BY <1>1, KeptByUpdate DEF Kept
  <2> QED
    BY <1>1, <2>1
    DEF UpdateAccepted, UpdateRejected, UpdateStep, UpdateLastID, UpdateIDs,
        UpdateFails, DispatchSkip, DispatchSend, DispatchAbort, DispatchDone
<1>2. ASSUME NEW v \in Updates, NEW w \in Workers, WorkerStep(v, w)
      PROVE  pc' = pc
  BY <1>2
  DEF WorkerStep, WorkerReceive, WorkerExit, WorkerFetch, WorkerGivesUp,
      WorkerStore, WorkerAbandons
<1>3. ASSUME NEW d \in Drops, DropAccepted(d) \/ DropRejected(d) \/ DropStep(d)
      PROVE  pc'[u] = pc[u]
  BY <1>3, <1>t, ConstantsAssumption
  DEF DropAccepted, DropRejected, DropStep, DropTruncate, DropFails,
      DropAbandons, Fail, Succeed, Answer, Requests
<1>4. ASSUME NEW r \in Requests, Notify(r) PROVE pc'[u] = pc[u]
  BY <1>4, <1>t DEF Notify, Answer
<1>5. ASSUME \/ \E r \in Requests : Cancel(r)
             \/ \E s \in lateAdds : SettleAdd(s)
             \/ \E d \in Drops : SettleDrop(d)
             \/ XkcdPublish \/ Terminated \/ UNCHANGED vars
      PROVE  pc' = pc
  BY <1>5 DEF Cancel, SettleAdd, SettleDrop, XkcdPublish, Terminated, vars
<1>6. CASE Crash
  BY <1>6, <1>t DEF Crash, Active, Busy
<1> QED
  BY <1>1, <1>2, <1>3, <1>4, <1>5, <1>6 DEF Next

\* An Update that was not cancelled and returns nil leaves no comic behind: each
\* one up to the newest it saw is in the table or failed on its own, for any
\* pool size, any number of comics and any concurrent calls.
THEOREM NothingForgotten == Spec => UpdateComplete
<1> DEFINE Complete == \A u \in Updates :
             pc[u] = "wait" /\ pc'[u] = "notify" /\ u \notin cancelled /\ ~raced
               => (1 .. latest[u]) \subseteq (Present \cup skipped[u])
<1>1. ASSUME IndInv, [Next]_vars PROVE Complete
  <2> SUFFICES ASSUME NEW u \in Updates, pc[u] = "wait", pc'[u] = "notify",
                      u \notin cancelled, ~raced, NEW id \in 1 .. latest[u]
               PROVE  id \in Present \cup skipped[u]
    OBVIOUS
  <2>1. \A w \in Workers : wpc[u][w] = "exit"
    BY <1>1, OnlyReturnNotifies DEF IndInv, TypeInv, UpdateReturn
  <2>2. \A w \in Workers : wjob[u][w] = 0
    BY <1>1, <2>1 DEF IndInv, HandsOK
  <2>3. jobs[u] = << >> /\ cursor[u] > latest[u]
    BY <1>1, <2>1, PoolSize DEF IndInv, PoolOK, PoolOf
  <2>4. id \in IDs /\ id <= latest[u] /\ id < cursor[u] /\ id # 0
    BY <1>1, <2>3, ConstantsAssumption DEF IndInv, TypeOK, LocalsTypeOK, IDs
  <2>5. ~Queued(u, id) /\ ~InHand(u, id)
    BY <2>2, <2>3, <2>4 DEF Queued, InHand
  <2> QED
    BY <1>1, <2>4, <2>5 DEF IndInv, CoverageOK, CoverageOf, Pooling
<1>2. IndInv /\ [Next]_vars => [Complete]_vars
  BY <1>1
<1> QED
  BY <1>2, InvariantHolds, PTL DEF Spec, UpdateComplete

-----------------------------------------------------------------------------
(* Events.                                                                 *)

\* A request has no answer before it is done.
NoEarlyAnswer == \A r \in Requests : pc[r] # "done" => reply[r] = "none"

EventInv == NoEarlyAnswer /\ ChangesAnnounced

\* Request r alone moves, from under way or new to under way.
Moves(r) ==
  /\ \A s \in Requests : s # r => pc'[s] = pc[s]
  /\ reply' = reply
  /\ pc[r] # "done" /\ pc'[r] \in Active

\* Request r alone is answered, with an error.
Errs(r) ==
  /\ \A s \in Requests : s # r => pc'[s] = pc[s] /\ reply'[s] = reply[s]
  /\ pc'[r] = "done"
  /\ reply'[r] = "Internal" \/ pc[r] = "new"

\* A step in which one request moves or is refused keeps the account of what
\* is announced, if only a request under way or failing changes the table.
LEMMA OneMoves ==
  ASSUME TypeInv, EventInv, NEW r \in Requests, Moves(r) \/ Errs(r),
         UNCHANGED <<pubFailed, raced>>,
         \/ unannounced' = unannounced
         \/ unannounced' = unannounced \cup {r} /\ pc[r] # "new"
  PROVE  EventInv'
<1>t. pc \in [Requests -> RequestPoints] /\ reply \in [Requests -> Codes]
      /\ unannounced \subseteq Requests
  BY DEF TypeInv, TypeOK
<1>1. NoEarlyAnswer'
  BY <1>t DEF EventInv, NoEarlyAnswer, Moves, Errs, Active, Busy
<1>2. ASSUME NEW s \in unannounced', s # r
      PROVE  \/ pc'[s] \in Active \/ reply'[s] \in {"Internal", "Unavailable"}
             \/ s \in pubFailed' \/ raced'
  BY <1>2, <1>t DEF EventInv, ChangesAnnounced, Moves, Errs
<1>3. r \in unannounced' =>
        \/ pc'[r] \in Active \/ reply'[r] \in {"Internal", "Unavailable"}
        \/ r \in pubFailed' \/ raced'
  <2>1. CASE Moves(r)
    BY <2>1 DEF Moves
  <2>2. CASE Errs(r) /\ pc[r] # "new"
    BY <2>2, <1>t DEF Errs
  <2>3. CASE Errs(r) /\ pc[r] = "new"
    BY <2>3, <1>t DEF EventInv, NoEarlyAnswer, ChangesAnnounced, Active, Busy
  <2> QED
    BY <2>1, <2>2, <2>3
<1>4. ChangesAnnounced'
  BY <1>2, <1>3 DEF ChangesAnnounced
<1> QED
  BY <1>1, <1>4 DEF EventInv

\* A step that answers and announces nothing keeps the account.
LEMMA NobodyMoves ==
  ASSUME EventInv, UNCHANGED <<pc, reply, pubFailed>>, raced => raced',
         unannounced' = unannounced \/ raced'
  PROVE  EventInv'
<1>1. NoEarlyAnswer'
  BY DEF EventInv, NoEarlyAnswer
<1>2. ChangesAnnounced'
  BY DEF EventInv, ChangesAnnounced, Active, Busy
<1> QED
  BY <1>1, <1>2 DEF EventInv

\* Every step keeps the account of what is announced.
LEMMA EventNext == TypeInv /\ EventInv /\ [Next]_vars => EventInv'
<1> SUFFICES ASSUME TypeInv, EventInv, [Next]_vars PROVE EventInv'
  OBVIOUS
<1>t. /\ pc \in [Requests -> RequestPoints] /\ reply \in [Requests -> Codes]
      /\ unannounced \subseteq Requests /\ Updates \subseteq Requests
      /\ Drops \subseteq Requests
  BY DEF TypeInv, TypeOK, Requests
<1>1. ASSUME NEW u \in Updates,
             UpdateAccepted(u) \/ UpdateRejected(u) \/ UpdateStep(u)
      PROVE  EventInv'
  <2>1. UNCHANGED <<unannounced, pubFailed, raced>>
    BY <1>1
    DEF UpdateAccepted, UpdateRejected, UpdateStep, UpdateLastID, UpdateIDs,
        UpdateFails, DispatchSkip, DispatchSend, DispatchAbort, DispatchDone,
        UpdateReturn, history
  <2>2. CASE \/ UpdateAccepted(u) \/ UpdateLastID(u) \/ UpdateIDs(u)
             \/ DispatchAbort(u) \/ DispatchDone(u)
    <3>1. Moves(u)
      BY <2>2, <1>t
      DEF UpdateAccepted, UpdateLastID, UpdateIDs, DispatchAbort, DispatchDone,
          Moves, Active, Busy
    <3> QED
      BY <1>t, <2>1, <3>1, OneMoves
  <2>3. CASE UpdateRejected(u) \/ UpdateFails(u)
    <3>1. Errs(u)
      BY <2>3, <1>t DEF UpdateRejected, UpdateFails, Fail, Answer, Errs
    <3> QED
      BY <1>t, <2>1, <3>1, OneMoves
  <2>4. CASE UpdateReturn(u)
    <3>1. CASE pc[u] = "abort"
      <4>1. Errs(u)
        BY <2>4, <3>1, <1>t DEF UpdateReturn, Fail, Answer, Errs
      <4> QED
        BY <1>t, <2>1, <4>1, OneMoves
    <3>2. CASE pc[u] # "abort"
      <4>1. Moves(u)
        BY <2>4, <3>2, <1>t DEF UpdateReturn, Closed, Succeed, Moves, Active
      <4> QED
        BY <1>t, <2>1, <4>1, OneMoves
    <3> QED
      BY <3>1, <3>2
  <2>5. CASE DispatchSkip(u) \/ DispatchSend(u)
    BY <2>1, <2>5, NobodyMoves DEF DispatchSkip, DispatchSend
  <2> QED
    BY <1>1, <2>2, <2>3, <2>4, <2>5 DEF UpdateStep
<1>2. ASSUME NEW u \in Updates, NEW w \in Workers, WorkerStep(u, w)
      PROVE  EventInv'
  <2>1. CASE WorkerStore(u, w)
    <3>1. pc[u] \in Pooling
      BY <2>1 DEF TypeInv, HandsOK, WorkerStore
    <3>2. Moves(u)
      BY <2>1, <3>1, <1>t DEF WorkerStore, Moves, Pooling, Active, Busy
    <3> QED
      BY <2>1, <3>1, <3>2, <1>t, OneMoves DEF WorkerStore, Pooling
  <2>2. CASE ~WorkerStore(u, w)
    <3>1. UNCHANGED <<pc, reply, pubFailed, raced, unannounced>>
      BY <1>2, <2>2
      DEF WorkerStep, WorkerReceive, WorkerExit, WorkerFetch, WorkerGivesUp,
          WorkerAbandons, history
    <3> QED
      BY <3>1, NobodyMoves
  <2> QED
    BY <2>1, <2>2
<1>3. ASSUME NEW d \in Drops, DropAccepted(d) \/ DropRejected(d) \/ DropStep(d)
      PROVE  EventInv'
  <2>1. UNCHANGED <<pubFailed, raced>>
    BY <1>3
    DEF DropAccepted, DropRejected, DropStep, DropTruncate, DropFails,
        DropAbandons, history
  <2>2. \/ unannounced' = unannounced
        \/ unannounced' = unannounced \cup {d} /\ pc[d] # "new"
    BY <1>3
    DEF DropAccepted, DropRejected, DropStep, DropTruncate, DropFails,
        DropAbandons, history
  <2>3. Moves(d) \/ Errs(d)
    <3>1. CASE DropAccepted(d)
      BY <3>1, <1>t DEF DropAccepted, Moves, Active, Busy
    <3>2. CASE DropRejected(d)
      BY <3>2, <1>t DEF DropRejected, Answer, Errs
    <3>3. CASE pc[d] = "truncate" /\ Fail(d)
      BY <3>3, <1>t DEF Fail, Answer, Errs
    <3>4. CASE pc[d] = "truncate" /\ Succeed(d)
      BY <3>4, <1>t DEF Succeed, Moves, Active
    <3> QED
      BY <1>3, <3>1, <3>2, <3>3, <3>4
      DEF DropStep, DropTruncate, DropFails, DropAbandons
  <2> QED
    BY <1>t, <2>1, <2>2, <2>3, OneMoves
<1>4. ASSUME NEW r \in Requests, Notify(r) PROVE EventInv'
  <2>1. NoEarlyAnswer'
    BY <1>4, <1>t DEF Notify, Answer, EventInv, NoEarlyAnswer
  <2>2. ChangesAnnounced'
    <3>1. CASE unannounced' = {}
      BY <3>1 DEF ChangesAnnounced
    <3>2. CASE pubFailed' = pubFailed \cup {r} /\ unannounced' = unannounced
      BY <1>4, <3>2, <1>t DEF Notify, Answer, EventInv, ChangesAnnounced
    <3> QED
      BY <1>4, <3>1, <3>2 DEF Notify
  <2> QED
    BY <2>1, <2>2 DEF EventInv
<1>5. ASSUME \/ \E r \in Requests : Cancel(r)
             \/ XkcdPublish \/ Terminated \/ UNCHANGED vars
      PROVE  EventInv'
  BY <1>5, NobodyMoves DEF Cancel, XkcdPublish, Terminated, vars, history
<1>6. ASSUME \/ \E s \in lateAdds : SettleAdd(s)
             \/ \E d \in Drops : SettleDrop(d)
      PROVE  EventInv'
  BY <1>6, NobodyMoves DEF SettleAdd, SettleDrop
<1>7. CASE Crash
  <2>1. NoEarlyAnswer'
    BY <1>7 DEF Crash, EventInv, NoEarlyAnswer
  <2>2. ChangesAnnounced'
    BY <1>7, <1>t DEF Crash, EventInv, ChangesAnnounced, history
  <2> QED
    BY <2>1, <2>2 DEF EventInv
<1> QED
  BY <1>1, <1>2, <1>3, <1>4, <1>5, <1>6, <1>7 DEF Next

\* Every change of the table that a request makes is announced before it is
\* answered OK, unless its publication fails or a late statement interfered.
THEOREM EventsFollowChanges == Spec => []ChangesAnnounced
<1>1. Init => EventInv
  BY DEF Init, EventInv, NoEarlyAnswer, ChangesAnnounced
<1>2. TypeInv /\ EventInv /\ [Next]_vars => (TypeInv /\ EventInv)'
  BY TypeNext, EventNext
<1>3. EventInv => ChangesAnnounced
  BY DEF EventInv
<1> QED
  BY <1>1, <1>2, <1>3, TypeInit, PTL DEF Spec

-----------------------------------------------------------------------------
(***************************************************************************)
(* The update service implements ComicsTable, for every number of calls,   *)
(* workers and comics: the first state maps to a first state, and every    *)
(* step of a request, of a worker, of Postgres or of a crash maps to one   *)
(* step of the table or leaves it alone.  Three facts carry the proof: the *)
(* flag makes the owner unique (SingleFlight), the snapshot of the ids is  *)
(* still true when a worker stores (SnapshotOK), and nothing is queued, in *)
(* hand or on the wire that xkcd.com has not published (PublishedOK).      *)
(***************************************************************************)

(* Nothing is stored that has not been published.                          *)

\* Every step keeps the ids of a call within what has been published: they
\* all come from the answer of xkcd.LastID, which never decreases.
LEMMA PublishedNext == TypeInv /\ PublishedOK /\ [Next]_vars => PublishedOK'
<1> SUFFICES ASSUME TypeInv, PublishedOK, [Next]_vars PROVE PublishedOK'
  OBVIOUS
<1>t. TypeOK /\ LocalsTypeOK /\ HandsOK
  BY DEF TypeInv, TypeOK
<1>n. xkcdLast \in Nat /\ 0 <= xkcdLast
  BY <1>t, ConstantsAssumption DEF TypeOK, IDs
<1>k. ASSUME xkcdLast' = xkcdLast \/ xkcdLast' = xkcdLast + 1,
             UNCHANGED <<latest, jobs, wjob>>, lateAdds' \subseteq lateAdds
      PROVE  PublishedOK'
  <2>1. \A n \in 0 .. MaxID : n <= xkcdLast => n <= xkcdLast'
    BY <1>k, <1>n, ConstantsAssumption
  <2>2. \A u \in Updates :
          /\ latest[u] \in 0 .. MaxID
          /\ \A i \in 1 .. Len(jobs[u]) : jobs[u][i] \in 0 .. MaxID
          /\ \A w \in Workers : wjob[u][w] \in 0 .. MaxID
    BY <1>t, ConstantsAssumption DEF LocalsTypeOK, IDs
  <2>3. \A s \in lateAdds : s[2] \in 0 .. MaxID
    BY <1>t, ConstantsAssumption DEF TypeOK, IDs
  <2> QED
    BY <1>k, <2>1, <2>2, <2>3 DEF PublishedOK
<1>c. ASSUME NEW u \in Updates, ClearLocals(u), UNCHANGED <<xkcdLast, lateAdds>>
      PROVE  PublishedOK'
  <2>1. latest'[u] = 0 /\ jobs'[u] = << >> /\ \A w \in Workers : wjob'[u][w] = 0
    BY <1>c, <1>t DEF ClearLocals, LocalsTypeOK
  <2>2. \A v \in Updates : v # u =>
          latest'[v] = latest[v] /\ jobs'[v] = jobs[v] /\ wjob'[v] = wjob[v]
    BY <1>c, <1>t DEF ClearLocals, LocalsTypeOK
  <2> QED
    BY <1>c, <1>n, <2>1, <2>2 DEF PublishedOK
<1>1. ASSUME NEW u \in Updates, UpdateLastID(u) PROVE PublishedOK'
  BY <1>1, <1>t, <1>n DEF UpdateLastID, LocalsTypeOK, PublishedOK
<1>2. ASSUME NEW u \in Updates, UpdateFails(u) \/ UpdateReturn(u)
      PROVE  PublishedOK'
  BY <1>2, <1>c DEF UpdateFails, UpdateReturn
<1>3. ASSUME NEW u \in Updates, DispatchSend(u) PROVE PublishedOK'
  <2>1. cursor[u] <= xkcdLast
    BY <1>3, <1>t, <1>n, ConstantsAssumption
    DEF DispatchSend, LocalsTypeOK, PublishedOK
  <2>2. \A i \in 1 .. Len(jobs'[u]) : jobs'[u][i] <= xkcdLast
    <3>1. /\ jobs[u] \in Seq(IDs) /\ cursor[u] \in IDs
          /\ jobs'[u] = Append(jobs[u], cursor[u])
      BY <1>3, <1>t, ConstantsAssumption
      DEF DispatchSend, LocalsTypeOK, HandsOK, IDs
    <3>2. /\ Len(jobs'[u]) = Len(jobs[u]) + 1
          /\ jobs'[u][Len(jobs[u]) + 1] = cursor[u]
          /\ \A i \in 1 .. Len(jobs[u]) : jobs'[u][i] = jobs[u][i]
          /\ \A i \in 1 .. Len(jobs[u]) + 1 :
               i \in 1 .. Len(jobs[u]) \/ i = Len(jobs[u]) + 1
      BY <3>1
    <3> QED
      BY <2>1, <3>2 DEF PublishedOK
  <2>3. \A v \in Updates : v # u => jobs'[v] = jobs[v]
    BY <1>3, <1>t DEF DispatchSend, LocalsTypeOK
  <2> QED
    BY <1>3, <2>2, <2>3 DEF DispatchSend, PublishedOK
<1>4. ASSUME NEW u \in Updates, NEW w \in Workers, WorkerReceive(u, w)
      PROVE  PublishedOK'
  <2>1. /\ jobs[u] \in Seq(IDs) /\ jobs[u] # << >>
        /\ jobs'[u] = Tail(jobs[u]) /\ wjob'[u][w] = Head(jobs[u])
    BY <1>4, <1>t DEF WorkerReceive, LocalsTypeOK
  <2>2. wjob'[u][w] <= xkcdLast
    <3>1. 1 \in 1 .. Len(jobs[u]) /\ Head(jobs[u]) = jobs[u][1]
      BY <2>1
    <3> QED
      BY <2>1, <3>1 DEF PublishedOK
  <2>3. \A i \in 1 .. Len(jobs'[u]) : jobs'[u][i] <= xkcdLast
    <3>1. \A i \in 1 .. Len(jobs'[u]) :
            i + 1 \in 1 .. Len(jobs[u]) /\ jobs'[u][i] = jobs[u][i + 1]
      BY <2>1
    <3> QED
      BY <3>1 DEF PublishedOK
  <2>4. \A v \in Updates :
          /\ v # u => jobs'[v] = jobs[v]
          /\ \A x \in Workers : v # u \/ x # w => wjob'[v][x] = wjob[v][x]
    BY <1>4, <1>t DEF WorkerReceive, LocalsTypeOK
  <2> QED
    BY <1>4, <2>2, <2>3, <2>4 DEF WorkerReceive, PublishedOK
<1>5. ASSUME NEW u \in Updates, NEW w \in Workers,
             \/ WorkerGivesUp(u, w) \/ WorkerStore(u, w)
             \/ WorkerAbandons(u, w)
      PROVE  PublishedOK'
  <2>1. /\ wjob' = [wjob EXCEPT ![u][w] = 0]
        /\ UNCHANGED <<xkcdLast, latest, jobs>>
    BY <1>5 DEF WorkerGivesUp, WorkerStore, WorkerAbandons, NextJob
  <2>2. \A v \in Updates, x \in Workers : wjob'[v][x] \in {0, wjob[v][x]}
    BY <2>1, <1>t DEF LocalsTypeOK
  <2>3. \A s \in lateAdds' : s \in lateAdds \/ s = <<u, wjob[u][w], wrow[u][w]>>
    BY <1>5 DEF WorkerGivesUp, WorkerStore, WorkerAbandons
  <2>4. \A s \in lateAdds' : s[2] <= xkcdLast
    BY <2>3 DEF PublishedOK
  <2> QED
    BY <2>1, <2>2, <2>4, <1>n DEF PublishedOK
<1>6. CASE Crash
  <2>1. \A s \in lateAdds' :
          s \in lateAdds \/ \E u \in Updates, w \in Workers : s[2] = wjob[u][w]
    BY <1>6 DEF Crash
  <2>2. \A s \in lateAdds' : s[2] <= xkcdLast
    BY <2>1 DEF PublishedOK
  <2> QED
    BY <1>6, <2>2, <1>n DEF Crash, PublishedOK
<1>7. ASSUME NEW s \in lateAdds, SettleAdd(s) PROVE PublishedOK'
  BY <1>7, <1>k DEF SettleAdd, locals
<1>8. CASE \/ XkcdPublish \/ Terminated \/ UNCHANGED vars
           \/ \E d \in Drops : \/ DropAccepted(d) \/ DropRejected(d)
                               \/ DropStep(d) \/ SettleDrop(d)
           \/ \E r \in Requests : Notify(r) \/ Cancel(r)
  BY <1>8, <1>k
  DEF XkcdPublish, Terminated, DropAccepted, DropRejected, DropStep,
      DropTruncate, DropFails, DropAbandons, SettleDrop, Notify, Cancel, vars,
      locals
<1>9. ASSUME NEW u \in Updates,
             \/ UpdateAccepted(u) \/ UpdateRejected(u) \/ UpdateIDs(u)
             \/ DispatchSkip(u) \/ DispatchAbort(u) \/ DispatchDone(u)
      PROVE  PublishedOK'
  BY <1>9, <1>k
  DEF UpdateAccepted, UpdateRejected, UpdateIDs, DispatchSkip, DispatchAbort,
      DispatchDone, locals
<1>10. ASSUME NEW u \in Updates, NEW w \in Workers,
              WorkerExit(u, w) \/ WorkerFetch(u, w)
       PROVE  PublishedOK'
  BY <1>10, <1>k DEF WorkerExit, WorkerFetch
<1> QED
  BY <1>1, <1>2, <1>3, <1>4, <1>5, <1>6, <1>7, <1>8, <1>9, <1>10
  DEF Next, UpdateStep, WorkerStep

\* Nothing that is downloaded, queued or on the wire is newer than xkcd.com's
\* newest comic.
THEOREM OnlyPublished == Spec => []PublishedOK
<1>1. Init => PublishedOK
  BY ConstantsAssumption DEF Init, PublishedOK, IDs
<1>2. TypeInv /\ PublishedOK /\ [Next]_vars => (TypeInv /\ PublishedOK)'
  BY TypeNext, PublishedNext
<1> QED
  BY <1>1, <1>2, TypeInit, PTL DEF Spec

-----------------------------------------------------------------------------
(* The owner of the table.                                                 *)

\* The request in the core is the owner that the readers see, and without one
\* there is none: the CHOOSE of the mapping has one candidate.
LEMMA OwnerIs ==
  ASSUME SingleFlight
  PROVE  /\ \A r \in Requests : pc[r] \in Busy => CoreOwner = r
         /\ (\A r \in Requests : pc[r] \notin Busy) => CoreOwner = None
         /\ CoreOwner # None <=> \E r \in Requests : pc[r] \in Busy
<1>1. ASSUME NEW r \in Requests, pc[r] \in Busy PROVE CoreOwner = r
  BY <1>1 DEF CoreOwner, SingleFlight
<1>2. ASSUME \A r \in Requests : pc[r] \notin Busy PROVE CoreOwner = None
  BY <1>2 DEF CoreOwner
<1> QED
  BY <1>1, <1>2, NoneAssumption

\* The same after a step.
LEMMA OwnerIsNext ==
  ASSUME SingleFlight'
  PROVE  /\ \A r \in Requests : pc'[r] \in Busy => CoreOwner' = r
         /\ (\A r \in Requests : pc'[r] \notin Busy) => CoreOwner' = None
<1>1. ASSUME NEW r \in Requests, pc'[r] \in Busy PROVE CoreOwner' = r
  BY <1>1 DEF CoreOwner, SingleFlight
<1>2. ASSUME \A r \in Requests : pc'[r] \notin Busy PROVE CoreOwner' = None
  BY <1>2 DEF CoreOwner
<1> QED
  BY <1>1, <1>2

\* A step that moves nobody in or out of the core leaves the owner alone.
LEMMA OwnerStays ==
  ASSUME SingleFlight, SingleFlight',
         \A r \in Requests : pc'[r] \in Busy <=> pc[r] \in Busy
  PROVE  CoreOwner' = CoreOwner
<1>1. CASE \E r \in Requests : pc[r] \in Busy
  BY <1>1, OwnerIs, OwnerIsNext
<1>2. CASE \A r \in Requests : pc[r] \notin Busy
  BY <1>2, OwnerIs, OwnerIsNext
<1> QED
  BY <1>1, <1>2

\* A compare-and-swap that succeeds is the step Acquire of the table.
LEMMA AcquireStep ==
  ASSUME SingleFlight, SingleFlight', NEW r \in Requests, ~running,
         pc'[r] \in Busy, UNCHANGED <<xkcdLast, db, raced>>
  PROVE  Table!TableNext
<1>1. CoreOwner = None
  BY OwnerIs DEF SingleFlight
<1>2. CoreOwner' = r
  BY OwnerIsNext
<1> QED
  BY <1>1, <1>2 DEF Table!TableNext, Table!Acquire, Requests

\* A request that leaves the core without a statement, alone or with its
\* process, is the step Release.
LEMMA ReleaseStep ==
  ASSUME SingleFlight, SingleFlight', NEW r \in Requests, pc[r] \in Busy,
         running' = FALSE, UNCHANGED <<xkcdLast, db, raced>>
  PROVE  Table!TableNext
<1>1. CoreOwner # None
  BY OwnerIs
<1>2. CoreOwner' = None
  BY OwnerIsNext DEF SingleFlight
<1> QED
  BY <1>1, <1>2 DEF Table!TableNext, Table!Release

\* A step that touches neither the core's door nor the table is none of the
\* table's.
LEMMA TableUntouched ==
  ASSUME SingleFlight, SingleFlight', UNCHANGED <<xkcdLast, db, raced>>,
         \A r \in Requests : pc'[r] \in Busy <=> pc[r] \in Busy
  PROVE  UNCHANGED Table!tableVars
<1>1. CoreOwner' = CoreOwner
  BY OwnerStays
<1> QED
  BY <1>1 DEF Table!tableVars

-----------------------------------------------------------------------------
(* Every step is a step of the table.                                      *)

RefineInv == IndInv /\ TypeInv /\ PublishedOK

\* Update's own goroutine never writes the table.
LEMMA UpdateRefines ==
  ASSUME RefineInv, RefineInv', NEW u \in Updates,
         UpdateAccepted(u) \/ UpdateRejected(u) \/ UpdateStep(u)
  PROVE  [Table!TableNext]_Table!tableVars
<1>t. /\ SingleFlight /\ SingleFlight' /\ u \in Requests
      /\ pc \in [Requests -> RequestPoints]
  BY DEF RefineInv, IndInv, TypeInv, TypeOK, Requests
<1>1. CASE UpdateAccepted(u)
  <2>1. ~running /\ pc'[u] \in Busy /\ UNCHANGED <<xkcdLast, db, raced>>
    BY <1>1, <1>t DEF UpdateAccepted, Busy, history
  <2> QED
    BY <1>t, <2>1, AcquireStep
<1>2. CASE UpdateFails(u) \/ UpdateReturn(u)
  <2>1. pc[u] \in Busy /\ ~running' /\ UNCHANGED <<xkcdLast, db, raced>>
    BY <1>2 DEF UpdateFails, UpdateReturn, Fail, Succeed, Closed, Busy, history
  <2>2. running' = FALSE
    BY <1>2 DEF UpdateFails, UpdateReturn, Fail, Succeed
  <2> QED
    BY <1>t, <2>1, <2>2, ReleaseStep
<1>3. CASE \/ UpdateRejected(u) \/ UpdateLastID(u) \/ UpdateIDs(u)
           \/ DispatchAbort(u) \/ DispatchDone(u)
           \/ DispatchSkip(u) \/ DispatchSend(u)
  <2>1. UNCHANGED <<xkcdLast, db, raced>>
    BY <1>3 DEF UpdateRejected, UpdateLastID, UpdateIDs, DispatchAbort,
                DispatchDone, DispatchSkip, DispatchSend, history
  <2>2. \A r \in Requests : pc'[r] \in Busy <=> pc[r] \in Busy
    BY <1>3, <1>t
    DEF UpdateRejected, UpdateLastID, UpdateIDs, DispatchAbort, DispatchDone,
        DispatchSkip, DispatchSend, Answer, Busy
  <2> QED
    BY <1>t, <2>1, <2>2, TableUntouched
<1> QED
  BY <1>1, <1>2, <1>3 DEF UpdateStep

\* A worker's upsert adds a published comic that was missing, for the Update
\* that owns the table; nothing else a worker does is visible.
LEMMA WorkerRefines ==
  ASSUME RefineInv, RefineInv', NEW u \in Updates, NEW w \in Workers,
         WorkerStep(u, w)
  PROVE  [Table!TableNext]_Table!tableVars
<1>t. SingleFlight /\ SingleFlight' /\ u \in Requests /\ TypeOK /\ HandsOK
  BY DEF RefineInv, IndInv, TypeInv, Requests
<1>p. UNCHANGED pc
  BY DEF WorkerStep, WorkerReceive, WorkerExit, WorkerFetch, WorkerGivesUp,
         WorkerStore, WorkerAbandons
<1>1. CASE WorkerStore(u, w)
  <2> DEFINE id == wjob[u][w]
             row == wrow[u][w]
  <2>1. id \in IDs /\ row \in Rows /\ id <= xkcdLast
    BY <1>1, <1>t DEF WorkerStore, TypeOK, LocalsTypeOK, HandsOK, IDs,
                      RefineInv, PublishedOK
  <2>2. pc[u] \in Pooling /\ pc[u] \in Busy
    BY <1>1, <1>t DEF WorkerStore, HandsOK, Pooling, Busy
  <2>3. CoreOwner = u /\ CoreOwner' = u
    BY <1>t, <1>p, <2>2, OwnerIs, OwnerIsNext
  <2>4. db[id] = Absent \/ raced
    <3> SUFFICES ASSUME ~raced, db[id] # Absent PROVE FALSE
      OBVIOUS
    <3>1. id \in Present /\ InHand(u, id)
      BY <2>1 DEF Present, InHand
    <3> QED
      BY <2>2, <3>1 DEF RefineInv, IndInv, SnapshotOK, SnapshotOf
  <2>5. db' = [db EXCEPT ![id] = row] /\ UNCHANGED <<xkcdLast, raced>>
    BY <1>1 DEF WorkerStore
  <2>6. Table!AddRow(id, row)
    BY <2>1, <2>3, <2>4, <2>5 DEF Table!AddRow
  <2> QED
    BY <2>1, <2>6 DEF Table!TableNext, Table!IDs, IDs
<1>2. CASE ~WorkerStore(u, w)
  <2>1. UNCHANGED <<xkcdLast, db, raced>>
    BY <1>2 DEF WorkerStep, WorkerReceive, WorkerExit, WorkerFetch,
                WorkerGivesUp, WorkerAbandons, history
  <2> QED
    BY <1>t, <1>p, <2>1, TableUntouched
<1> QED
  BY <1>1, <1>2

\* A Drop empties the table as the last thing it does in the core, or fails.
LEMMA DropRefines ==
  ASSUME RefineInv, RefineInv', NEW d \in Drops,
         DropAccepted(d) \/ DropRejected(d) \/ DropStep(d)
  PROVE  [Table!TableNext]_Table!tableVars
<1>t. /\ SingleFlight /\ SingleFlight' /\ d \in Requests
      /\ pc \in [Requests -> RequestPoints]
  BY DEF RefineInv, IndInv, TypeInv, TypeOK, Requests
<1>1. CASE DropAccepted(d)
  <2>1. ~running /\ pc'[d] \in Busy /\ UNCHANGED <<xkcdLast, db, raced>>
    BY <1>1, <1>t DEF DropAccepted, Busy, history
  <2> QED
    BY <1>t, <2>1, AcquireStep
<1>2. CASE DropRejected(d)
  <2>1. UNCHANGED <<xkcdLast, db, raced>>
    BY <1>2 DEF DropRejected, history
  <2>2. \A r \in Requests : pc'[r] \in Busy <=> pc[r] \in Busy
    BY <1>2, <1>t DEF DropRejected, Answer, Busy
  <2> QED
    BY <1>t, <2>1, <2>2, TableUntouched
<1>3. CASE DropTruncate(d)
  <2>1. pc[d] \in Busy /\ running' = FALSE
    BY <1>3 DEF DropTruncate, Fail, Succeed, Busy
  <2>2. CoreOwner = d /\ CoreOwner' = None
    BY <1>t, <2>1, OwnerIs, OwnerIsNext DEF SingleFlight
  <2> QED
    BY <1>3, <2>2
    DEF DropTruncate, Table!TableNext, Table!Truncate, Table!EmptyTable,
        Table!IDs, IDs
<1>4. CASE DropFails(d) \/ DropAbandons(d)
  <2>1. /\ pc[d] \in Busy /\ running' = FALSE
        /\ UNCHANGED <<xkcdLast, db, raced>>
    BY <1>4 DEF DropFails, DropAbandons, Fail, Busy, history
  <2> QED
    BY <1>t, <2>1, ReleaseStep
<1> QED
  BY <1>1, <1>2, <1>3, <1>4 DEF DropStep

\* A statement that was given up is a LateStatement when Postgres executes it
\* and nothing when it does not.
LEMMA SettleRefines ==
  ASSUME RefineInv, RefineInv',
         \/ \E s \in lateAdds : SettleAdd(s)
         \/ \E d \in Drops : SettleDrop(d)
  PROVE  [Table!TableNext]_Table!tableVars
<1>t. SingleFlight /\ SingleFlight' /\ TypeOK
  BY DEF RefineInv, IndInv
<1>p. UNCHANGED <<pc, xkcdLast>>
  BY DEF SettleAdd, SettleDrop
<1>o. CoreOwner' = CoreOwner
  BY <1>t, <1>p, OwnerStays
<1>1. CASE UNCHANGED <<db, raced>>
  BY <1>t, <1>p, <1>1, TableUntouched
<1>2. ASSUME NEW s \in lateAdds, SettleAdd(s), ~UNCHANGED <<db, raced>>
      PROVE  Table!TableNext
  <2>1. s[2] \in IDs /\ s[3] \in Rows /\ s[2] <= xkcdLast
    BY <1>t DEF TypeOK, RefineInv, PublishedOK
  <2>2. db' = [db EXCEPT ![s[2]] = s[3]] /\ raced' = TRUE
    BY <1>2 DEF SettleAdd
  <2>3. Table!LateStatement
    BY <1>o, <1>p, <2>1, <2>2 DEF Table!LateStatement, Table!IDs, IDs
  <2> QED
    BY <2>3 DEF Table!TableNext
<1>3. ASSUME NEW d \in Drops, SettleDrop(d), ~UNCHANGED <<db, raced>>
      PROVE  Table!TableNext
  <2>1. db' = Table!EmptyTable /\ raced' = TRUE
    BY <1>3 DEF SettleDrop, Table!EmptyTable, Table!IDs, IDs
  <2>2. Table!LateStatement
    BY <1>o, <1>p, <2>1 DEF Table!LateStatement
  <2> QED
    BY <2>2 DEF Table!TableNext
<1> QED
  BY <1>1, <1>2, <1>3

\* A crash takes the owner with it, if there is one, and leaves the rows.
LEMMA CrashRefines ==
  ASSUME RefineInv, RefineInv', Crash
  PROVE  [Table!TableNext]_Table!tableVars
<1>t. SingleFlight /\ SingleFlight'
  BY DEF RefineInv, IndInv
<1>1. running' = FALSE /\ UNCHANGED <<xkcdLast, db, raced>>
  BY DEF Crash, history
<1>2. CASE \E r \in Requests : pc[r] \in Busy
  BY <1>t, <1>1, <1>2, ReleaseStep
<1>3. CASE \A r \in Requests : pc[r] \notin Busy
  <2>1. \A r \in Requests : pc'[r] \notin Busy
    BY <1>t, <1>1 DEF SingleFlight
  <2> QED
    BY <1>t, <1>1, <1>3, <2>1, TableUntouched
<1> QED
  BY <1>2, <1>3

\* Callers, the notifier and xkcd.com.
LEMMA OthersRefine ==
  ASSUME RefineInv, RefineInv',
         \/ \E r \in Requests : Notify(r) \/ Cancel(r)
         \/ XkcdPublish \/ Terminated \/ UNCHANGED vars
  PROVE  [Table!TableNext]_Table!tableVars
<1>t. SingleFlight /\ SingleFlight' /\ pc \in [Requests -> RequestPoints]
  BY DEF RefineInv, IndInv, TypeOK
<1>1. CASE XkcdPublish
  <2>1. CoreOwner' = CoreOwner
    BY <1>t, <1>1, OwnerStays DEF XkcdPublish
  <2> QED
    BY <1>1, <2>1 DEF XkcdPublish, history, Table!TableNext, Table!Publish
<1>2. ASSUME NEW r \in Requests, Notify(r) \/ Cancel(r)
      PROVE  UNCHANGED Table!tableVars
  <2>1. UNCHANGED <<xkcdLast, db, raced>>
    BY <1>2 DEF Notify, Cancel, history
  <2>2. \A s \in Requests : pc'[s] \in Busy <=> pc[s] \in Busy
    BY <1>2, <1>t DEF Notify, Cancel, Answer, Busy
  <2> QED
    BY <1>t, <2>1, <2>2, TableUntouched
<1>3. CASE Terminated \/ UNCHANGED vars
  <2>1. UNCHANGED <<pc, xkcdLast, db, raced>>
    BY <1>3 DEF Terminated, vars, history
  <2> QED
    BY <1>t, <2>1, TableUntouched
<1> QED
  BY <1>1, <1>2, <1>3

\* Every step of the update service is a step of the table or a stutter.
LEMMA StepRefines ==
  RefineInv /\ RefineInv' /\ [Next]_vars => [Table!TableNext]_Table!tableVars
<1> SUFFICES ASSUME RefineInv, RefineInv', [Next]_vars
             PROVE  [Table!TableNext]_Table!tableVars
  OBVIOUS
<1>1. ASSUME NEW u \in Updates,
             UpdateAccepted(u) \/ UpdateRejected(u) \/ UpdateStep(u)
      PROVE  [Table!TableNext]_Table!tableVars
  BY <1>1, UpdateRefines
<1>2. ASSUME NEW u \in Updates, NEW w \in Workers, WorkerStep(u, w)
      PROVE  [Table!TableNext]_Table!tableVars
  BY <1>2, WorkerRefines
<1>3. ASSUME NEW d \in Drops, DropAccepted(d) \/ DropRejected(d) \/ DropStep(d)
      PROVE  [Table!TableNext]_Table!tableVars
  BY <1>3, DropRefines
<1> QED
  BY <1>1, <1>2, <1>3, SettleRefines, CrashRefines, OthersRefine DEF Next

\* The first state of the service is a first state of the table.
LEMMA InitRefines == Init => Table!TableInit
<1> SUFFICES ASSUME Init PROVE Table!TableInit
  OBVIOUS
<1>1. CoreOwner = None
  BY DEF Init, CoreOwner, Busy
<1> QED
  BY <1>1 DEF Init, Table!TableInit, Table!IDs, IDs

\* The update service implements ComicsTable: whatever its calls, workers,
\* cancellations, crashes and late statements do, search, Stats and favorites
\* see a table with one owner at a time to which published, missing comics are
\* added one by one and that a Drop empties at once.
THEOREM ServiceImplementsTable == Spec => ImplementsTable
<1>1. Spec => []TypeInv
  BY TypeInit, TypeNext, PTL DEF Spec
<1>2. Spec => []RefineInv
  BY <1>1, InvariantHolds, OnlyPublished, PTL DEF RefineInv
<1>3. Init /\ [][Next]_vars /\ []RefineInv
      => Table!TableInit /\ [][Table!TableNext]_Table!tableVars
  BY InitRefines, StepRefines, PTL
<1> QED
  BY <1>2, <1>3, PTL DEF Spec, ImplementsTable, Table!TableSpec

-----------------------------------------------------------------------------
(***************************************************************************)
(* The two services together.  A behaviour of HubSpec is one of each of    *)
(* them, so that both keep their invariants; those of SearchIndex are      *)
(* taken from its own proofs.  HubInv is the one fact that relates the     *)
(* two: the last event is as new as the table, unless a request is on      *)
(* record that has changed the table since.                                *)
(***************************************************************************)
Index == INSTANCE SearchIndexProofs
           WITH TableAt <- [v \in 0 .. MaxVer |-> Nothing], Queries <- {}

HubInv ==
  /\ announced \in Nat /\ announced <= ver
  /\ announced = ver \/ unannounced # {}

\* The constants are ones that the proofs of SearchIndex are about.
LEMMA IndexConstants == Index!SearchAssumption
<1> DEFINE T == [v \in 0 .. MaxVer |-> Nothing]
<1>1. DOMAIN T = 0 .. MaxVer
  OBVIOUS
<1>2. 0 \in 0 .. MaxVer
  BY HubAssumption
<1>3. DOMAIN T[0] = {}
  BY <1>2 DEF Nothing
<1> QED
  BY <1>1, <1>3, HubAssumption DEF Index!SearchAssumption, Index!Versions

\* The steps of the search service that its own specification has.
LEMMA SearchSteps ==
  /\ Search!Init => Index!Init
  /\ Search!Change => Index!Next
  /\ Search!Publish => Index!Next
  /\ SearchStep => Index!Next
  /\ UNCHANGED searchVars => UNCHANGED Index!vars
<1>1. Search!Init => Index!Init
  BY DEF Search!Init, Index!Init, Search!Rebuilders, Index!Rebuilders,
         Search!NoSearch, Index!NoSearch
<1>2. Search!Change => Index!Change
  BY DEF Search!Change, Index!Change, Search!index, Index!index,
         Search!rebuild, Index!rebuild, Search!nats, Index!nats
<1>3. Search!Publish => Index!Publish
  BY DEF Search!Publish, Index!Publish, Search!index, Index!index,
         Search!rebuild, Index!rebuild
<1>4. Search!Lose => Index!Lose
  BY DEF Search!Lose, Index!Lose, Search!index, Index!index,
         Search!rebuild, Index!rebuild, Search!PendingBesides,
         Index!PendingBesides
<1>5. Search!Deliver => Index!Deliver
  BY DEF Search!Deliver, Index!Deliver, Search!index, Index!index,
         Search!rebuild, Index!rebuild
<1>6. Search!Subscribe => Index!Subscribe
  BY DEF Search!Subscribe, Index!Subscribe, Search!index, Index!index,
         Search!rebuild, Index!rebuild
<1>7. Search!Receive => Index!Receive
  BY DEF Search!Receive, Index!Receive, Search!index, Index!index
<1>8. Search!Tick => Index!Tick
  BY DEF Search!Tick, Index!Tick, Search!index, Index!index, Search!nats,
         Index!nats
<1>9. ASSUME NEW b \in Search!Rebuilders
      PROVE  /\ b \in Index!Rebuilders
             /\ Search!ReadAll(b) => Index!ReadAll(b)
             /\ Search!ReadFail(b) => Index!ReadFail(b)
             /\ Search!Build(b) => Index!Build(b)
  <2>1. b \in Index!Rebuilders
    BY DEF Search!Rebuilders, Index!Rebuilders
  <2>2. Search!ReadAll(b) => Index!ReadAll(b)
    BY DEF Search!ReadAll, Index!ReadAll, Search!index, Index!index,
           Search!nats, Index!nats
  <2>3. Search!ReadFail(b) => Index!ReadFail(b)
    BY DEF Search!ReadFail, Index!ReadFail, Search!index, Index!index
  <2>4. Search!Build(b) => Index!Build(b)
    BY DEF Search!Build, Index!Build, Search!nats, Index!nats
  <2> QED
    BY <2>1, <2>2, <2>3, <2>4
<1>10. Search!Restart => Index!Restart
  BY DEF Search!Restart, Index!Restart, Search!Rebuilders, Index!Rebuilders,
         Search!NoSearch, Index!NoSearch
<1>11. UNCHANGED searchVars => UNCHANGED Index!vars
  BY DEF searchVars, Index!vars, Index!index, Index!rebuild, Index!nats
<1>12. SearchStep => Index!Next
  BY <1>4, <1>5, <1>6, <1>7, <1>8, <1>9, <1>10 DEF SearchStep, Index!Next
<1> QED
  BY <1>1, <1>2, <1>3, <1>11, <1>12 DEF Index!Next

\* What both services do together is something each of them does.
LEMMA HubSteps ==
  /\ HubInit => Init /\ Index!Init
  /\ [HubNext]_hubVars => [Next]_vars /\ [Index!Next]_(Index!vars)
<1>1. HubInit => Init /\ Index!Init
  BY SearchSteps DEF HubInit
<1>2. ASSUME [HubNext]_hubVars
      PROVE  [Next]_vars /\ [Index!Next]_(Index!vars)
  <2>1. CASE ServiceStep
    BY <2>1, SearchSteps DEF ServiceStep
  <2>2. CASE EventStep
    <3>1. Next
      BY <2>2 DEF EventStep, Published, Next
    <3> QED
      BY <2>2, <3>1, SearchSteps DEF EventStep
  <2>3. CASE SearchStep
    BY <2>3, SearchSteps DEF SearchStep
  <2>4. CASE UNCHANGED hubVars
    BY <2>4, SearchSteps DEF hubVars
  <2> QED
    BY <1>2, <2>1, <2>2, <2>3, <2>4 DEF HubNext
<1> QED
  BY <1>1, <1>2

\* A step that changes the table leaves its request on record, and only an
\* event clears the record.
LEMMA ChangesOnRecord ==
  ASSUME Next
  PROVE  /\ db' # db => unannounced' # {}
         /\ ~Published => unannounced \subseteq unannounced'
<1>1. CASE \E u \in Updates :
             UpdateAccepted(u) \/ UpdateRejected(u) \/ UpdateStep(u)
  <2> PICK u \in Updates : UpdateAccepted(u) \/ UpdateRejected(u) \/ UpdateStep(u)
    BY <1>1
  <2>1. UNCHANGED <<db, unannounced>>
    BY DEF UpdateAccepted, UpdateRejected, UpdateStep, UpdateLastID, UpdateIDs,
           UpdateFails, DispatchSkip, DispatchSend, DispatchAbort, DispatchDone,
           UpdateReturn, history
  <2> QED
    BY <2>1
<1>2. CASE \E u \in Updates : \E w \in Workers : WorkerStep(u, w)
  <2> PICK u \in Updates, w \in Workers : WorkerStep(u, w)
    BY <1>2
  <2>1. CASE WorkerStore(u, w)
    <3>1. unannounced' = unannounced \cup {u}
      BY <2>1 DEF WorkerStore
    <3> QED
      BY <3>1
  <2>2. CASE ~ WorkerStore(u, w)
    <3>1. UNCHANGED <<db, unannounced>>
      BY <2>2
      DEF WorkerStep, WorkerReceive, WorkerExit, WorkerFetch, WorkerGivesUp,
          WorkerAbandons, history
    <3> QED
      BY <3>1
  <2> QED
    BY <2>1, <2>2
<1>3. CASE \E d \in Drops : DropAccepted(d) \/ DropRejected(d) \/ DropStep(d)
  <2> PICK d \in Drops : DropAccepted(d) \/ DropRejected(d) \/ DropStep(d)
    BY <1>3
  <2>1. \/ UNCHANGED <<db, unannounced>>
        \/ unannounced' = unannounced \cup {d}
    BY DEF DropAccepted, DropRejected, DropStep, DropTruncate, DropFails,
           DropAbandons, history
  <2> QED
    BY <2>1
<1>4. CASE \E r \in Requests : Notify(r)
  <2> PICK r \in Requests : Notify(r)
    BY <1>4
  <2>1. db' = db
    BY DEF Notify
  <2>2. CASE pubFailed' = pubFailed
    BY <2>1, <2>2 DEF Published
  <2>3. CASE pubFailed' # pubFailed
    BY <2>1, <2>3 DEF Notify
  <2> QED
    BY <2>2, <2>3
<1>5. CASE \/ \E r \in Requests : Cancel(r)
           \/ XkcdPublish \/ Crash \/ Terminated
  BY <1>5 DEF Cancel, XkcdPublish, Crash, Terminated, vars, history
<1>6. CASE \/ \E s \in lateAdds : SettleAdd(s)
           \/ \E d \in Drops : SettleDrop(d)
  BY <1>6 DEF SettleAdd, SettleDrop
<1> QED
  BY <1>1, <1>2, <1>3, <1>4, <1>5, <1>6 DEF Next

\* Every step of the two keeps HubInv.
LEMMA HubNextInv ==
  HubInv /\ ver \in Nat /\ [HubNext]_hubVars => HubInv'
<1> SUFFICES ASSUME HubInv, ver \in Nat, [HubNext]_hubVars PROVE HubInv'
  OBVIOUS
<1>1. CASE ServiceStep
  <2>1. Next /\ ~Published /\ announced' = announced
    BY <1>1 DEF ServiceStep
  <2>2. CASE db' = db
    <3>1. ver' = ver
      BY <1>1, <2>2 DEF ServiceStep, searchVars
    <3> QED
      BY <2>1, <3>1, ChangesOnRecord DEF HubInv
  <2>3. CASE db' # db
    <3>1. ver' = ver + 1
      BY <1>1, <2>3 DEF ServiceStep, Search!Change
    <3> QED
      BY <2>1, <2>3, <3>1, ChangesOnRecord DEF HubInv
  <2> QED
    BY <2>2, <2>3
<1>2. CASE EventStep
  <2>1. ver' = ver
    BY <1>2 DEF EventStep, Search!Publish, searchVars
  <2> QED
    BY <1>2, <2>1 DEF EventStep, HubInv
<1>3. CASE SearchStep
  <2>1. UNCHANGED <<announced, unannounced>>
    BY <1>3 DEF SearchStep, vars, history
  <2>2. ver' = ver
    BY <1>3 DEF SearchStep, Search!Lose, Search!Deliver, Search!Subscribe,
         Search!Receive, Search!Tick, Search!ReadAll, Search!ReadFail,
         Search!Build, Search!Restart
  <2> QED
    BY <2>1, <2>2 DEF HubInv
<1>4. CASE UNCHANGED hubVars
  BY <1>4 DEF hubVars, vars, history, searchVars, HubInv
<1> QED
  BY <1>1, <1>2, <1>3, <1>4 DEF HubNext

\* Whatever both services do and whatever is lost between them, an Update or a
\* Drop that was announced to the subscriber is in the index that it built
\* last, or will be.
THEOREM UpdatesAreFound == HubSpec => []IndexFollowsTable
<1>1. HubSpec => Spec /\ Index!Spec
  BY HubSteps, PTL DEF HubSpec, Spec, Index!Spec
<1>2. HubSpec => []Index!IndexInv
  BY <1>1, IndexConstants, Index!IndexInvariant, PTL
<1>3. HubSpec => []ChangesAnnounced
  BY <1>1, EventsFollowChanges, PTL
<1>4. Index!IndexInv => ver \in Nat
  BY HubAssumption DEF Index!IndexInv, Index!TypeOK, Index!Versions
<1>5. HubInit => HubInv
  BY DEF HubInit, HubInv, Search!Init
<1>6. HubSpec => []HubInv
  BY <1>2, <1>4, <1>5, HubNextInv, PTL DEF HubSpec
<1>7. HubInv /\ ChangesAnnounced /\ Index!IndexInv => IndexFollowsTable
  <2> SUFFICES ASSUME HubInv, ChangesAnnounced, Index!IndexInv,
                      ~raced, heard = announced, heard > excused,
                      \A r \in unannounced :
                        /\ pc[r] \notin Active
                        /\ reply[r] \notin {"Internal", "Unavailable"}
                        /\ r \notin pubFailed
               PROVE  \/ subBuilt = ver
                      \/ wire > 0 \/ chan > 0
                      \/ rpc["subscriber"] = "read"
                      \/ rpc["subscriber"] = "build" /\ snap["subscriber"] = ver
    BY DEF IndexFollowsTable
  <2>1. unannounced = {}
    BY DEF ChangesAnnounced
  <2>2. heard = ver
    BY <2>1 DEF HubInv
  <2>3. /\ ver \in Nat /\ subBuilt \in Nat /\ excused \in Nat
        /\ "subscriber" \in Index!Rebuilders /\ snap["subscriber"] \in Nat
        /\ subBuilt <= ver /\ snap["subscriber"] <= ver
    BY HubAssumption
    DEF Index!IndexInv, Index!TypeOK, Index!VersionsOK, Index!Versions,
        Index!Rebuilders
  <2> QED
    BY <2>2, <2>3 DEF Index!IndexInv, Index!NewsIsPending
<1> QED
  BY <1>3, <1>2, <1>6, <1>7, PTL
=============================================================================
