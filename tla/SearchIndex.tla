---------------------------- MODULE SearchIndex ----------------------------
(***************************************************************************)
(* The inverted index of the search microservice and everything that       *)
(* rebuilds it: InvertedIndex (search/core/index.go), RebuildIndex and     *)
(* IndexedSearch (search/core/service.go), the NATS subscriber             *)
(* (adapters/broker/subscriber.go), the periodic initiator                 *)
(* (adapters/initiator/indexer.go) and the start-up order of main.go.      *)
(*                                                                         *)
(* The comics table is owned by the update service.  It goes through the   *)
(* versions 0, 1, 2, ...; TableAt says what each holds: a function from    *)
(* the ids present to the set of tokens of the comic (title, alt and words *)
(* together).  A snapshot is then a version, and the two maps of the index *)
(* are the versions they were built from.                                  *)
(*                                                                         *)
(* External: Postgres (a SELECT is atomic and can fail) and core NATS (at  *)
(* most once: nothing is kept for a client that is not subscribed, a       *)
(* message can be lost on a reconnect, and ChanSubscribe drops a message   *)
(* for which the Go channel has no room).                                  *)
(***************************************************************************)
EXTENDS Integers, FiniteSets

CONSTANTS
  MaxVer,       \* bound on the number of changes of the table
  TableAt,      \* what the table holds at each version
  Queries,      \* the token sets that are searched for
  ChanCap,      \* capacity of the subscriber's channel (10 in the code)
  MaxWire,      \* bound on the events under way at once
  MaxRestarts   \* bound on the restarts of the search process

Versions == 0 .. MaxVer

ASSUME SearchAssumption ==
  /\ MaxVer \in Nat
  /\ DOMAIN TableAt = Versions
  /\ DOMAIN TableAt[0] = {}            \* migrations create an empty table
  /\ ChanCap \in Nat \ {0}
  /\ MaxWire \in Nat
  /\ MaxRestarts \in Nat

\* The two goroutines that call RebuildIndex.
Rebuilders == {"initiator", "subscriber"}

VARIABLES
  ver,          \* version of the comics table
  tokVer,       \* version index.byToken was built from
  docVer,       \* version index.docs was built from
  rpc,          \* where each rebuilder is
  snap,         \* the version RebuildIndex read from the database
  subscribed,   \* the NATS subscription exists
  wire,         \* number of events between the publisher and the channel
  chan,         \* number of events in the subscriber's channel
  search,       \* an IndexedSearch under way
  restarts,     \* restarts so far
  \* history variables
  heard,        \* version at the last event published to the subscriber
  excused,      \* version whose only event was lost or whose rebuild failed
  subBuilt      \* version of the last rebuild by the subscriber

index == <<tokVer, docVer>>
rebuild == <<rpc, snap, subBuilt>>
nats == <<subscribed, wire, chan, heard, excused>>
vars == <<ver, index, rebuild, nats, search, restarts>>

\* The comics of a version that contain a token of the query.
Matching(v, q) == {id \in DOMAIN TableAt[v] : TableAt[v][id] \cap q # {}}

\* q: the query; ids, result: what the two sections returned; v1, v2 (history):
\* the snapshot that was installed in each of them.
NoSearch == [pc |-> "idle", q |-> {}, ids |-> {}, result |-> {},
             v1 |-> 0, v2 |-> 0]

Init ==
  /\ ver = 0
  /\ tokVer = 0 /\ docVer = 0
  /\ rpc = [b \in Rebuilders |-> IF b = "initiator" THEN "read" ELSE "idle"]
  /\ snap = [b \in Rebuilders |-> 0]
  /\ subscribed = FALSE
  /\ wire = 0 /\ chan = 0
  /\ search = NoSearch
  /\ restarts = 0
  /\ heard = 0 /\ excused = 0 /\ subBuilt = 0

-----------------------------------------------------------------------------
(* The update service and NATS.                                            *)

Change ==
  /\ ver < MaxVer
  /\ ver' = ver + 1
  /\ UNCHANGED <<index, rebuild, nats, search, restarts>>

\* An event is published after a successful Update or Drop, whether it changed
\* the table or not.  Only a subscribed client gets it.
Publish ==
  /\ subscribed
  /\ wire < MaxWire
  /\ wire' = wire + 1
  /\ heard' = ver
  /\ UNCHANGED <<ver, index, rebuild, subscribed, chan, excused, search,
                 restarts>>

\* Another event is on its way or waiting, or the table is about to be read.
PendingBesides(w, c) == w > 0 \/ c > 0 \/ rpc["subscriber"] = "read"

\* The connection loses an event.
Lose ==
  /\ wire > 0
  /\ wire' = wire - 1
  /\ excused' = IF PendingBesides(wire - 1, chan) THEN excused ELSE heard
  /\ UNCHANGED <<ver, index, rebuild, subscribed, chan, heard, search,
                 restarts>>

\* Mutant of Deliver: the channel is not bounded.
DeliverAlways ==
  /\ wire > 0
  /\ wire' = wire - 1
  /\ chan' = chan + 1
  /\ UNCHANGED <<ver, index, rebuild, subscribed, heard, excused, search,
                 restarts>>

\* The client library hands an event to the channel, or drops it if full.
Deliver ==
  /\ wire > 0
  /\ wire' = wire - 1
  /\ chan' = IF chan < ChanCap THEN chan + 1 ELSE chan
  /\ UNCHANGED <<ver, index, rebuild, subscribed, heard, excused, search,
                 restarts>>

-----------------------------------------------------------------------------
(* The subscriber and the initiator.                                       *)

\* main.go: the subscription is made after the initiator was started.
Subscribe ==
  /\ ~subscribed
  /\ subscribed' = TRUE
  /\ UNCHANGED <<ver, index, rebuild, wire, chan, heard, excused, search,
                 restarts>>

\* Mutant of Receive: the events that piled up are drained and only logged.
ReceiveDrain ==
  /\ rpc["subscriber"] = "idle"
  /\ chan > 0
  /\ chan' = 0
  /\ rpc' = [rpc EXCEPT !["subscriber"] = IF chan > 1 THEN "idle" ELSE "read"]
  /\ UNCHANGED <<ver, index, snap, subBuilt, subscribed, wire, heard, excused,
                 search, restarts>>

\* case msg := <-ch: RebuildIndex is called.
Receive ==
  /\ rpc["subscriber"] = "idle"
  /\ chan > 0
  /\ chan' = chan - 1
  /\ rpc' = [rpc EXCEPT !["subscriber"] = "read"]
  /\ UNCHANGED <<ver, index, snap, subBuilt, subscribed, wire, heard, excused,
                 search, restarts>>

\* case <-ticker.C: RebuildIndex is called.
Tick ==
  /\ rpc["initiator"] = "idle"
  /\ rpc' = [rpc EXCEPT !["initiator"] = "read"]
  /\ UNCHANGED <<ver, index, snap, subBuilt, nats, search, restarts>>

\* RebuildIndex: db.All ...
ReadAll(b) ==
  /\ rpc[b] = "read"
  /\ snap' = [snap EXCEPT ![b] = ver]
  /\ rpc' = [rpc EXCEPT ![b] = "build"]
  /\ UNCHANGED <<ver, index, subBuilt, nats, search, restarts>>

\* Mutant of ReadFail: the caller's loop returns on an error.
ReadFailStops(b) ==
  /\ rpc[b] = "read"
  /\ rpc' = [rpc EXCEPT ![b] = "stopped"]
  /\ excused' = IF b = "subscriber" /\ wire = 0 /\ chan = 0
                THEN heard ELSE excused
  /\ UNCHANGED <<ver, index, snap, subBuilt, subscribed, wire, chan, heard,
                 search, restarts>>

\* ... whose error is logged, and the event is gone ...
ReadFail(b) ==
  /\ rpc[b] = "read"
  /\ rpc' = [rpc EXCEPT ![b] = "idle"]
  /\ excused' = IF b = "subscriber" /\ wire = 0 /\ chan = 0
                THEN heard ELSE excused
  /\ UNCHANGED <<ver, index, snap, subBuilt, subscribed, wire, chan, heard,
                 search, restarts>>

\* Mutant of Build: byToken is left as it was.
BuildDocsOnly(b) ==
  /\ rpc[b] = "build"
  /\ docVer' = snap[b]
  /\ rpc' = [rpc EXCEPT ![b] = "idle"]
  /\ snap' = [snap EXCEPT ![b] = 0]
  /\ subBuilt' = IF b = "subscriber" THEN snap[b] ELSE subBuilt
  /\ UNCHANGED <<ver, tokVer, nats, search, restarts>>

\* ... then Build: both maps are made aside and swapped in under the lock.
Build(b) ==
  /\ rpc[b] = "build"
  /\ tokVer' = snap[b]
  /\ docVer' = snap[b]
  /\ rpc' = [rpc EXCEPT ![b] = "idle"]
  /\ snap' = [snap EXCEPT ![b] = 0]
  /\ subBuilt' = IF b = "subscriber" THEN snap[b] ELSE subBuilt
  /\ UNCHANGED <<ver, nats, search, restarts>>

-----------------------------------------------------------------------------
(* IndexedSearch, which takes the read lock twice.                         *)

\* DocsForTokens; an empty answer ends the search.
SearchIds(q) ==
  /\ search.pc = "idle"
  /\ LET ids == Matching(tokVer, q) IN
     search' = [pc |-> IF ids = {} THEN "done" ELSE "docs",
                q |-> q, ids |-> ids, result |-> {},
                v1 |-> docVer, v2 |-> docVer]
  /\ UNCHANGED <<ver, index, rebuild, nats, restarts>>

\* DocsByIDs leaves out ids that are gone; rangComics those with no score.
SearchDocs ==
  /\ search.pc = "docs"
  /\ search' = [search EXCEPT
                  !.pc = "done",
                  !.result = {id \in search.ids \cap DOMAIN TableAt[docVer] :
                                TableAt[docVer][id] \cap search.q # {}},
                  !.v2 = docVer]
  /\ UNCHANGED <<ver, index, rebuild, nats, restarts>>

SearchReturn ==
  /\ search.pc = "done"
  /\ search' = NoSearch
  /\ UNCHANGED <<ver, index, rebuild, nats, restarts>>

\* The process is restarted: an empty index, no subscription, and the
\* initiator's first rebuild.
Restart ==
  /\ restarts < MaxRestarts
  /\ restarts' = restarts + 1
  /\ tokVer' = 0 /\ docVer' = 0
  /\ rpc' = [b \in Rebuilders |-> IF b = "initiator" THEN "read" ELSE "idle"]
  /\ snap' = [b \in Rebuilders |-> 0]
  /\ subscribed' = FALSE
  /\ wire' = 0 /\ chan' = 0
  /\ search' = NoSearch
  /\ heard' = 0 /\ excused' = 0 /\ subBuilt' = 0
  /\ UNCHANGED ver

-----------------------------------------------------------------------------
Next ==
  \/ Change \/ Publish \/ Lose \/ Deliver
  \/ Subscribe \/ Receive \/ Tick
  \/ \E b \in Rebuilders : ReadAll(b) \/ ReadFail(b) \/ Build(b)
  \/ \E q \in Queries : SearchIds(q)
  \/ SearchDocs \/ SearchReturn
  \/ Restart

Spec == Init /\ [][Next]_vars

\* The goroutines of the service run and NATS delivers what it does not lose;
\* a database that is asked again and again answers in the end (strong
\* fairness: ReadFail may come any number of times in between).
SubscriberFairness ==
  /\ WF_vars(Subscribe) /\ WF_vars(Deliver) /\ WF_vars(Receive)
  /\ WF_vars(ReadAll("subscriber") \/ ReadFail("subscriber"))
  /\ SF_vars(ReadAll("subscriber")) /\ WF_vars(Build("subscriber"))

\* The ticker of the initiator never stops.
InitiatorFairness ==
  /\ WF_vars(Tick)
  /\ SF_vars(ReadAll("initiator")) /\ WF_vars(Build("initiator"))

EventSpec == Spec /\ SubscriberFairness

-----------------------------------------------------------------------------
(* Properties.                                                             *)

\* Every id that any version of the table holds.
AllIDs == UNION {DOMAIN TableAt[v] : v \in Versions}

\* Every variable of the search index keeps its type.
TypeOK ==
  /\ ver \in Versions
  /\ tokVer \in Versions /\ docVer \in Versions
  /\ rpc \in [Rebuilders -> {"idle", "read", "build"}]
  /\ snap \in [Rebuilders -> Versions]
  /\ subscribed \in BOOLEAN
  /\ wire \in 0 .. MaxWire
  /\ chan \in 0 .. ChanCap
  /\ search \in [pc : {"idle", "docs", "done"}, q : Queries \cup {{}},
                 ids : SUBSET AllIDs, result : SUBSET AllIDs,
                 v1 : Versions, v2 : Versions]
  /\ restarts \in 0 .. MaxRestarts
  /\ heard \in Versions /\ excused \in Versions /\ subBuilt \in Versions

\* A full channel loses events but never news: whatever was announced to the
\* subscriber is in a rebuild that it has finished or is about to swap in, or
\* an event is still pending that will make it read the table again.  The
\* exceptions are the last event lost by the network and the last rebuild
\* failed (subscriber.go:40-73).
NewsIsPending ==
  heard > subBuilt /\ heard > excused =>
    \/ wire > 0 \/ chan > 0
    \/ rpc["subscriber"] = "read"
    \/ rpc["subscriber"] = "build" /\ snap["subscriber"] >= heard

\* An IndexedSearch that a rebuild overtakes between its two read locks
\* returns exactly the comics that match in both snapshots: none that the new
\* snapshot says does not match, and none is missed that both have
\* (service.go:103-112, index.go:51-93).
SearchMatchesBothSnapshots ==
  search.pc = "done" =>
    search.result = Matching(search.v1, search.q) \cap
                    Matching(search.v2, search.q)

\* What was announced to the subscriber reaches the index through it, without
\* the help of the ticker, unless its event or its rebuild failed or the
\* process was restarted (subscriber.go:55-74).
HeardIsBuilt ==
  \A v \in Versions :
    heard >= v ~> (subBuilt >= v \/ excused >= v \/ heard < v)

\* When the table stops changing the index ends up equal to it, whatever was
\* lost, failed, overwritten or restarted before: the ticker repairs it,
\* as long as its goroutine runs and its reads do not fail for ever
\* (indexer.go:31-50).
IndexConverges ==
  InitiatorFairness => <>[](docVer = ver /\ tokVer = ver)
=============================================================================
