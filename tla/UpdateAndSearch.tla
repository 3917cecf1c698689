-------------------------- MODULE UpdateAndSearch --------------------------
(***************************************************************************)
(* The update service and the search service together: the table that one  *)
(* writes is the one that the other reads, and the event that one          *)
(* publishes is the one that the other waits for (update/main.go,          *)
(* search/main.go: the same Postgres, the same NATS subject).              *)
(*                                                                         *)
(* Each step is one of UpdateService, one of SearchIndex, or one of both:  *)
(* a change of the table is Change, a successful notification is Publish.  *)
(* IndexedSearch, which only reads the index, is left to SearchIndex, and  *)
(* with it what the versions of the table hold.                            *)
(***************************************************************************)
EXTENDS UpdateService

CONSTANTS MaxVer, ChanCap, MaxWire, MaxRestarts   \* those of SearchIndex

ASSUME HubAssumption ==
  /\ MaxVer \in Nat
  /\ ChanCap \in Nat \ {0}
  /\ MaxWire \in Nat
  /\ MaxRestarts \in Nat

VARIABLES
  ver, tokVer, docVer, rpc, snap, subscribed, wire, chan, search, restarts,
  heard, excused, subBuilt,   \* those of SearchIndex
  announced                   \* history: version at the last event published

Nothing == [id \in {} |-> {}]

Search == INSTANCE SearchIndex
            WITH TableAt <- [v \in 0 .. MaxVer |-> Nothing], Queries <- {}

searchVars == <<ver, tokVer, docVer, rpc, snap, subscribed, wire, chan, search,
                restarts, heard, excused, subBuilt>>
hubVars == <<vars, searchVars, announced>>

\* Both processes start on the table that the migrations created.
HubInit ==
  /\ Init
  /\ db = [id \in IDs |-> Absent]
  /\ Search!Init
  /\ announced = 0

\* The server of the update service publishes its event.
Published == \E r \in Requests : Notify(r) /\ pubFailed' = pubFailed

\* A step of the update service that the search service does not hear of: the
\* table changes without a word.
ServiceStep ==
  /\ Next
  /\ ~Published
  /\ IF db' = db THEN UNCHANGED searchVars ELSE Search!Change
  /\ UNCHANGED announced

\* Core NATS keeps nothing for a subscriber that is not there.
EventStep ==
  /\ Published
  /\ IF subscribed THEN Search!Publish ELSE UNCHANGED searchVars
  /\ announced' = ver

\* A step of NATS or of the search service.
SearchStep ==
  /\ \/ Search!Lose \/ Search!Deliver
     \/ Search!Subscribe \/ Search!Receive \/ Search!Tick
     \/ \E b \in Search!Rebuilders :
          Search!ReadAll(b) \/ Search!ReadFail(b) \/ Search!Build(b)
     \/ Search!Restart
  /\ UNCHANGED <<vars, announced>>

HubNext == ServiceStep \/ EventStep \/ SearchStep

HubSpec == HubInit /\ [][HubNext]_hubVars

-----------------------------------------------------------------------------
(* Properties.                                                             *)

\* What an Update or a Drop did is found: with no other excuse on the side of
\* the update service than those of ChangesAnnounced, for a request that
\* changed the table since the last event, and none on the side of the search
\* service than that the event came while it was away, was lost, or its
\* rebuild failed, the subscriber has built the table as it is now, or will
\* read it, or holds a snapshot of it.  This takes both halves: wg.Wait before
\* the event, or a worker stores a comic that no rebuild will see, and one
\* rebuild per event, or the last one is skipped (service.go:140-159,
\* grpc/server.go:50-64, subscriber.go:55-74).
IndexFollowsTable ==
  /\ ~raced
  /\ \A r \in unannounced :
       /\ pc[r] \notin Active
       /\ reply[r] \notin {"Internal", "Unavailable"}
       /\ r \notin pubFailed
  /\ heard = announced
  /\ heard > excused
  => \/ subBuilt = ver
     \/ wire > 0 \/ chan > 0
     \/ rpc["subscriber"] = "read"
     \/ rpc["subscriber"] = "build" /\ snap["subscriber"] = ver
=============================================================================
