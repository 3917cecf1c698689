------------------------- MODULE SearchIndexProofs -------------------------
(***************************************************************************)
(* Safety of the search index for every history of the table, every        *)
(* capacity of the subscriber's channel and every set of queries.          *)
(***************************************************************************)
EXTENDS SearchIndex, TLAPS

-----------------------------------------------------------------------------
(* The inductive invariant.                                                *)

\* Both maps of the index come from one snapshot, and nobody is ahead of the
\* table: not a snapshot, not an event, not a rebuild.  A rebuild of the
\* subscriber never goes back behind its last one.
VersionsOK ==
  /\ tokVer = docVer
  /\ heard <= ver /\ subBuilt <= ver
  /\ \A b \in Rebuilders : snap[b] <= ver
  /\ rpc["subscriber"] = "build" => subBuilt <= snap["subscriber"]

\* Between its two read locks a search holds the matches of the first
\* snapshot.
SearchOK ==
  /\ search.pc = "docs" => search.ids = Matching(search.v1, search.q)
  /\ SearchMatchesBothSnapshots

IndexInv == TypeOK /\ VersionsOK /\ NewsIsPending /\ SearchOK

-----------------------------------------------------------------------------
\* What matches is an id of the table.
LEMMA MatchingType ==
  ASSUME NEW v \in Versions, NEW q
  PROVE  Matching(v, q) \in SUBSET AllIDs
  BY DEF Matching, AllIDs

\* No search is a search.
LEMMA NoSearchType ==
  NoSearch \in [pc : {"idle", "docs", "done"}, q : Queries \cup {{}},
               ids : SUBSET AllIDs, result : SUBSET AllIDs,
               v1 : Versions, v2 : Versions]
<1>1. 0 \in Versions /\ {} \in Queries \cup {{}} /\ {} \in SUBSET AllIDs
  BY SearchAssumption DEF Versions
<1> QED
  BY <1>1 DEF NoSearch

\* The search process starts with an empty index.
LEMMA IndexInit == Init => IndexInv
<1> SUFFICES ASSUME Init PROVE IndexInv
  OBVIOUS
<1>0. 0 \in Versions
  BY SearchAssumption DEF Versions
<1>1. TypeOK
  <2>1. rpc \in [Rebuilders -> {"idle", "read", "build"}]
    BY DEF Init
  <2>2. snap \in [Rebuilders -> Versions]
    BY <1>0 DEF Init
  <2>3. /\ wire \in 0 .. MaxWire /\ chan \in 0 .. ChanCap
        /\ restarts \in 0 .. MaxRestarts
    BY SearchAssumption DEF Init
  <2>4. subscribed \in BOOLEAN
    BY DEF Init
  <2> QED
    BY <1>0, <2>1, <2>2, <2>3, <2>4, NoSearchType DEF Init, TypeOK
<1>2. VersionsOK
  BY DEF Init, VersionsOK, Rebuilders
<1>3. NewsIsPending /\ SearchOK
  BY DEF Init, NewsIsPending, SearchOK, SearchMatchesBothSnapshots, NoSearch
<1> QED
  BY <1>1, <1>2, <1>3 DEF IndexInv

\* Every step keeps the types; the channel never holds more than its capacity.
LEMMA TypeNext == TypeOK /\ [Next]_vars => TypeOK'
<1> SUFFICES ASSUME TypeOK, [Next]_vars PROVE TypeOK'
  OBVIOUS
<1>0. /\ MaxVer \in Nat /\ ChanCap \in Nat \ {0} /\ MaxWire \in Nat
      /\ MaxRestarts \in Nat /\ 0 \in Versions
  BY SearchAssumption DEF Versions
<1> USE DEF index, rebuild, nats
<1>1. CASE Change \/ Publish \/ Lose \/ Deliver
  <2>1. CASE Change
    BY <1>0, <2>1 DEF TypeOK, Change, Versions
  <2>2. CASE Publish
    BY <1>0, <2>2 DEF TypeOK, Publish
  <2>3. CASE Lose
    BY <1>0, <2>3 DEF TypeOK, Lose
  <2>4. CASE Deliver
    BY <1>0, <2>4 DEF TypeOK, Deliver
  <2> QED
    BY <1>1, <2>1, <2>2, <2>3, <2>4
<1>2. CASE Subscribe \/ Receive \/ Tick
  <2>1. CASE Subscribe
    BY <2>1 DEF TypeOK, Subscribe
  <2>2. CASE Receive
    <3>1. chan' \in 0 .. ChanCap
      BY <1>0, <2>2 DEF TypeOK, Receive
    <3> QED
      BY <2>2, <3>1 DEF TypeOK, Receive
  <2>3. CASE Tick
    BY <2>3 DEF TypeOK, Tick
  <2> QED
    BY <1>2, <2>1, <2>2, <2>3
<1>3. ASSUME NEW b \in Rebuilders, ReadAll(b) \/ ReadFail(b) \/ Build(b)
      PROVE  TypeOK'
  BY <1>0, <1>3 DEF TypeOK, ReadAll, ReadFail, Build
<1>4. ASSUME NEW q \in Queries, SearchIds(q) PROVE TypeOK'
  <2>1. Matching(tokVer, q) \in SUBSET AllIDs
    BY MatchingType DEF TypeOK
  <2> QED
    BY <1>4, <2>1 DEF TypeOK, SearchIds
<1>5. CASE SearchDocs
  <2> DEFINE r == {id \in search.ids \cap DOMAIN TableAt[docVer] :
                     TableAt[docVer][id] \cap search.q # {}}
  <2>1. r \in SUBSET AllIDs
    BY DEF TypeOK
  <2> HIDE DEF r
  <2>2. search' = [search EXCEPT !.pc = "done", !.result = r, !.v2 = docVer]
    BY <1>5 DEF SearchDocs, r
  <2> QED
    BY <1>5, <2>1, <2>2 DEF TypeOK, SearchDocs
<1>6. CASE SearchReturn
  BY <1>6, NoSearchType DEF TypeOK, SearchReturn
<1>7. CASE Restart
  <2>1. rpc' \in [Rebuilders -> {"idle", "read", "build"}]
    BY <1>7 DEF Restart
  <2>2. restarts' \in 0 .. MaxRestarts
    BY <1>0, <1>7 DEF TypeOK, Restart
  <2>3. snap' \in [Rebuilders -> Versions] /\ subscribed' \in BOOLEAN
    BY <1>0, <1>7 DEF Restart
  <2>4. wire' \in 0 .. MaxWire /\ chan' \in 0 .. ChanCap
    BY <1>0, <1>7 DEF Restart
  <2> QED
    BY <1>0, <1>7, <2>1, <2>2, <2>3, <2>4, NoSearchType DEF TypeOK, Restart
<1>8. CASE UNCHANGED vars
  BY <1>8 DEF TypeOK, vars
<1> QED
  BY <1>1, <1>2, <1>3, <1>4, <1>5, <1>6, <1>7, <1>8 DEF Next

\* Every step keeps the versions in order.
LEMMA VersionsNext == TypeOK /\ VersionsOK /\ [Next]_vars => VersionsOK'
<1> SUFFICES ASSUME TypeOK, VersionsOK, [Next]_vars PROVE VersionsOK'
  OBVIOUS
<1>0. /\ \A v \in Versions : v \in Nat
      /\ "subscriber" \in Rebuilders /\ MaxVer \in Nat
  BY SearchAssumption DEF Versions, Rebuilders
<1> USE DEF index, rebuild, nats
<1>1. CASE Change
  BY <1>0, <1>1 DEF TypeOK, VersionsOK, Change
<1>2. CASE Publish \/ Lose \/ Deliver \/ Subscribe
  BY <1>0, <1>2 DEF TypeOK, VersionsOK, Publish, Lose, Deliver, Subscribe
<1>3. CASE Receive \/ Tick
  BY <1>0, <1>3 DEF TypeOK, VersionsOK, Receive, Tick
<1>4. ASSUME NEW b \in Rebuilders, ReadAll(b) \/ ReadFail(b) \/ Build(b)
      PROVE  VersionsOK'
  BY <1>0, <1>4 DEF TypeOK, VersionsOK, ReadAll, ReadFail, Build
<1>5. CASE (\E q \in Queries : SearchIds(q)) \/ SearchDocs \/ SearchReturn
  BY <1>5 DEF VersionsOK, SearchIds, SearchDocs, SearchReturn
<1>6. CASE Restart
  BY <1>0, <1>6 DEF TypeOK, VersionsOK, Restart, Rebuilders
<1>7. CASE UNCHANGED vars
  BY <1>7 DEF VersionsOK, vars
<1> QED
  BY <1>1, <1>2, <1>3, <1>4, <1>5, <1>6, <1>7 DEF Next

\* Every step keeps the news pending that is not in the index yet.
LEMMA NewsNext ==
  TypeOK /\ VersionsOK /\ NewsIsPending /\ [Next]_vars => NewsIsPending'
<1> SUFFICES ASSUME TypeOK, VersionsOK, NewsIsPending, [Next]_vars
             PROVE  NewsIsPending'
  OBVIOUS
<1>0. /\ \A v \in Versions : v \in Nat
      /\ "subscriber" \in Rebuilders /\ "initiator" \in Rebuilders
      /\ ChanCap \in Nat \ {0} /\ MaxWire \in Nat
      /\ wire \in Nat /\ chan \in Nat
  BY SearchAssumption DEF Versions, Rebuilders, TypeOK
<1> USE DEF index, rebuild, nats
<1>1. CASE Change \/ Subscribe
  BY <1>1 DEF NewsIsPending, Change, Subscribe
<1>2. CASE Publish
  BY <1>0, <1>2 DEF NewsIsPending, Publish
\* The last event is lost: the version is excused.
<1>3. CASE Lose
  BY <1>0, <1>3 DEF TypeOK, NewsIsPending, Lose, PendingBesides
\* A full channel is not an empty one.
<1>4. CASE Deliver
  <2>1. chan' > 0
    BY <1>0, <1>4 DEF TypeOK, Deliver
  <2> QED
    BY <2>1 DEF NewsIsPending
<1>5. CASE Receive
  BY <1>0, <1>5 DEF TypeOK, NewsIsPending, Receive
<1>6. CASE Tick
  BY <1>0, <1>6 DEF TypeOK, NewsIsPending, Tick
<1>7. ASSUME NEW b \in Rebuilders, b # "subscriber",
             ReadAll(b) \/ ReadFail(b) \/ Build(b)
      PROVE  NewsIsPending'
  BY <1>0, <1>7 DEF TypeOK, NewsIsPending, ReadAll, ReadFail, Build
\* The table is read after the event, and so are all the changes it announces.
<1>8. CASE ReadAll("subscriber")
  <2>1. rpc'["subscriber"] = "build" /\ snap'["subscriber"] >= heard'
    BY <1>0, <1>8 DEF TypeOK, VersionsOK, ReadAll
  <2> QED
    BY <2>1 DEF NewsIsPending
<1>9. CASE ReadFail("subscriber")
  BY <1>0, <1>9 DEF TypeOK, NewsIsPending, ReadFail
\* An event that came after the read is still in the channel or on the wire.
<1>10. CASE Build("subscriber")
  <2>1. /\ rpc["subscriber"] = "build" /\ subBuilt <= snap["subscriber"]
        /\ subBuilt' = snap["subscriber"]
        /\ UNCHANGED <<wire, chan, heard, excused>>
    BY <1>10 DEF VersionsOK, Build
  <2>2. snap["subscriber"] \in Nat /\ heard \in Nat /\ subBuilt \in Nat
    BY <1>0 DEF TypeOK
  <2> QED
    BY <2>1, <2>2 DEF NewsIsPending
<1>11. CASE (\E q \in Queries : SearchIds(q)) \/ SearchDocs \/ SearchReturn
  BY <1>11 DEF NewsIsPending, SearchIds, SearchDocs, SearchReturn
<1>12. CASE Restart
  BY <1>12 DEF NewsIsPending, Restart
<1>13. CASE UNCHANGED vars
  BY <1>13 DEF NewsIsPending, vars
<1> QED
  BY <1>1, <1>2, <1>3, <1>4, <1>5, <1>6, <1>7, <1>8, <1>9, <1>10, <1>11,
     <1>12, <1>13
  DEF Next, Rebuilders

\* Every step keeps the account of a search, a rebuild in its middle included.
LEMMA SearchNext ==
  TypeOK /\ VersionsOK /\ SearchOK /\ [Next]_vars => SearchOK'
<1> SUFFICES ASSUME TypeOK, VersionsOK, SearchOK, [Next]_vars PROVE SearchOK'
  OBVIOUS
<1>1. CASE UNCHANGED search
  BY <1>1 DEF SearchOK, SearchMatchesBothSnapshots, Matching
<1>2. ASSUME NEW q \in Queries, SearchIds(q) PROVE SearchOK'
  <2> DEFINE ids == Matching(docVer, q)
  <2>1. search' = [pc |-> IF ids = {} THEN "done" ELSE "docs",
                   q |-> q, ids |-> ids, result |-> {},
                   v1 |-> docVer, v2 |-> docVer]
    BY <1>2 DEF SearchIds, VersionsOK
  <2>2. /\ search'.q = q /\ search'.ids = ids /\ search'.result = {}
        /\ search'.v1 = docVer /\ search'.v2 = docVer
        /\ search'.pc = "done" => ids = {}
    BY <2>1
  <2>3. Matching(search'.v1, search'.q) = ids
        /\ Matching(search'.v2, search'.q) = ids
    BY <2>2
  <2>4. search'.pc = "done" =>
          search'.result = Matching(search'.v1, search'.q) \cap
                           Matching(search'.v2, search'.q)
    BY <2>2, <2>3
  <2> QED
    BY <2>2, <2>3, <2>4 DEF SearchOK, SearchMatchesBothSnapshots, Matching
<1>3. CASE SearchDocs
  <2> DEFINE r == {id \in search.ids \cap DOMAIN TableAt[docVer] :
                     TableAt[docVer][id] \cap search.q # {}}
  <2>1. r = search.ids \cap Matching(docVer, search.q)
    BY DEF Matching
  <2> HIDE DEF r
  <2>2. search' = [search EXCEPT !.pc = "done", !.result = r, !.v2 = docVer]
    BY <1>3 DEF SearchDocs, r
  <2>3. /\ search'.pc = "done" /\ search'.q = search.q /\ search'.result = r
        /\ search'.v1 = search.v1 /\ search'.v2 = docVer
    BY <2>2 DEF TypeOK
  <2>4. search.ids = Matching(search.v1, search.q)
    BY <1>3 DEF SearchDocs, SearchOK
  <2>5. search'.result = Matching(search'.v1, search'.q) \cap
                         Matching(search'.v2, search'.q)
    BY <2>1, <2>3, <2>4
  <2> QED
    BY <2>3, <2>5 DEF SearchOK, SearchMatchesBothSnapshots, Matching
<1>4. CASE SearchReturn \/ Restart
  BY <1>4
  DEF SearchReturn, Restart, NoSearch, SearchOK, SearchMatchesBothSnapshots
<1> QED
  BY <1>1, <1>2, <1>3, <1>4
  DEF Next, vars, Change, Publish, Lose, Deliver, Subscribe, Receive, Tick,
      ReadAll, ReadFail, Build

-----------------------------------------------------------------------------
(* The theorems.                                                           *)

\* The invariant holds in every state.
THEOREM IndexInvariant == Spec => []IndexInv
<1>1. IndexInv /\ [Next]_vars => IndexInv'
  BY TypeNext, VersionsNext, NewsNext, SearchNext DEF IndexInv
<1> QED
  BY <1>1, IndexInit, PTL DEF Spec

\* Every variable of the search index keeps its type.
THEOREM IndexTypes == Spec => []TypeOK
<1>1. IndexInv => TypeOK
  BY DEF IndexInv
<1> QED
  BY <1>1, IndexInvariant, PTL

\* No capacity of the channel, however small, loses news: what was announced
\* is built, being built, or an event is pending that makes the subscriber
\* read the table again.
THEOREM NoNewsLost == Spec => []NewsIsPending
<1>1. IndexInv => NewsIsPending
  BY DEF IndexInv
<1> QED
  BY <1>1, IndexInvariant, PTL

\* A search that rebuilds overtake returns what matches in both snapshots,
\* whatever the table has gone through.
THEOREM SearchIsExact == Spec => []SearchMatchesBothSnapshots
<1>1. IndexInv => SearchMatchesBothSnapshots
  BY DEF IndexInv, SearchOK
<1> QED
  BY <1>1, IndexInvariant, PTL
=============================================================================
