-------------------------- MODULE ApiGatewayProofs --------------------------
(***************************************************************************)
(* Safety of the api for any number of requests under way and of slots:    *)
(* the limiters, the shutdown, and the errors that users read.             *)
(***************************************************************************)
EXTENDS ApiGateway, FiniteSetTheorems, SequenceTheorems, TLAPS

-----------------------------------------------------------------------------
(* The inductive invariant.                                                *)

AllOps == UpdateOps \cup SearchOps \cup AuthOps \cup FavoritesOps \cup Pinged

\* The calls of a handler, the second one of an add included.
CallsOf(route) ==
  FirstCalls(route) \cup IF route = "favadd" THEN {"Add"} ELSE {}

Answers == {200, 202, 204, 400, 401, 404, 409, 500, 503}

Blameable == {"ErrEmptyPhrase", "ErrBadArguments", "ErrToLargeLimit",
              "ErrComicNotFound", "ErrUserAlreadyExists",
              "ErrInvalidEmail", "ErrInvalidCredentials",
              "ErrInvalidArgs", "ErrAlreadyExists", "ErrNotFound",
              "ErrNonePhrase"}
Errors == Blameable \cup {"nil", "other", "ErrUnavailable", "lost", "none",
                          "busy", "unauthorized", "invalid", "login", "panic",
                          "cut"}

RequestRecords ==
  [pc : {"done", "arrived", "waiting", "handler", "calling"},
   route : AllRoutes \cup {"none"}, token : {"none", "user", "admin"},
   gone : BOOLEAN, calls : SUBSET Pinged, op : AllOps \cup {"none"},
   err : Errors, status : {0, 1, 2} \cup Answers]

\* What a request has in its hands at each stage.
Stage(q) ==
  /\ q.pc # "done" => q.route \in AllRoutes /\ q.status = 0
  /\ q.pc \in {"arrived", "waiting", "handler"} =>
       q.op = "none" /\ q.calls = {}
  /\ q.pc = "waiting" => q.route = "isearch"
  /\ q.pc = "calling" =>
       /\ q.route # "login" /\ q.op \in CallsOf(q.route)
       /\ q.calls # {} => q.route = "ping"

\* A request that ended, as in BlameIsRight.
Excepted(op, err) == \/ err = "ErrAlreadyExists" /\ op \in {"Update", "Drop"}
                     \/ err = "ErrBadArguments" /\ op = "GetComic"
                     \/ err = "ErrNonePhrase"
Fair(op, err, status) ==
  /\ status \in {200, 204} <=> err = "nil"
  /\ status \in 400 .. 499 <=> (err \in Blameable /\ ~ Excepted(op, err))
  /\ status = 503 <=> err \in {"lost", "ErrUnavailable"}
  /\ status = 202 => err = "ErrAlreadyExists" /\ op = "Update"
Blamed(q) ==
  q.pc = "done" /\ q.op # "none" /\ q.err \notin {"panic", "cut"}
    /\ q.route # "ping" => Fair(q.op, q.err, q.status)

RequestOK(q) == q \in RequestRecords /\ Stage(q) /\ Blamed(q)

RequestsInv ==
  /\ req \in [Requests -> RequestRecords]
  /\ \A r \in Requests : RequestOK(req[r])

\* The queue of the rate limiter holds waiting requests, each once.
QueueInv ==
  /\ waiting \in Seq(Requests)
  /\ \A i \in DOMAIN waiting : req[waiting[i]].pc = "waiting"
  /\ \A i, j \in DOMAIN waiting : waiting[i] = waiting[j] => i = j

\* Nothing is under way in a process that ended, or that closes its clients
\* before the grace is over, and nothing of the public server once it is
\* drained.
ProcessInv ==
  /\ server \in {"up", "draining", "drained", "closing", "stopped"}
  /\ server = "drained" =>
       \A r \in Requests : Busy(r) => req[r].route \in Internal
  /\ server = "stopped" \/ (server = "closing" /\ ~ graceOver) =>
       \A r \in Requests : ~ Busy(r)

GatewayInv ==
  RequestsInv /\ QueueInv /\ ProcessInv /\ SlotsAreHandlers
    /\ CutOnlyAfterGrace

-----------------------------------------------------------------------------
(* The tables.                                                             *)

\* Which routes make which calls.
LEMMA Partition ==
  /\ \A route \in OfUpdate : CallsOf(route) \subseteq UpdateOps
  /\ \A route \in Searches \cup Comics : CallsOf(route) \subseteq SearchOps
  /\ \A route \in OfAuth : CallsOf(route) \subseteq AuthOps
  /\ \A route \in OfFavorites :
       CallsOf(route) \subseteq FavoritesOps \cup {"GetComic"}
  /\ CallsOf("ping") = Pinged
<1>1. \A route \in OfUpdate : CallsOf(route) \subseteq UpdateOps
  BY DEF CallsOf, FirstCalls, OfUpdate, UpdateOps
<1>2. \A route \in Searches \cup Comics : CallsOf(route) \subseteq SearchOps
  BY DEF CallsOf, FirstCalls, Searches, Comics, SearchOps
<1>3. \A route \in OfAuth : CallsOf(route) \subseteq AuthOps
  BY DEF CallsOf, FirstCalls, OfAuth, AuthOps
<1>4. \A route \in OfFavorites :
        CallsOf(route) \subseteq FavoritesOps \cup {"GetComic"}
  BY DEF CallsOf, FirstCalls, OfFavorites, FavoritesOps
<1>5. CallsOf("ping") = Pinged
  BY DEF CallsOf, FirstCalls
<1> QED
  BY <1>1, <1>2, <1>3, <1>4, <1>5

\* How a call may have ended.
Ended(op, err, code) ==
  \/ err \in ServiceErrors(op) /\ code = ServerCode(op, err)
  \/ err = "lost" /\ code \in NoAnswer

Told(route, op, code) == HandlerStatus(route, op, ClientError(op, code))

\* What a service may return has one of the names.
LEMMA ErrorsAreNamed == \A op : ServiceErrors(op) \subseteq Errors
<1> SUFFICES ASSUME NEW op PROVE NamedErrors(op) \subseteq Errors
  BY DEF ServiceErrors, Errors
<1> QED
  BY DEF NamedErrors, Errors, Blameable

\* The three translations of the update service's errors.
LEMMA UpdateTable ==
  ASSUME NEW route \in OfUpdate, NEW op \in CallsOf(route),
         NEW err, NEW code, Ended(op, err, code)
  PROVE  /\ Told(route, op, code) \in Answers
         /\ Fair(op, err, Told(route, op, code))
<1>1. op \in UpdateOps /\ op \notin Pinged
  BY Partition, GatewayAssumption
<1>2. /\ ServerCode(op, err) = UpdateServer(op, err)
      /\ ClientError(op, code) = UpdateClient(op, code)
  BY <1>1 DEF ServerCode, ClientError, UpdateOps, SearchOps, AuthOps,
              FavoritesOps
<1>3. \A e : HandlerStatus(route, op, e) = UpdateHandlers(route, e)
  BY DEF HandlerStatus, OfUpdate, Searches, Comics, OfAuth, OfFavorites
<1>4. op = "Update" <=> route = "update"
  BY DEF CallsOf, FirstCalls, OfUpdate
<1>5. NamedErrors(op) \subseteq {"ErrAlreadyExists"}
  BY <1>1 DEF NamedErrors, UpdateOps
<1>6. "ErrAlreadyExists" \in NamedErrors(op) => op \in {"Update", "Drop"}
  BY <1>1 DEF NamedErrors, UpdateOps
<1>7. \/ err = "nil" /\ code = "OK"
      \/ err = "other" /\ code = "Internal"
      \/ err = "lost" /\ code \in NoAnswer
      \/ err = "ErrAlreadyExists" /\ op = "Update" /\ code = "AlreadyExists"
      \/ err = "ErrAlreadyExists" /\ op = "Drop" /\ code = "Internal"
  BY <1>2, <1>5, <1>6 DEF Ended, ServiceErrors, UpdateServer
<1>8. \/ err = "nil" /\ Told(route, op, code) = 200
      \/ err = "other" /\ Told(route, op, code) = 500
      \/ err = "lost" /\ Told(route, op, code) = 503
      \/ /\ err = "ErrAlreadyExists" /\ op = "Update"
         /\ Told(route, op, code) = 202
      \/ /\ err = "ErrAlreadyExists" /\ op = "Drop"
         /\ Told(route, op, code) = 500
  BY <1>2, <1>3, <1>4, <1>7 DEF Told, UpdateClient, UpdateHandlers, NoAnswer
<1> QED
  BY <1>8 DEF Answers, Fair, Blameable, Excepted

\* The search service's, for searches and comics.
LEMMA SearchTable ==
  ASSUME NEW route \in Searches \cup Comics, NEW op \in CallsOf(route),
         NEW err, NEW code, Ended(op, err, code)
  PROVE  /\ Told(route, op, code) \in Answers
         /\ Fair(op, err, Told(route, op, code))
<1>1. op \in SearchOps /\ op \notin Pinged
  BY Partition, GatewayAssumption
<1>2. /\ ServerCode(op, err) = SearchServer(op, err)
      /\ ClientError(op, code) = SearchClient(op, code)
  BY <1>1 DEF ServerCode, ClientError, UpdateOps, SearchOps, AuthOps,
              FavoritesOps
<1>3. \A e : HandlerStatus(route, op, e) =
               IF route \in Searches THEN SearchHandlers(route, e)
                                     ELSE ComicsHandlers(route, e)
  BY DEF HandlerStatus, OfUpdate, Searches, Comics, OfAuth, OfFavorites
<1>4. \/ route \in Searches /\ op \in {"Find", "IndexedSearch"}
      \/ route = "comic" /\ op = "GetComic"
      \/ route = "comics" /\ op = "ListComics"
      \/ route = "random" /\ op = "RandomComic"
  BY DEF CallsOf, FirstCalls, Searches, Comics
<1>5. route \in Searches => route \notin {"comic", "comics", "random"}
  BY DEF Searches
<1>6. CASE route \in Searches
  <2> DEFINE bad == {"ErrEmptyPhrase", "ErrBadArguments", "ErrToLargeLimit"}
  <2>1. op \in {"Find", "IndexedSearch"}
    BY <1>4, <1>5, <1>6
  <2>2. NamedErrors(op) = bad \cup {"ErrUnavailable", "ErrNonePhrase"}
    BY <2>1 DEF NamedErrors
  <2>3. \/ err = "nil" /\ code = "OK"
        \/ err = "other" /\ code = "Internal"
        \/ err = "lost" /\ code \in NoAnswer
        \/ err = "ErrNonePhrase" /\ code = "Internal"
        \/ err \in bad /\ code = "InvalidArgument"
        \/ err = "ErrUnavailable" /\ code = "Unavailable"
    BY <1>2, <2>2 DEF Ended, ServiceErrors, SearchServer
  <2>4. \/ err = "nil" /\ Told(route, op, code) = 200
        \/ err = "other" /\ Told(route, op, code) = 500
        \/ err = "lost" /\ Told(route, op, code) = 503
        \/ err = "ErrNonePhrase" /\ Told(route, op, code) = 500
        \/ err \in bad /\ Told(route, op, code) = 400
        \/ err = "ErrUnavailable" /\ Told(route, op, code) = 503
    BY <1>2, <1>3, <1>6, <2>1, <2>3
       DEF Told, SearchClient, SearchHandlers, NoAnswer
  <2> QED
    BY <2>1, <2>4 DEF Answers, Fair, Blameable, Excepted
<1>7. CASE route = "comic"
  <2>1. op = "GetComic"
    BY <1>4, <1>5, <1>7
  <2>2. NamedErrors(op) = {"ErrBadArguments", "ErrComicNotFound"}
    BY <2>1 DEF NamedErrors
  <2>3. \/ err = "nil" /\ code = "OK"
        \/ err = "other" /\ code = "Internal"
        \/ err = "lost" /\ code \in NoAnswer
        \/ err = "ErrBadArguments" /\ code = "InvalidArgument"
        \/ err = "ErrComicNotFound" /\ code = "NotFound"
    BY <1>2, <2>2 DEF Ended, ServiceErrors, SearchServer
  <2>4. \/ err = "nil" /\ Told(route, op, code) = 200
        \/ err = "other" /\ Told(route, op, code) = 500
        \/ err = "lost" /\ Told(route, op, code) = 503
        \/ err = "ErrBadArguments" /\ Told(route, op, code) = 500
        \/ err = "ErrComicNotFound" /\ Told(route, op, code) = 404
    BY <1>2, <1>3, <1>5, <1>7, <2>1, <2>3
       DEF Told, SearchClient, ComicsHandlers, NoAnswer
  <2> QED
    BY <2>1, <2>4 DEF Answers, Fair, Blameable, Excepted
<1>8. CASE route \in {"comics", "random"}
  <2>1. \/ route = "comics" /\ op = "ListComics"
        \/ route = "random" /\ op = "RandomComic"
    BY <1>4, <1>5, <1>8
  <2>2. NamedErrors(op) = IF op = "ListComics" THEN {"ErrToLargeLimit"}
                                               ELSE {"ErrNonePhrase"}
    BY <2>1 DEF NamedErrors
  <2>3. \/ err = "nil" /\ code = "OK"
        \/ err = "other" /\ code = "Internal"
        \/ err = "lost" /\ code \in NoAnswer
        \/ err = "ErrNonePhrase" /\ code = "Internal"
        \/ /\ err = "ErrToLargeLimit" /\ route = "comics"
           /\ code = "InvalidArgument"
    BY <1>2, <2>1, <2>2 DEF Ended, ServiceErrors, SearchServer
  <2>4. \/ err = "nil" /\ Told(route, op, code) = 200
        \/ err = "other" /\ Told(route, op, code) = 500
        \/ err = "lost" /\ Told(route, op, code) = 503
        \/ err = "ErrNonePhrase" /\ Told(route, op, code) = 500
        \/ err = "ErrToLargeLimit" /\ Told(route, op, code) = 400
    BY <1>2, <1>3, <1>5, <1>8, <2>1, <2>3
       DEF Told, SearchClient, ComicsHandlers, NoAnswer
  <2> QED
    BY <2>1, <2>4 DEF Answers, Fair, Blameable, Excepted
<1> QED
  BY <1>6, <1>7, <1>8 DEF Comics

\* The auth service's.
LEMMA AuthTable ==
  ASSUME NEW route \in OfAuth, NEW op \in CallsOf(route),
         NEW err, NEW code, Ended(op, err, code)
  PROVE  /\ Told(route, op, code) \in Answers
         /\ Fair(op, err, Told(route, op, code))
<1>1. op \in AuthOps /\ op \notin Pinged
  BY Partition, GatewayAssumption
<1>2. /\ ServerCode(op, err) = AuthServer(op, err)
      /\ ClientError(op, code) = AuthClient(op, code)
  BY <1>1 DEF ServerCode, ClientError, UpdateOps, SearchOps, AuthOps,
              FavoritesOps
<1>3. \A e : HandlerStatus(route, op, e) = AuthHandlers(route, e)
  BY DEF HandlerStatus, OfUpdate, Searches, Comics, OfAuth, OfFavorites
<1>4. NamedErrors(op) =
        CASE op = "Register" -> {"ErrUserAlreadyExists", "ErrInvalidEmail"}
          [] op = "Login" -> {"ErrInvalidCredentials", "ErrInvalidEmail"}
          [] op = "BotLogin" -> {"ErrInvalidArgs"}
  BY <1>1 DEF NamedErrors, AuthOps
<1>5. \/ err = "nil" /\ code = "OK"
      \/ err = "other" /\ code = "Internal"
      \/ err = "lost" /\ code \in NoAnswer
      \/ /\ err = "ErrUserAlreadyExists" /\ op = "Register"
         /\ code = "AlreadyExists"
      \/ /\ err = "ErrInvalidCredentials" /\ op = "Login"
         /\ code = "Unauthenticated"
      \/ /\ err \in {"ErrInvalidEmail", "ErrInvalidArgs"}
         /\ code = "InvalidArgument"
  <2>1. CASE op = "Register"
    BY <1>2, <1>4, <2>1 DEF Ended, ServiceErrors, AuthServer
  <2>2. CASE op = "Login"
    BY <1>2, <1>4, <2>2 DEF Ended, ServiceErrors, AuthServer
  <2>3. CASE op = "BotLogin"
    BY <1>2, <1>4, <2>3 DEF Ended, ServiceErrors, AuthServer
  <2> QED
    BY <1>1, <2>1, <2>2, <2>3 DEF AuthOps
<1>6. \/ err = "nil" /\ Told(route, op, code) = 200
      \/ err = "other" /\ Told(route, op, code) = 500
      \/ err = "lost" /\ Told(route, op, code) = 503
      \/ err = "ErrUserAlreadyExists" /\ Told(route, op, code) = 409
      \/ err = "ErrInvalidCredentials" /\ Told(route, op, code) = 401
      \/ /\ err \in {"ErrInvalidEmail", "ErrInvalidArgs"}
         /\ Told(route, op, code) = 400
  BY <1>2, <1>3, <1>5 DEF Told, AuthClient, AuthHandlers, NoAnswer
<1> QED
  BY <1>6 DEF Answers, Fair, Blameable, Excepted

\* The favorites service's, and the check of an add, unless the comic exists.
LEMMA FavoritesTable ==
  ASSUME NEW route \in OfFavorites, NEW op \in CallsOf(route),
         NEW err, NEW code, Ended(op, err, code),
         ~ (op = "GetComic" /\ code = "OK")
  PROVE  /\ Told(route, op, code) \in Answers
         /\ Fair(op, err, Told(route, op, code))
<1>1. op \in FavoritesOps \cup {"GetComic"} /\ op \notin Pinged
  BY Partition, GatewayAssumption DEF SearchOps
<1>2. \A e : HandlerStatus(route, op, e) = FavoritesHandlers(route, op, e)
  BY DEF HandlerStatus, OfUpdate, Searches, Comics, OfAuth, OfFavorites
<1>3. CASE op = "GetComic"
  <2>1. /\ ServerCode(op, err) = SearchServer(op, err)
        /\ ClientError(op, code) = SearchClient(op, code)
    BY <1>1, <1>3 DEF ServerCode, ClientError, UpdateOps, SearchOps, AuthOps,
                      FavoritesOps
  <2>2. NamedErrors(op) = {"ErrBadArguments", "ErrComicNotFound"}
    BY <1>3 DEF NamedErrors
  <2>3. \/ err = "other" /\ code = "Internal"
        \/ err = "lost" /\ code \in NoAnswer
        \/ err = "ErrBadArguments" /\ code = "InvalidArgument"
        \/ err = "ErrComicNotFound" /\ code = "NotFound"
    BY <1>3, <2>1, <2>2 DEF Ended, ServiceErrors, SearchServer
  <2>4. \/ err = "other" /\ Told(route, op, code) = 500
        \/ err = "lost" /\ Told(route, op, code) = 503
        \/ err = "ErrBadArguments" /\ Told(route, op, code) = 500
        \/ err = "ErrComicNotFound" /\ Told(route, op, code) = 404
    BY <1>2, <1>3, <2>1, <2>3
       DEF Told, SearchClient, FavoritesHandlers, NoAnswer
  <2> QED
    BY <1>3, <2>4 DEF Answers, Fair, Blameable, Excepted
<1>4. CASE op \in FavoritesOps
  <2>1. /\ ServerCode(op, err) = FavoritesServer(op, err)
        /\ ClientError(op, code) = FavoritesClient(op, code)
    BY <1>1, <1>4 DEF ServerCode, ClientError, UpdateOps, SearchOps, AuthOps,
                      FavoritesOps
  <2>2. NamedErrors(op) =
          CASE op = "List" -> {}
            [] op = "Add" -> {"ErrInvalidArgs", "ErrAlreadyExists"}
            [] op = "Delete" -> {"ErrInvalidArgs", "ErrNotFound"}
    BY <1>4 DEF NamedErrors, FavoritesOps
  <2>3. \/ err = "nil" /\ code = "OK"
        \/ err = "other" /\ code = "Internal"
        \/ err = "lost" /\ code \in NoAnswer
        \/ err = "ErrInvalidArgs" /\ code = "InvalidArgument"
        \/ err = "ErrAlreadyExists" /\ op = "Add" /\ code = "AlreadyExists"
        \/ err = "ErrNotFound" /\ op = "Delete" /\ code = "NotFound"
    <3>1. CASE op = "List"
      BY <2>1, <2>2, <3>1 DEF Ended, ServiceErrors, FavoritesServer
    <3>2. CASE op = "Add"
      BY <2>1, <2>2, <3>2 DEF Ended, ServiceErrors, FavoritesServer
    <3>3. CASE op = "Delete"
      BY <2>1, <2>2, <3>3 DEF Ended, ServiceErrors, FavoritesServer
    <3> QED
      BY <1>4, <3>1, <3>2, <3>3 DEF FavoritesOps
  <2>4. op # "GetComic"
    BY <1>4 DEF FavoritesOps
  <2>5. \/ err = "nil" /\ Told(route, op, code) \in {200, 204}
        \/ err = "other" /\ Told(route, op, code) = 500
        \/ err = "lost" /\ Told(route, op, code) = 503
        \/ err = "ErrInvalidArgs" /\ Told(route, op, code) = 400
        \/ /\ err = "ErrAlreadyExists" /\ op = "Add"
           /\ Told(route, op, code) = 409
        \/ err = "ErrNotFound" /\ Told(route, op, code) = 404
    BY <1>2, <2>1, <2>3, <2>4
       DEF Told, FavoritesClient, FavoritesHandlers, NoAnswer
  <2> QED
    BY <2>5 DEF Answers, Fair, Blameable, Excepted
<1> QED
  BY <1>1, <1>3, <1>4

\* What a request is told after its last call.
LEMMA LastCall ==
  ASSUME NEW route \in AllRoutes \ {"login"}, NEW op \in CallsOf(route),
         NEW err, NEW code, Ended(op, err, code),
         ~ (route = "favadd" /\ op = "GetComic" /\ code = "OK")
  PROVE  /\ Told(route, op, code) \in Answers
         /\ route = "ping" \/ Fair(op, err, Told(route, op, code))
<1>1. CASE route = "ping"
  BY <1>1 DEF Told, HandlerStatus, Answers, OfUpdate, Searches, Comics, OfAuth,
              OfFavorites
<1>2. CASE route \in OfFavorites
  <2>1. op = "GetComic" => route = "favadd"
    BY <1>2 DEF CallsOf, FirstCalls, OfFavorites
  <2> QED
    BY <1>2, <2>1, FavoritesTable
<1> QED
  BY <1>1, <1>2, UpdateTable, SearchTable, AuthTable DEF AllRoutes

-----------------------------------------------------------------------------
(* One request moves.                                                      *)

InSlot(q) == q.route = "search" /\ q.pc \in {"handler", "calling"}
Slots == {r \in Requests : InSlot(req[r])}

\* A step of one request: nothing else changes but the number of slots, the
\* queue and the like.
Moves(r, q) ==
  /\ req' = [req EXCEPT ![r] = q] /\ RequestOK(q) /\ q.status # 2
  /\ q.pc # "done" =>
       (Busy(r) /\ q.route = req[r].route) \/ Accepting(q.route)
  /\ UNCHANGED <<server, graceOver>>

\* Slots are taken and given back by the request that moves.
Counts(r, q) ==
  \/ (InSlot(q) <=> InSlot(req[r])) /\ sem' = sem
  \/ /\ InSlot(q) /\ ~ InSlot(req[r]) /\ sem' = sem + 1
     /\ sem < SearchConcurrency
  \/ ~ InSlot(q) /\ InSlot(req[r]) /\ sem' = sem - 1

\* The invariants but the queue's, after a step of one request.
LEMMA MoveKeeps ==
  ASSUME GatewayInv, NEW r \in Requests, NEW q, Moves(r, q), Counts(r, q)
  PROVE  RequestsInv' /\ ProcessInv' /\ SlotsAreHandlers' /\ CutOnlyAfterGrace'
<1>1. /\ req'[r] = q /\ DOMAIN req' = Requests
      /\ \A x \in Requests \ {r} : req'[x] = req[x]
  BY DEF GatewayInv, RequestsInv, Moves
<1>2. RequestsInv'
  BY <1>1 DEF GatewayInv, RequestsInv, Moves, RequestOK
<1>3. ProcessInv'
  BY <1>1 DEF GatewayInv, ProcessInv, Moves, Busy, Accepting
<1>4. CutOnlyAfterGrace'
  BY <1>1 DEF GatewayInv, CutOnlyAfterGrace, Moves
<1>5. SlotsAreHandlers'
  <2> DEFINE T == {x \in Requests : InSlot(req'[x])}
  <2>1. sem = Cardinality(Slots) /\ sem <= SearchConcurrency
    BY DEF GatewayInv, SlotsAreHandlers, Slots, InSlot
  <2>2. IsFiniteSet(Slots) /\ IsFiniteSet(T)
    BY FS_Subset, GatewayAssumption DEF Slots
  <2>3. Cardinality(Slots) \in Nat /\ Cardinality(T) \in Nat
    BY <2>2, FS_CardinalityType
  <2>4. \A x \in Requests \ {r} : x \in T <=> x \in Slots
    BY <1>1 DEF Slots
  <2>5. (r \in T <=> InSlot(q)) /\ (r \in Slots <=> InSlot(req[r]))
    BY <1>1 DEF Slots
  <2>6. T \subseteq Requests /\ Slots \subseteq Requests
    BY DEF Slots
  <2> HIDE DEF T
  <2>7. sem' = Cardinality(T) /\ sem' <= SearchConcurrency
    <3>1. CASE (InSlot(q) <=> InSlot(req[r])) /\ sem' = sem
      <4>1. T = Slots
        BY <2>4, <2>5, <2>6, <3>1
      <4> QED
        BY <2>1, <3>1, <4>1
    <3>2. CASE /\ InSlot(q) /\ ~ InSlot(req[r]) /\ sem' = sem + 1
               /\ sem < SearchConcurrency
      <4>1. T = Slots \cup {r} /\ r \notin Slots
        BY <2>4, <2>5, <2>6, <3>2
      <4>2. Cardinality(T) = Cardinality(Slots) + 1
        BY <2>2, <4>1, FS_AddElement
      <4> QED
        BY <2>1, <2>3, <3>2, <4>2, GatewayAssumption
    <3>3. CASE ~ InSlot(q) /\ InSlot(req[r]) /\ sem' = sem - 1
      <4>1. T = Slots \ {r} /\ r \in Slots
        BY <2>4, <2>5, <2>6, <3>3
      <4>2. Cardinality(T) = Cardinality(Slots) - 1
        BY <2>2, <4>1, FS_RemoveElement
      <4> QED
        BY <2>1, <2>3, <3>3, <4>2, GatewayAssumption
    <3> QED
      BY <3>1, <3>2, <3>3 DEF Counts
  <2> QED
    BY <2>7 DEF SlotsAreHandlers, T, InSlot
<1> QED
  BY <1>2, <1>3, <1>4, <1>5

\* The queue is not concerned by a request that is not in it.
LEMMA QueueStays ==
  ASSUME GatewayInv, NEW r \in Requests, NEW q, req' = [req EXCEPT ![r] = q],
         req[r].pc = "waiting" => q.pc = "waiting", waiting' = waiting
  PROVE  QueueInv'
<1>1. \A x \in Requests : req[x].pc = "waiting" => req'[x].pc = "waiting"
  BY DEF GatewayInv, RequestsInv
<1>2. \A i \in DOMAIN waiting : waiting[i] \in Requests
  BY DEF GatewayInv, QueueInv
<1> QED
  BY <1>1, <1>2 DEF GatewayInv, QueueInv

\* A move that leaves the queue alone keeps the invariant.
Turn(r, q) ==
  /\ Moves(r, q) /\ Counts(r, q)
  /\ req[r].pc = "waiting" => q.pc = "waiting"
  /\ waiting' = waiting

\* A step of one request that leaves the queue alone preserves the invariant.
LEMMA TurnKeeps ==
  ASSUME GatewayInv, NEW r \in Requests, NEW q, Turn(r, q)
  PROVE  GatewayInv'
  BY MoveKeeps, QueueStays DEF Turn, Moves, GatewayInv

-----------------------------------------------------------------------------
(* Requests that end and requests that go on.                              *)

\* A slot for a request that nobody has used.
LEMMA NoRequestOK ==
  /\ NoRequest \in RequestRecords /\ RequestOK(NoRequest)
  /\ NoRequest.pc = "done" /\ NoRequest.op = "none" /\ NoRequest.calls = {}
  /\ NoRequest.status = 0
<1>1. NoRequest \in RequestRecords
  <2>1. FALSE \in BOOLEAN /\ {} \in SUBSET Pinged /\ "none" \in Errors
    BY DEF Errors
  <2> QED
    BY <2>1 DEF NoRequest, RequestRecords
<1> QED
  BY <1>1 DEF NoRequest, RequestOK, Stage, Blamed

\* What a request that ends leaves behind.
LEMMA FinishedFields ==
  ASSUME GatewayInv, NEW r \in Requests, NEW err \in Errors,
         NEW status \in {0, 1, 2} \cup Answers
  PROVE  /\ Finished(r, err, status) \in RequestRecords
         /\ Finished(r, err, status).pc = "done"
         /\ Finished(r, err, status).route = req[r].route
         /\ Finished(r, err, status).gone = req[r].gone
         /\ Finished(r, err, status).op = req[r].op
         /\ Finished(r, err, status).err = err
         /\ Finished(r, err, status).status = status
<1>1. req[r] \in RequestRecords
  BY DEF GatewayInv, RequestsInv
<1> QED
  BY <1>1, NoRequestOK DEF Finished, RequestRecords

\* Every way out but the silent one of the rate limiter.
LEMMA FinishedOK ==
  ASSUME GatewayInv, NEW r \in Requests, NEW err \in Errors,
         NEW status \in {1, 2} \cup Answers,
         req[r].op = "none" \/ err \in {"panic", "cut"} \/ req[r].route = "ping"
           \/ Fair(req[r].op, err, status)
  PROVE  RequestOK(Finished(r, err, status))
<1>1. status # 0 /\ status \in {0, 1, 2} \cup Answers
  BY DEF Answers
<1> QED
  BY <1>1, FinishedFields DEF RequestOK, Stage, Blamed

\* An answer of the handler or of the middleware.
LEMMA ReplyTurns ==
  ASSUME GatewayInv, NEW r \in Requests, NEW err \in Errors,
         NEW status \in {1} \cup Answers, Reply(r, err, status),
         req[r].pc \in {"arrived", "handler", "calling"},
         req[r].op = "none" \/ err = "panic" \/ req[r].route = "ping"
           \/ Fair(req[r].op, err, status)
  PROVE  GatewayInv'
<1> DEFINE q == Finished(r, err, status)
<1>1. RequestOK(q) /\ q.status # 2 /\ q.pc = "done"
  BY FinishedOK, FinishedFields DEF Answers
<1>2. req' = [req EXCEPT ![r] = q] /\ UNCHANGED <<server, graceOver, waiting>>
  BY DEF Reply
<1>3. sem' = IF req[r].route = "search" /\ req[r].pc # "arrived"
               THEN sem - 1 ELSE sem
  BY DEF Reply
<1> HIDE DEF q
<1>4. Counts(r, q)
  BY <1>1, <1>3 DEF Counts, InSlot
<1> QED
  BY <1>1, <1>2, <1>4, TurnKeeps DEF Turn, Moves

\* A request goes on to its handler.
LEMMA GotoFields ==
  ASSUME GatewayInv, NEW r \in Requests, NEW pc \in {"waiting", "handler"},
         Goto(r, pc), req[r].pc \in {"arrived", "waiting"},
         pc = "waiting" => req[r].route = "isearch"
  PROVE  \E q : /\ req' = [req EXCEPT ![r] = q] /\ RequestOK(q)
                /\ q.pc = pc /\ q.route = req[r].route /\ q.status = 0
<1> DEFINE q == [req[r] EXCEPT !.pc = pc]
<1>1. req[r] \in RequestRecords /\ RequestOK(req[r])
  BY DEF GatewayInv, RequestsInv
<1>2. /\ q \in RequestRecords /\ q.pc = pc /\ q.route = req[r].route
      /\ q.status = req[r].status /\ q.op = req[r].op /\ q.calls = req[r].calls
  BY <1>1 DEF RequestRecords
<1>3. req' = [req EXCEPT ![r] = q]
  BY DEF Goto, GatewayInv, RequestsInv
<1> HIDE DEF q
<1>4. RequestOK(q) /\ q.status = 0
  BY <1>1, <1>2 DEF RequestOK, Stage, Blamed
<1> QED
  BY <1>2, <1>3, <1>4

\* A request that is not for search enters its handler.
LEMMA EnterKeeps ==
  ASSUME GatewayInv, NEW r \in Requests, Goto(r, "handler"),
         req[r].pc = "arrived", req[r].route # "search",
         UNCHANGED <<server, graceOver, sem, waiting>>
  PROVE  GatewayInv'
<1>1. PICK q : /\ req' = [req EXCEPT ![r] = q] /\ RequestOK(q)
               /\ q.pc = "handler" /\ q.route = req[r].route /\ q.status = 0
  BY GotoFields
<1>2. Turn(r, q)
  BY <1>1 DEF Turn, Moves, Counts, InSlot, Busy
<1> QED
  BY <1>2, TurnKeeps

\* A request arrives.
LEMMA ArriveKeeps ==
  ASSUME GatewayInv, NEW r \in Requests, Arrive(r)
  PROVE  GatewayInv'
<1>1. PICK route \in Routes[r], token \in {"none", "user", "admin"} :
        /\ Accepting(route)
        /\ req' = [req EXCEPT ![r] =
             [NoRequest EXCEPT !.pc = "arrived", !.route = route,
                               !.token = token]]
  BY DEF Arrive
<1> DEFINE q == [NoRequest EXCEPT !.pc = "arrived", !.route = route,
                                  !.token = token]
<1>2. route \in AllRoutes
  BY GatewayAssumption
<1>3. /\ q \in RequestRecords /\ q.pc = "arrived" /\ q.route = route
      /\ q.status = 0 /\ q.op = "none" /\ q.calls = {}
  BY <1>2, NoRequestOK DEF RequestRecords
<1>4. req' = [req EXCEPT ![r] = q]
  BY <1>1
<1> HIDE DEF q
<1>5. RequestOK(q)
  BY <1>2, <1>3 DEF RequestOK, Stage, Blamed
<1>6. /\ Accepting(q.route) /\ req[r].pc = "done"
      /\ UNCHANGED <<server, graceOver, sem, waiting>>
  BY <1>1, <1>3 DEF Arrive, Busy
<1>7. Turn(r, q)
  BY <1>3, <1>4, <1>5, <1>6 DEF Turn, Moves, Counts, InSlot
<1> QED
  BY <1>7, TurnKeeps

\* The client leaves.
LEMMA LeaveKeeps ==
  ASSUME GatewayInv, NEW r \in Requests, ClientLeaves(r)
  PROVE  GatewayInv'
<1> DEFINE q == [req[r] EXCEPT !.gone = TRUE]
<1>1. req[r] \in RequestRecords /\ RequestOK(req[r])
  BY DEF GatewayInv, RequestsInv
<1>2. /\ q \in RequestRecords /\ q.pc = req[r].pc /\ q.route = req[r].route
      /\ q.status = req[r].status /\ q.op = req[r].op /\ q.calls = req[r].calls
  BY <1>1 DEF RequestRecords
<1>3. req' = [req EXCEPT ![r] = q]
  BY DEF ClientLeaves, GatewayInv, RequestsInv
<1> HIDE DEF q
<1>4. RequestOK(q) /\ q.status = 0
  BY <1>1, <1>2 DEF RequestOK, Stage, Blamed, ClientLeaves, Busy
<1>5. Busy(r) /\ UNCHANGED <<server, graceOver, sem, waiting>>
  BY DEF ClientLeaves
<1>6. Turn(r, q)
  BY <1>2, <1>3, <1>4, <1>5 DEF Turn, Moves, Counts, InSlot
<1> QED
  BY <1>6, TurnKeeps

\* A request makes a call, its first or the next one.
Calls(r, op, calls) ==
  req' = [req EXCEPT ![r] = [@ EXCEPT !.pc = "calling", !.op = op,
                                      !.calls = calls]]

\* A handler that calls a service preserves the invariant.
LEMMA CallKeeps ==
  ASSUME GatewayInv, NEW r \in Requests, req[r].pc \in {"handler", "calling"},
         req[r].route # "login",
         NEW op \in CallsOf(req[r].route), NEW calls \in SUBSET Pinged,
         calls # {} => req[r].route = "ping",
         Calls(r, op, calls), UNCHANGED <<server, graceOver, sem, waiting>>
  PROVE  GatewayInv'
<1> DEFINE q == [req[r] EXCEPT !.pc = "calling", !.op = op, !.calls = calls]
<1>1. req[r] \in RequestRecords /\ RequestOK(req[r])
  BY DEF GatewayInv, RequestsInv
<1>2. op \in AllOps
  BY <1>1, Partition
     DEF RequestOK, Stage, AllRoutes, AllOps, SearchOps
<1>3. /\ q \in RequestRecords /\ q.pc = "calling" /\ q.route = req[r].route
      /\ q.status = req[r].status /\ q.op = op /\ q.calls = calls
  BY <1>1, <1>2 DEF RequestRecords
<1>4. req' = [req EXCEPT ![r] = q]
  BY DEF Calls, GatewayInv, RequestsInv
<1> HIDE DEF q
<1>5. RequestOK(q) /\ q.status = 0
  BY <1>1, <1>3 DEF RequestOK, Stage, Blamed
<1>6. Turn(r, q)
  BY <1>3, <1>4, <1>5 DEF Turn, Moves, Counts, InSlot, Busy
<1> QED
  BY <1>6, TurnKeeps

\* The first call.
LEMMA HandleKeeps ==
  ASSUME GatewayInv, NEW r \in Requests, Handle(r)
  PROVE  GatewayInv'
<1> DEFINE route == req[r].route
<1>1. PICK op \in FirstCalls(route) :
        req' = [req EXCEPT ![r].pc = "calling", ![r].op = op,
                           ![r].calls = FirstCalls(route) \ {op}]
  BY DEF Handle
<1>2. req[r] \in RequestRecords /\ Stage(req[r]) /\ req[r].pc = "handler"
  BY DEF GatewayInv, RequestsInv, RequestOK, Handle
<1>3. route \in AllRoutes \ {"login"}
  BY <1>2 DEF Stage, Handle
<1> DEFINE calls == FirstCalls(route) \ {op}
<1>4. route = "ping" => FirstCalls(route) = Pinged
  BY DEF FirstCalls
<1>5. route # "ping" => calls = {}
  BY <1>3 DEF FirstCalls, AllRoutes, Searches, Comics, OfUpdate, OfAuth,
              OfFavorites
<1>6. calls \in SUBSET Pinged /\ (calls # {} => route = "ping")
  BY <1>4, <1>5
<1>7. op \in CallsOf(route)
  BY DEF CallsOf
<1> HIDE DEF calls
<1>8. Calls(r, op, calls)
  BY <1>1 DEF Calls, calls, GatewayInv, RequestsInv
<1> QED
  BY <1>2, <1>3, <1>6, <1>7, <1>8, CallKeeps DEF Handle

\* A call ends: the next one, or the answer.
LEMMA ProceedKeeps ==
  ASSUME GatewayInv, NEW r \in Requests, req[r].pc = "calling",
         NEW err \in Errors, NEW code, Ended(req[r].op, err, code),
         Proceed(r, err, code)
  PROVE  GatewayInv'
<1>1. /\ req[r] \in RequestRecords /\ Stage(req[r])
      /\ req \in [Requests -> RequestRecords]
  BY DEF GatewayInv, RequestsInv, RequestOK
<1>2. /\ req[r].route \in AllRoutes \ {"login"}
      /\ req[r].op \in CallsOf(req[r].route)
      /\ req[r].calls # {} => req[r].route = "ping"
      /\ req[r].calls \in SUBSET Pinged
  BY <1>1 DEF Stage, RequestRecords
<1>3. CASE req[r].calls # {}
  <2>1. PICK op \in req[r].calls :
          /\ req' = [req EXCEPT ![r].op = op, ![r].calls = @ \ {op}]
          /\ UNCHANGED <<server, graceOver, sem, waiting>>
    BY <1>3 DEF Proceed
  <2> DEFINE calls == req[r].calls \ {op}
  <2>2. calls \in SUBSET Pinged /\ op \in CallsOf(req[r].route)
    BY <1>2, <1>3, Partition
  <2>3. req' = [req EXCEPT ![r] = [@ EXCEPT !.op = op, !.calls = calls]]
    BY <1>1, <2>1
  <2> HIDE DEF calls
  <2>4. Calls(r, op, calls)
    BY <1>1, <2>3 DEF Calls, RequestRecords
  <2> QED
    BY <1>2, <1>3, <2>1, <2>2, <2>4, CallKeeps
<1>4. CASE /\ req[r].calls = {} /\ req[r].route = "favadd"
           /\ req[r].op = "GetComic" /\ code = "OK"
  <2>1. /\ req' = [req EXCEPT ![r].op = "Add"]
        /\ UNCHANGED <<server, graceOver, sem, waiting>>
    BY <1>4 DEF Proceed
  <2>2. Calls(r, "Add", {})
    BY <1>1, <1>4, <2>1 DEF Calls, RequestRecords
  <2>3. "Add" \in CallsOf(req[r].route)
    BY <1>4 DEF CallsOf
  <2>4. {} \in SUBSET Pinged /\ req[r].pc \in {"handler", "calling"}
    OBVIOUS
  <2>5. UNCHANGED <<server, graceOver, sem, waiting>>
    BY <2>1
  <2> QED
    BY <1>2, <2>2, <2>3, <2>4, <2>5, CallKeeps
<1>5. CASE /\ req[r].calls = {}
           /\ ~ (/\ req[r].route = "favadd" /\ req[r].op = "GetComic"
                 /\ code = "OK")
  <2> DEFINE status == Told(req[r].route, req[r].op, code)
  <2>1. Reply(r, err, status)
    BY <1>5 DEF Proceed, Told
  <2>2. /\ status \in Answers
        /\ req[r].route = "ping" \/ Fair(req[r].op, err, status)
    BY <1>2, <1>5, LastCall
  <2> HIDE DEF status
  <2> QED
    BY <2>1, <2>2, ReplyTurns
<1> QED
  BY <1>3, <1>4, <1>5

-----------------------------------------------------------------------------
(* The queue of the rate limiter.                                          *)

\* A sequence without its i-th element.
CutOut(s, i) == SubSeq(s, 1, i - 1) \o SubSeq(s, i + 1, Len(s))

\* A sequence without its i-th element.
LEMMA Without ==
  ASSUME NEW S, NEW s \in Seq(S), NEW i \in 1 .. Len(s), NEW w,
         w = CutOut(s, i)
  PROVE  /\ w \in Seq(S) /\ Len(w) = Len(s) - 1
         /\ \A j \in 1 .. Len(w) : w[j] = IF j < i THEN s[j] ELSE s[j + 1]
<1> DEFINE a == SubSeq(s, 1, i - 1)
           b == SubSeq(s, i + 1, Len(s))
<1>0. Len(s) \in Nat
  OBVIOUS
<1>1. /\ a \in Seq(S) /\ Len(a) = i - 1
      /\ \A j \in 1 .. i - 1 : a[j] = s[j]
  BY <1>0, SubSeqProperties
<1>2. /\ b \in Seq(S) /\ Len(b) = Len(s) - i
      /\ \A j \in 1 .. Len(s) - i : b[j] = s[i + j]
  BY <1>0, SubSeqProperties
<1>3. w = a \o b
  BY DEF CutOut
<1> HIDE DEF a, b
<1>4. /\ w \in Seq(S) /\ Len(w) = Len(a) + Len(b)
      /\ \A j \in 1 .. Len(a) + Len(b) :
           w[j] = IF j <= Len(a) THEN a[j] ELSE b[j - Len(a)]
  <2>1. /\ a \o b \in Seq(S) /\ Len(a \o b) = Len(a) + Len(b)
        /\ \A j \in 1 .. Len(a) + Len(b) :
             (a \o b)[j] = IF j <= Len(a) THEN a[j] ELSE b[j - Len(a)]
    BY <1>1, <1>2, ConcatProperties, Zenon
  <2> QED
    BY <1>3, <2>1, Zenon
<1>5. Len(w) = Len(s) - 1
  BY <1>0, <1>1, <1>2, <1>4
<1>6. ASSUME NEW j \in 1 .. Len(w)
      PROVE  w[j] = IF j < i THEN s[j] ELSE s[j + 1]
  <2>1. w[j] = IF j <= i - 1 THEN a[j] ELSE b[j - (i - 1)]
    BY <1>0, <1>1, <1>2, <1>4, <1>5
  <2>2. CASE j < i
    BY <1>0, <1>1, <2>1, <2>2
  <2>3. CASE ~ (j < i)
    <3>1. j - (i - 1) \in 1 .. Len(s) - i /\ i + (j - (i - 1)) = j + 1
      BY <1>0, <1>5, <2>3
    <3>2. b[j - (i - 1)] = s[i + (j - (i - 1))]
      BY <1>2, <3>1
    <3>3. w[j] = b[j - (i - 1)]
      BY <1>0, <1>5, <2>1, <2>3
    <3> QED
      BY <2>3, <3>1, <3>2, <3>3
  <2> QED
    BY <2>2, <2>3
<1> QED
  BY <1>4, <1>5, <1>6

\* The queue of the rate limiter without its i-th request.
LEMMA WaitingWithout ==
  ASSUME waiting \in Seq(Requests), NEW i \in 1 .. Len(waiting),
         waiting' = CutOut(waiting, i)
  PROVE  /\ waiting' \in Seq(Requests) /\ Len(waiting') = Len(waiting) - 1
         /\ \A j \in 1 .. Len(waiting') :
              waiting'[j] = IF j < i THEN waiting[j] ELSE waiting[j + 1]
  BY Without

\* A request queues up.
LEMMA WaitKeeps ==
  ASSUME GatewayInv, NEW r \in Requests, WithRateLimit(r)
  PROVE  GatewayInv'
<1>1. PICK q : /\ req' = [req EXCEPT ![r] = q] /\ RequestOK(q)
               /\ q.pc = "waiting" /\ q.route = req[r].route /\ q.status = 0
  BY GotoFields DEF WithRateLimit
<1>2. /\ req[r].pc = "arrived" /\ waiting' = Append(waiting, r)
      /\ UNCHANGED <<server, graceOver, sem>>
  BY DEF WithRateLimit
<1>3. Moves(r, q) /\ Counts(r, q)
  BY <1>1, <1>2 DEF Moves, Counts, InSlot, Busy
<1>4. QueueInv'
  <2>1. /\ waiting \in Seq(Requests) /\ req \in [Requests -> RequestRecords]
        /\ \A i \in 1 .. Len(waiting) :
             waiting[i] \in Requests /\ req[waiting[i]].pc = "waiting"
        /\ \A i, j \in 1 .. Len(waiting) : waiting[i] = waiting[j] => i = j
    BY DEF GatewayInv, QueueInv, RequestsInv
  <2>2. /\ waiting' \in Seq(Requests) /\ Len(waiting') = Len(waiting) + 1
        /\ \A i \in 1 .. Len(waiting) : waiting'[i] = waiting[i]
        /\ waiting'[Len(waiting) + 1] = r
    BY <1>2, <2>1
  <2>3. /\ req'[r].pc = "waiting"
        /\ \A x \in Requests \ {r} : req'[x] = req[x]
    BY <1>1, <2>1
  <2>4. \A i \in 1 .. Len(waiting) : waiting[i] # r
    BY <1>2, <2>1
  <2>5. \A i \in 1 .. Len(waiting') : req'[waiting'[i]].pc = "waiting"
    BY <2>1, <2>2, <2>3, <2>4
  <2>6. \A i, j \in 1 .. Len(waiting') : waiting'[i] = waiting'[j] => i = j
    BY <2>1, <2>2, <2>4
  <2> QED
    BY <2>2, <2>5, <2>6 DEF QueueInv
<1> QED
  BY <1>3, <1>4, MoveKeeps DEF GatewayInv

\* A request leaves the queue, from anywhere.
LEMMA LeaveQueue ==
  ASSUME GatewayInv, NEW i \in 1 .. Len(waiting), NEW q,
         req' = [req EXCEPT ![waiting[i]] = q],
         waiting' \in Seq(Requests), Len(waiting') = Len(waiting) - 1,
         \A j \in 1 .. Len(waiting') :
           waiting'[j] = IF j < i THEN waiting[j] ELSE waiting[j + 1]
  PROVE  QueueInv'
<1>1. /\ waiting \in Seq(Requests) /\ req \in [Requests -> RequestRecords]
      /\ \A j \in 1 .. Len(waiting) :
           waiting[j] \in Requests /\ req[waiting[j]].pc = "waiting"
      /\ \A j, k \in 1 .. Len(waiting) : waiting[j] = waiting[k] => j = k
  <2>1. waiting \in Seq(Requests) /\ req \in [Requests -> RequestRecords]
    BY DEF GatewayInv, QueueInv, RequestsInv
  <2>2. \A j \in 1 .. Len(waiting) : waiting[j] \in Requests
    BY <2>1
  <2>3. DOMAIN waiting = 1 .. Len(waiting)
    BY <2>1
  <2>4. /\ \A j \in DOMAIN waiting : req[waiting[j]].pc = "waiting"
        /\ \A j, k \in DOMAIN waiting : waiting[j] = waiting[k] => j = k
    BY DEF GatewayInv, QueueInv
  <2> QED
    BY <2>1, <2>2, <2>3, <2>4
<1>2. Len(waiting) \in Nat /\ Len(waiting') \in Nat
  BY <1>1
<1>3. \A j \in 1 .. Len(waiting') :
        \E k \in 1 .. Len(waiting) :
          /\ waiting'[j] = waiting[k] /\ k # i
          /\ k = IF j < i THEN j ELSE j + 1
  BY <1>2
<1>4. \A k \in 1 .. Len(waiting) :
        k # i => req'[waiting[k]].pc = "waiting"
  BY <1>1
<1>5. \A j \in 1 .. Len(waiting') : req'[waiting'[j]].pc = "waiting"
  BY <1>3, <1>4
<1>6. \A j, k \in 1 .. Len(waiting') : waiting'[j] = waiting'[k] => j = k
  BY <1>1, <1>2, <1>3
<1> QED
  BY <1>5, <1>6 DEF QueueInv

\* Its moment has come.
LEMMA PermitKeeps ==
  ASSUME GatewayInv, Permit
  PROVE  GatewayInv'
<1> DEFINE r == Head(waiting)
<1>1. /\ waiting \in Seq(Requests) /\ waiting # << >>
      /\ \A i \in DOMAIN waiting : req[waiting[i]].pc = "waiting"
  BY DEF GatewayInv, QueueInv, Permit
<1>2. /\ Len(waiting) \in Nat /\ 1 \in 1 .. Len(waiting)
      /\ r = waiting[1] /\ r \in Requests
  BY <1>1
<1>3. req[r].pc = "waiting" /\ req[r].route = "isearch"
  BY <1>1, <1>2 DEF GatewayInv, RequestsInv, RequestOK, Stage
<1>4. /\ Goto(r, "handler") /\ waiting' = Tail(waiting)
      /\ UNCHANGED <<server, graceOver, sem>>
  BY DEF Permit
<1> HIDE DEF r
<1>5. PICK q : /\ req' = [req EXCEPT ![r] = q] /\ RequestOK(q)
               /\ q.pc = "handler" /\ q.route = req[r].route /\ q.status = 0
  BY <1>2, <1>3, <1>4, GotoFields
<1>6. Moves(r, q) /\ Counts(r, q)
  BY <1>3, <1>4, <1>5 DEF Moves, Counts, InSlot, Busy
<1>7. /\ waiting' \in Seq(Requests) /\ Len(waiting') = Len(waiting) - 1
      /\ \A j \in 1 .. Len(waiting') :
           waiting'[j] = IF j < 1 THEN waiting[j] ELSE waiting[j + 1]
  BY <1>1, <1>4
<1>8. QueueInv'
  BY <1>2, <1>5, <1>7, LeaveQueue
<1> QED
  BY <1>2, <1>6, <1>8, MoveKeeps DEF GatewayInv

\* Its client does not wait for it.
LEMMA WaitEndsKeeps ==
  ASSUME GatewayInv, NEW r \in Requests, WaitEnds(r)
  PROVE  GatewayInv'
<1> DEFINE q == Finished(r, "none", 0)
<1>1. req[r].pc = "waiting" /\ req[r].gone /\ req[r].route = "isearch"
      /\ req[r].op = "none"
  BY DEF WaitEnds, GatewayInv, RequestsInv, RequestOK, Stage
<1>2. /\ req' = [req EXCEPT ![r] = q]
      /\ UNCHANGED <<server, graceOver, sem>>
  BY DEF WaitEnds
<1>3. PICK i \in DOMAIN waiting :
        waiting[i] = r /\ waiting' = CutOut(waiting, i)
  BY DEF WaitEnds, CutOut
<1>4. /\ q \in RequestRecords /\ q.pc = "done" /\ q.gone = req[r].gone
      /\ q.op = "none" /\ q.status = 0
  <2>1. "none" \in Errors /\ 0 \in {0, 1, 2} \cup Answers
    BY DEF Errors
  <2>2. req[r] \in RequestRecords
    BY DEF GatewayInv, RequestsInv
  <2> QED
    BY <1>1, <2>1, <2>2, NoRequestOK DEF Finished, RequestRecords
<1> HIDE DEF q
<1>5. RequestOK(q)
  BY <1>1, <1>4 DEF RequestOK, Stage, Blamed
<1>6. Moves(r, q) /\ Counts(r, q)
  BY <1>1, <1>2, <1>4, <1>5 DEF Moves, Counts, InSlot
<1>7. waiting \in Seq(Requests) /\ i \in 1 .. Len(waiting)
  <2>1. waiting \in Seq(Requests)
    BY DEF GatewayInv, QueueInv
  <2> QED
    BY <2>1
<1>8. /\ waiting' \in Seq(Requests) /\ Len(waiting') = Len(waiting) - 1
      /\ \A j \in 1 .. Len(waiting') :
           waiting'[j] = IF j < i THEN waiting[j] ELSE waiting[j + 1]
  BY <1>3, <1>7, WaitingWithout
<1>9. QueueInv'
  BY <1>2, <1>3, <1>7, <1>8, LeaveQueue
<1> QED
  BY <1>6, <1>9, MoveKeeps DEF GatewayInv

-----------------------------------------------------------------------------
(* Every step.                                                             *)

\* An answer before the first call, or none because of a panic.
Replies(r) ==
  \E err \in Errors, status \in {1} \cup Answers :
    Reply(r, err, status) /\ (req[r].op = "none" \/ err = "panic")

\* An answer before the first call is one of Replies.
LEMMA RepliesIntro ==
  ASSUME NEW r \in Requests, NEW err \in Errors,
         NEW status \in {1} \cup Answers, req[r].op = "none"
  PROVE  Reply(r, err, status) => Replies(r)
  BY Zenon DEF Replies

\* Such an answer preserves the invariant.
LEMMA RepliesKeep ==
  ASSUME GatewayInv, NEW r \in Requests, Replies(r),
         req[r].pc \in {"arrived", "handler", "calling"}
  PROVE  GatewayInv'
  BY ReplyTurns DEF Replies

\* An empty channel is not too full.
LEMMA RoomForNone == 0 <= SearchConcurrency
  BY GatewayAssumption

\* Nothing has arrived at first.
LEMMA GatewayInit == Init => GatewayInv
<1> SUFFICES ASSUME Init PROVE GatewayInv
  OBVIOUS
<1>1. \A r \in Requests : req[r] = NoRequest
  BY DEF Init
<1>2. RequestsInv
  BY <1>1, NoRequestOK DEF Init, RequestsInv
<1>3. QueueInv
  BY DEF Init, QueueInv
<1>4. ProcessInv
  BY DEF Init, ProcessInv
<1>5. SlotsAreHandlers
  <2>1. {r \in Requests : /\ req[r].route = "search"
                          /\ req[r].pc \in {"handler", "calling"}} = {}
    BY <1>1, NoRequestOK
  <2> QED
    BY <2>1, FS_EmptySet, RoomForNone DEF Init, SlotsAreHandlers
<1>6. CutOnlyAfterGrace
  BY <1>1, NoRequestOK DEF CutOnlyAfterGrace
<1> QED
  BY <1>2, <1>3, <1>4, <1>5, <1>6 DEF GatewayInv

\* The middleware and the handlers keep the invariant.
LEMMA ProcessKeeps ==
  ASSUME GatewayInv, NEW r \in Requests, Process(r)
  PROVE  GatewayInv'
<1>0. /\ req[r] \in RequestRecords /\ Stage(req[r])
  BY DEF GatewayInv, RequestsInv, RequestOK
<1>1. CASE Enter(r)
  <2>1. req[r].route # "search"
    BY <1>1 DEF Enter, Searches
  <2> QED
    BY <1>1, <2>1, EnterKeeps DEF Enter
<1>2. CASE WithConcurrencyLimit(r)
  <2>1. CASE Replies(r)
    BY <1>2, <2>1, RepliesKeep DEF WithConcurrencyLimit
  <2>2. CASE /\ sem < SearchConcurrency /\ sem' = sem + 1
             /\ Goto(r, "handler") /\ UNCHANGED <<server, graceOver, waiting>>
    <3>1. req[r].pc = "arrived" /\ req[r].route = "search"
      BY <1>2 DEF WithConcurrencyLimit
    <3>2. PICK q :
            /\ req' = [req EXCEPT ![r] = q] /\ RequestOK(q)
            /\ q.pc = "handler" /\ q.route = req[r].route /\ q.status = 0
      BY <2>2, <3>1, GotoFields
    <3>3. Turn(r, q)
      BY <2>2, <3>1, <3>2 DEF Turn, Moves, Counts, InSlot, Busy
    <3> QED
      BY <3>3, TurnKeeps
  <2>3. Reply(r, "busy", 503) => Replies(r)
    <3>1. req[r].op = "none" /\ "busy" \in Errors /\ 503 \in {1} \cup Answers
      BY <1>0, <1>2 DEF WithConcurrencyLimit, Stage, Errors, Answers
    <3> QED
      BY <3>1, RepliesIntro
  <2> QED
    BY <1>2, <2>1, <2>2, <2>3 DEF WithConcurrencyLimit
<1>3. CASE WithRateLimit(r)
  BY <1>3, WaitKeeps
<1>4. CASE WaitEnds(r)
  BY <1>4, WaitEndsKeeps
<1>5. CASE RequireSuperuser(r) \/ RequireUser(r)
  <2>1. /\ req[r].pc = "arrived" /\ req[r].route # "search"
        /\ \/ Reply(r, "unauthorized", 401)
           \/ /\ Goto(r, "handler")
              /\ UNCHANGED <<server, graceOver, sem, waiting>>
    BY <1>5 DEF RequireSuperuser, RequireUser, ForAdmin, OfFavorites
  <2>2. Reply(r, "unauthorized", 401) => Replies(r)
    <3>1. /\ req[r].op = "none" /\ "unauthorized" \in Errors
          /\ 401 \in {1} \cup Answers
      BY <1>0, <2>1 DEF Stage, Errors, Answers
    <3> QED
      BY <3>1, Zenon DEF Replies
  <2> QED
    BY <2>1, <2>2, RepliesKeep, EnterKeeps
<1>6. CASE Login(r)
  <2>1. PICK status \in {200, 400, 401, 500} :
          /\ req' = [req EXCEPT ![r] = Finished(r, "login", status)]
          /\ admin' = IF status = 200 THEN "live" ELSE admin
    BY <1>6, Zenon DEF Login
  <2> DEFINE q == Finished(r, "login", status)
  <2>2. /\ req[r].op = "none" /\ "login" \in Errors
        /\ status \in {1, 2} \cup Answers /\ status \in {0, 1, 2} \cup Answers
        /\ status # 2
    BY <1>0, <1>6 DEF Login, Stage, Errors, Answers
  <2>3. RequestOK(q) /\ q.pc = "done" /\ q.status # 2
    BY <2>2, FinishedOK, FinishedFields
  <2>4. req' = [req EXCEPT ![r] = q]
    BY <2>1
  <2> HIDE DEF q
  <2>5. /\ UNCHANGED <<server, graceOver, sem, waiting>>
        /\ req[r].pc = "handler" /\ req[r].route = "login"
    BY <1>6 DEF Login
  <2>6. Turn(r, q)
    BY <2>3, <2>4, <2>5 DEF Turn, Moves, Counts, InSlot
  <2> QED
    BY <2>6, TurnKeeps
<1>7. CASE Invalid(r)
  <2>1. Replies(r)
    <3>1. /\ req[r].op = "none" /\ "invalid" \in Errors
          /\ 400 \in {1} \cup Answers
      BY <1>0, <1>7 DEF Invalid, Stage, Errors, Answers
    <3>2. Reply(r, "invalid", 400)
      BY <1>7 DEF Invalid
    <3> QED
      BY <3>1, <3>2, Zenon DEF Replies
  <2> QED
    BY <1>7, <2>1, RepliesKeep DEF Invalid
<1>8. CASE Handle(r)
  BY <1>8, HandleKeeps
<1>9. CASE Deadline(r)
  <2>1. /\ Ended(req[r].op, "lost", "DeadlineExceeded") /\ "lost" \in Errors
    BY DEF Ended, NoAnswer, Errors
  <2>2. req[r].pc = "calling" /\ Proceed(r, "lost", "DeadlineExceeded")
    BY <1>9 DEF Deadline
  <2> QED
    BY <2>1, <2>2, ProceedKeeps
<1> QED
  BY <1>1, <1>2, <1>3, <1>4, <1>5, <1>6, <1>7, <1>8, <1>9 DEF Process

\* So do clients, services and faults.
LEMMA OutsideKeeps ==
  ASSUME GatewayInv, NEW r \in Requests, Outside(r)
  PROVE  GatewayInv'
<1>1. CASE Arrive(r)
  BY <1>1, ArriveKeeps
<1>2. CASE ClientLeaves(r)
  BY <1>2, LeaveKeeps
<1>3. CASE Return(r)
  <2>1. PICK err \in ServiceErrors(req[r].op) :
          Proceed(r, err, ServerCode(req[r].op, err))
    BY <1>3 DEF Return
  <2>2. err \in Errors /\ Ended(req[r].op, err, ServerCode(req[r].op, err))
    BY <2>1, ErrorsAreNamed DEF Ended
  <2>3. req[r].pc = "calling"
    BY <1>3 DEF Return
  <2> QED
    BY <2>1, <2>2, <2>3, ProceedKeeps
<1>4. CASE Unreachable(r)
  <2>1. /\ Ended(req[r].op, "lost", "Unavailable") /\ "lost" \in Errors
    BY DEF Ended, NoAnswer, Errors
  <2>2. req[r].pc = "calling" /\ Proceed(r, "lost", "Unavailable")
    BY <1>4 DEF Unreachable
  <2> QED
    BY <2>1, <2>2, ProceedKeeps
<1>5. CASE Cancelled(r)
  <2>1. /\ Ended(req[r].op, "lost", "Canceled") /\ "lost" \in Errors
    BY DEF Ended, NoAnswer, Errors
  <2>2. req[r].pc = "calling" /\ Proceed(r, "lost", "Canceled")
    BY <1>5 DEF Cancelled
  <2> QED
    BY <2>1, <2>2, ProceedKeeps
<1>6. CASE Panic(r)
  <2>1. Replies(r)
    <3>1. "panic" \in Errors /\ 1 \in {1} \cup Answers
      BY DEF Errors
    <3>2. Reply(r, "panic", 1)
      BY <1>6 DEF Panic
    <3> QED
      BY <3>1, <3>2, Zenon DEF Replies
  <2> QED
    BY <1>6, <2>1, RepliesKeep DEF Panic
<1> QED
  BY <1>1, <1>2, <1>3, <1>4, <1>5, <1>6 DEF Outside

\* The end of the process cuts off what is under way.
LEMMA EndKeeps ==
  ASSUME GatewayInv, Exit \/ Kill
  PROVE  GatewayInv'
<1>1. /\ req' = [r \in Requests |->
                   IF Busy(r) THEN Finished(r, "cut", 2) ELSE req[r]]
      /\ sem' = 0 /\ waiting' = << >> /\ server' = "stopped"
  BY DEF Exit, Kill
<1>2. "cut" \in Errors
  BY DEF Errors
<1>3. ASSUME NEW r \in Requests
      PROVE  RequestOK(req'[r]) /\ req'[r].pc = "done"
  <2>1. CASE Busy(r)
    <3>1. \A status \in {1, 2} \cup Answers :
            /\ status \in {0, 1, 2} \cup Answers
            /\ RequestOK(Finished(r, "cut", status))
            /\ Finished(r, "cut", status).pc = "done"
      BY <1>2, FinishedOK, FinishedFields
    <3>2. 2 \in {1, 2} \cup Answers
      OBVIOUS
    <3>3. req'[r] = Finished(r, "cut", 2)
      BY <1>1, <2>1
    <3> QED
      BY <3>1, <3>2, <3>3
  <2>2. CASE ~ Busy(r)
    BY <1>1, <2>2 DEF GatewayInv, RequestsInv, Busy
  <2> QED
    BY <2>1, <2>2
<1>4. RequestsInv'
  BY <1>1, <1>3 DEF RequestsInv, RequestOK
<1>5. QueueInv'
  BY <1>1 DEF QueueInv
<1>6. ProcessInv'
  BY <1>1, <1>3 DEF ProcessInv, Busy
<1>7. SlotsAreHandlers'
  <2>1. {r \in Requests : /\ req'[r].route = "search"
                          /\ req'[r].pc \in {"handler", "calling"}} = {}
    BY <1>3
  <2> QED
    BY <1>1, <2>1, FS_EmptySet, RoomForNone DEF SlotsAreHandlers
<1>8. CutOnlyAfterGrace'
  <2>1. CASE graceOver'
    BY <2>1 DEF CutOnlyAfterGrace
  <2>2. CASE ~ graceOver'
    <3>1. server = "closing" /\ ~ graceOver
      BY <2>2 DEF Exit, Kill
    <3>2. \A r \in Requests : req'[r] = req[r]
      BY <1>1, <3>1 DEF GatewayInv, ProcessInv
    <3> QED
      BY <3>1, <3>2 DEF GatewayInv, CutOnlyAfterGrace
  <2> QED
    BY <2>1, <2>2
<1> QED
  BY <1>4, <1>5, <1>6, <1>7, <1>8 DEF GatewayInv

\* A new process begins with nothing.
LEMMA RestartKeeps ==
  ASSUME GatewayInv, Restart
  PROVE  GatewayInv'
<1>1. /\ \A r \in Requests : req'[r] = NoRequest
      /\ req' = [r \in Requests |-> NoRequest]
      /\ server' = "up" /\ UNCHANGED <<sem, waiting>>
  BY DEF Restart
<1>2. \A r \in Requests : ~ Busy(r)
  BY DEF Restart, GatewayInv, ProcessInv
<1>3. waiting = << >>
  <2>1. \A i \in DOMAIN waiting : waiting[i] \in Requests
    BY DEF GatewayInv, QueueInv
  <2>2. DOMAIN waiting = {}
    BY <1>2, <2>1 DEF GatewayInv, QueueInv, Busy
  <2> QED
    BY <2>2 DEF GatewayInv, QueueInv
<1>4. sem = 0
  <2>1. {r \in Requests : /\ req[r].route = "search"
                          /\ req[r].pc \in {"handler", "calling"}} = {}
    BY <1>2 DEF Busy
  <2> QED
    BY <2>1, FS_EmptySet DEF GatewayInv, SlotsAreHandlers
<1>5. RequestsInv'
  BY <1>1, NoRequestOK DEF RequestsInv
<1>6. QueueInv'
  BY <1>1, <1>3 DEF QueueInv
<1>7. ProcessInv'
  BY <1>1 DEF ProcessInv
<1>8. SlotsAreHandlers'
  <2>1. {r \in Requests : /\ req'[r].route = "search"
                          /\ req'[r].pc \in {"handler", "calling"}} = {}
    BY <1>1, NoRequestOK
  <2> QED
    BY <1>1, <1>4, <2>1, FS_EmptySet, RoomForNone DEF SlotsAreHandlers
<1>9. CutOnlyAfterGrace'
  BY <1>1, NoRequestOK DEF CutOnlyAfterGrace
<1> QED
  BY <1>5, <1>6, <1>7, <1>8, <1>9 DEF GatewayInv

\* Every step keeps the invariant.
LEMMA GatewayNext == GatewayInv /\ [Next]_vars => GatewayInv'
<1> SUFFICES ASSUME GatewayInv, [Next]_vars PROVE GatewayInv'
  OBVIOUS
<1>1. CASE Refill \/ TokenExpires \/ UNCHANGED vars
  <2>1. UNCHANGED <<server, graceOver, req, sem, waiting>>
    BY <1>1 DEF Refill, TokenExpires, vars
  <2> QED
    BY <2>1 DEF GatewayInv, RequestsInv, QueueInv, ProcessInv, Busy,
                SlotsAreHandlers, CutOnlyAfterGrace
<1>2. CASE Interrupt \/ PublicDrained \/ Drained \/ GraceOver
  <2>1. /\ UNCHANGED <<req, sem, waiting>>
        /\ graceOver' = graceOver \/ graceOver'
    BY <1>2 DEF Interrupt, PublicDrained, Drained, GraceOver
  <2>2. ProcessInv'
    BY <1>2 DEF Interrupt, PublicDrained, Drained, GraceOver, GatewayInv,
                ProcessInv, Busy
  <2> QED
    BY <2>1, <2>2 DEF GatewayInv, RequestsInv, QueueInv, SlotsAreHandlers,
                      CutOnlyAfterGrace
<1> QED
  BY <1>1, <1>2, ProcessKeeps, OutsideKeeps, PermitKeeps, EndKeeps, RestartKeeps
     DEF Next

-----------------------------------------------------------------------------
(* The theorems.                                                           *)

\* The invariant holds at all times.
THEOREM GatewayInvariant == Spec => []GatewayInv
  BY GatewayInit, GatewayNext, PTL DEF Spec

\* SlotsAreHandlers: no slot of the limiter leaks, on any way out of the
\* handler (limits.go:14-23).
THEOREM NoSlotLeaks == Spec => []SlotsAreHandlers
<1>1. GatewayInv => SlotsAreHandlers
  BY DEF GatewayInv
<1> QED
  BY GatewayInvariant, <1>1, PTL

\* BlameIsRight: the three translations of every error of every service
\* together tell the user who is at fault, but for the four answers it names
\* (api.go:41-684).
THEOREM UsersReadWhoIsAtFault == Spec => []BlameIsRight
<1>1. GatewayInv => BlameIsRight
  <2> SUFFICES ASSUME GatewayInv, NEW r \in Requests,
                      /\ req[r].pc = "done" /\ req[r].op # "none"
                      /\ req[r].err \notin {"panic", "cut"}
                      /\ req[r].route # "ping"
               PROVE  Fair(req[r].op, req[r].err, req[r].status)
    BY DEF BlameIsRight, Fair, Blameable, Excepted
  <2> QED
    BY DEF GatewayInv, RequestsInv, RequestOK, Blamed
<1> QED
  BY GatewayInvariant, <1>1, PTL

\* CutOnlyAfterGrace: a shutdown waits for what is under way on either server
\* (main.go:166-185).
THEOREM ShutdownIsGraceful == Spec => []CutOnlyAfterGrace
<1>1. GatewayInv => CutOnlyAfterGrace
  BY DEF GatewayInv
<1> QED
  BY GatewayInvariant, <1>1, PTL
=============================================================================
