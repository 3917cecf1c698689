---------------------------- MODULE ApiGateway ----------------------------
(***************************************************************************)
(* The api process: its routes and servers (api/main.go), the middleware   *)
(* in front of the handlers (api/adapters/rest/middleware), the handlers   *)
(* (api/adapters/rest/api.go) and their gRPC calls.  What a call does in   *)
(* the service is the matter of the other modules; here it answers with    *)
(* one of the errors of its core, or the answer does not come: the service *)
(* is unreachable, the handler's deadline passes, the HTTP client leaves   *)
(* (which cancels the request's context), or the api is shut down.         *)
(***************************************************************************)
EXTENDS ApiErrors, Sequences, FiniteSets

CONSTANTS
  Requests,           \* HTTP requests under way at the same time
  Routes,             \* the routes a request may be for
  SearchConcurrency,  \* slots of WithConcurrencyLimit
  Pinged              \* the services in pingmap

Searches == {"search", "isearch"}
Comics == {"comic", "comics", "random"}
OfUpdate == {"update", "drop", "stats", "status"}
OfAuth == {"register", "userlogin", "botlogin"}
OfFavorites == {"favlist", "favadd", "favdelete"}
ForAdmin == {"update", "drop"}
Internal == {"botlogin"}        \* served on a port of their own
AllRoutes == {"ping", "login"} \cup Searches \cup Comics \cup OfUpdate
               \cup OfAuth \cup OfFavorites

UpdateOps == {"Update", "Drop", "Stats", "Status"}
SearchOps == {"Find", "IndexedSearch", "GetComic", "ListComics", "RandomComic"}
AuthOps == {"Register", "Login", "BotLogin"}
FavoritesOps == {"List", "Add", "Delete"}

ASSUME GatewayAssumption ==
  /\ SearchConcurrency \in Nat \ {0}
  /\ IsFiniteSet(Requests)
  /\ Routes \in [Requests -> SUBSET AllRoutes]
  /\ Pinged \cap (UpdateOps \cup SearchOps \cup AuthOps \cup FavoritesOps) = {}

VARIABLES
  server,       \* "up", "draining" (Shutdown of the public server), "drained"
                \* (of the internal one), "closing" (Close), "stopped"
  graceOver,    \* shutdownCtx is done, or the process was killed
  req,          \* the requests
  sem,          \* elements in the limiter's channel
  waiting,      \* requests in lim.Wait, which serves them in order
  permits,      \* tokens in the rate limiter's bucket, at most 1
  admin         \* the last superuser token: "none", "live" or "expired"

vars == <<server, graceOver, req, sem, waiting, permits, admin>>

NoRequest ==
  [pc |-> "done", route |-> "none", token |-> "none", gone |-> FALSE,
   calls |-> {}, op |-> "none", err |-> "none", status |-> 0]

Init ==
  /\ server = "up" /\ graceOver = FALSE
  /\ req = [r \in Requests |-> NoRequest]
  /\ sem = 0 /\ waiting = << >> /\ permits = 1
  /\ admin = "none"

-----------------------------------------------------------------------------
(* Tables.                                                                 *)

\* The gRPC calls of a handler that it makes in any order (Ping ranges over a
\* map) or one after another (NextCalls).
FirstCalls(route) ==
  CASE route = "ping" -> Pinged
    [] route = "update" -> {"Update"}      [] route = "drop" -> {"Drop"}
    [] route = "stats" -> {"Stats"}        [] route = "status" -> {"Status"}
    [] route = "search" -> {"Find"}        [] route = "isearch" -> {"IndexedSearch"}
    [] route = "comic" -> {"GetComic"}     [] route = "comics" -> {"ListComics"}
    [] route = "random" -> {"RandomComic"} [] route = "register" -> {"Register"}
    [] route = "userlogin" -> {"Login"}    [] route = "botlogin" -> {"BotLogin"}
    [] route = "favlist" -> {"List"}       [] route = "favadd" -> {"GetComic"}
    [] route = "favdelete" -> {"Delete"}

ServerCode(op, err) ==
  CASE op \in Pinged -> PingServer(op, err)
    [] op \in UpdateOps -> UpdateServer(op, err)
    [] op \in SearchOps -> SearchServer(op, err)
    [] op \in AuthOps -> AuthServer(op, err)
    [] op \in FavoritesOps -> FavoritesServer(op, err)

ClientError(op, code) ==
  CASE op \in Pinged -> IF code = "OK" THEN "nil" ELSE "ErrUnavailable"
    [] op \in UpdateOps -> UpdateClient(op, code)
    [] op \in SearchOps -> SearchClient(op, code)
    [] op \in AuthOps -> AuthClient(op, code)
    [] op \in FavoritesOps -> FavoritesClient(op, code)

HandlerStatus(route, op, err) ==
  CASE route = "ping" -> 200
    [] route \in OfUpdate -> UpdateHandlers(route, err)
    [] route \in Searches -> SearchHandlers(route, err)
    [] route \in Comics -> ComicsHandlers(route, err)
    [] route \in OfAuth -> AuthHandlers(route, err)
    [] route \in OfFavorites -> FavoritesHandlers(route, op, err)

\* The handlers that look at their input before the first call.
Validates == {"search", "isearch", "comic", "comics", "favadd", "favdelete"}
               \cup OfAuth

-----------------------------------------------------------------------------
(* Answers.                                                                *)

Busy(r) == req[r].pc # "done"
Serving == server \in {"up", "draining", "drained", "closing"}

\* What the request leaves behind: route, last call and its error, status, and
\* whether the client was there to read it.
Finished(r, err, status) ==
  [NoRequest EXCEPT !.route = req[r].route, !.gone = req[r].gone,
                    !.op = req[r].op, !.err = err, !.status = status]

\* Answer before the limiter, or after it was passed: the deferred receive from
\* sem runs on every way out of ServeHTTP.
Reply(r, err, status) ==
  /\ req' = [req EXCEPT ![r] = Finished(r, err, status)]
  /\ sem' = IF req[r].route = "search" /\ req[r].pc # "arrived"
              THEN sem - 1 ELSE sem
  /\ UNCHANGED <<server, graceOver, waiting, permits, admin>>

Goto(r, pc) == req' = [req EXCEPT ![r].pc = pc]

-----------------------------------------------------------------------------
(* Middleware.                                                             *)

\* The public server is shut down before the internal one, and a connection
\* accepted before its server's Shutdown may still bring a request that is
\* waited for.
Accepting(route) ==
  \/ server \in {"up", "draining"}
  \/ server = "drained" /\ route \in Internal

Arrive(r) ==
  /\ ~ Busy(r)
  /\ \E route \in Routes[r], token \in {"none", "user", "admin"} :
       /\ Accepting(route)
       /\ token = "user" => route \in OfFavorites \cup ForAdmin
       /\ token = "admin" => route \in ForAdmin /\ admin # "none"
       /\ req' = [req EXCEPT ![r] =
            [NoRequest EXCEPT !.pc = "arrived", !.route = route,
                              !.token = token]]
  /\ UNCHANGED <<server, graceOver, sem, waiting, permits, admin>>

\* A handler without middleware.
Enter(r) ==
  /\ req[r].pc = "arrived"
  /\ req[r].route \notin Searches \cup ForAdmin \cup OfFavorites
  /\ Goto(r, "handler")
  /\ UNCHANGED <<server, graceOver, sem, waiting, permits, admin>>

WithConcurrencyLimit(r) ==
  /\ req[r].pc = "arrived" /\ req[r].route = "search"
  /\ \/ /\ sem < SearchConcurrency
        /\ sem' = sem + 1
        /\ Goto(r, "handler")
        /\ UNCHANGED <<server, graceOver, waiting, permits, admin>>
     \/ /\ sem >= SearchConcurrency
        /\ Reply(r, "busy", 503)

\* lim.Wait reserves the next free moment.
WithRateLimit(r) ==
  /\ req[r].pc = "arrived" /\ req[r].route = "isearch"
  /\ waiting' = Append(waiting, r)
  /\ Goto(r, "waiting")
  /\ UNCHANGED <<server, graceOver, sem, permits, admin>>

\* The moment has come ...
Permit ==
  /\ waiting # << >> /\ permits > 0
  /\ waiting' = Tail(waiting)
  /\ permits' = permits - 1
  /\ Goto(Head(waiting), "handler")
  /\ UNCHANGED <<server, graceOver, sem, admin>>

\* ... or the client does not wait for it: the handler returns, with no answer.
\* Wait has no other error: one token is not more than the burst, and the
\* request's context has no deadline.
WaitEnds(r) ==
  /\ req[r].pc = "waiting" /\ req[r].gone
  /\ \E i \in DOMAIN waiting :
       /\ waiting[i] = r
       /\ waiting' = SubSeq(waiting, 1, i - 1)
                       \o SubSeq(waiting, i + 1, Len(waiting))
  /\ req' = [req EXCEPT ![r] = Finished(r, "none", 0)]
  /\ UNCHANGED <<server, graceOver, sem, permits, admin>>

Refill ==
  /\ permits = 0
  /\ permits' = 1
  /\ UNCHANGED <<server, graceOver, req, sem, waiting, admin>>

IsSuperuserToken(token) == token = "admin" /\ admin = "live"

RequireSuperuser(r) ==
  /\ req[r].pc = "arrived" /\ req[r].route \in ForAdmin
  /\ IF ~ IsSuperuserToken(req[r].token) THEN Reply(r, "unauthorized", 401)
     ELSE /\ Goto(r, "handler")
          /\ UNCHANGED <<server, graceOver, sem, waiting, permits, admin>>

\* A user's token that has expired counts as "none".
RequireUser(r) ==
  /\ req[r].pc = "arrived" /\ req[r].route \in OfFavorites
  /\ IF req[r].token # "user" THEN Reply(r, "unauthorized", 401)
     ELSE /\ Goto(r, "handler")
          /\ UNCHANGED <<server, graceOver, sem, waiting, permits, admin>>

\* POST /api/login: a body that does not parse, a wrong password, a token that
\* cannot be signed, or a new superuser token.
Login(r) ==
  /\ req[r].pc = "handler" /\ req[r].route = "login"
  /\ \E status \in {200, 400, 401, 500} :
       /\ req' = [req EXCEPT ![r] = Finished(r, "login", status)]
       /\ admin' = IF status = 200 THEN "live" ELSE admin
  /\ UNCHANGED <<server, graceOver, sem, waiting, permits>>

TokenExpires ==
  /\ admin = "live"
  /\ admin' = "expired"
  /\ UNCHANGED <<server, graceOver, req, sem, waiting, permits>>

-----------------------------------------------------------------------------
(* Handlers.                                                               *)

\* The input is no good.
Invalid(r) ==
  /\ req[r].pc = "handler" /\ req[r].route \in Validates
  /\ Reply(r, "invalid", 400)

\* The first call.
Handle(r) ==
  /\ req[r].pc = "handler" /\ req[r].route # "login"
  /\ \E op \in FirstCalls(req[r].route) :
       req' = [req EXCEPT ![r].pc = "calling", ![r].op = op,
                          ![r].calls = FirstCalls(req[r].route) \ {op}]
  /\ UNCHANGED <<server, graceOver, sem, waiting, permits, admin>>

\* The call ended: err is the error of the service's core, "lost" if none came.
Proceed(r, err, code) ==
  IF req[r].calls # {}
    THEN \E op \in req[r].calls :
           /\ req' = [req EXCEPT ![r].op = op, ![r].calls = @ \ {op}]
           /\ UNCHANGED <<server, graceOver, sem, waiting, permits, admin>>
  ELSE IF req[r].route = "favadd" /\ req[r].op = "GetComic" /\ code = "OK"
    THEN /\ req' = [req EXCEPT ![r].op = "Add"]
         /\ UNCHANGED <<server, graceOver, sem, waiting, permits, admin>>
  ELSE Reply(r, err,
             HandlerStatus(req[r].route, req[r].op, ClientError(req[r].op, code)))

\* The service answers.
Return(r) ==
  /\ req[r].pc = "calling"
  /\ \E err \in ServiceErrors(req[r].op) :
       Proceed(r, err, ServerCode(req[r].op, err))

\* The service cannot be reached.
Unreachable(r) ==
  /\ req[r].pc = "calling"
  /\ Proceed(r, "lost", "Unavailable")

\* Mutant of Deadline: the context of Search has no timeout.
DeadlineNotForSearch(r) ==
  /\ req[r].pc = "calling" /\ req[r].route \notin {"update", "search"}
  /\ Proceed(r, "lost", "DeadlineExceeded")

\* context.WithTimeout: every handler but Update's.
Deadline(r) ==
  /\ req[r].pc = "calling" /\ req[r].route # "update"
  /\ Proceed(r, "lost", "DeadlineExceeded")

\* The request's context is cancelled, or the connection is closed.
Cancelled(r) ==
  /\ req[r].pc = "calling"
  /\ (req[r].gone /\ req[r].route # "update") \/ server = "closing"
  /\ Proceed(r, "lost", "Canceled")

ClientLeaves(r) ==
  /\ Busy(r) /\ ~ req[r].gone
  /\ req' = [req EXCEPT ![r].gone = TRUE]
  /\ UNCHANGED <<server, graceOver, sem, waiting, permits, admin>>

\* Mutant of Panic: the slot is given back after ServeHTTP, without defer.
PanicKeepsSlot(r) ==
  /\ req[r].pc \in {"handler", "calling"}
  /\ req' = [req EXCEPT ![r] = Finished(r, "panic", 1)]
  /\ UNCHANGED <<server, graceOver, sem, waiting, permits, admin>>

\* net/http recovers a panic and closes the connection (status 1).
Panic(r) ==
  /\ req[r].pc \in {"handler", "calling"}
  /\ Reply(r, "panic", 1)

-----------------------------------------------------------------------------
(* The process.                                                            *)

\* os.Interrupt, or one of the two servers cannot listen.
Interrupt ==
  /\ server = "up"
  /\ server' = "draining"
  /\ UNCHANGED <<graceOver, req, sem, waiting, permits, admin>>

\* Shutdown of the public server returns when its requests have been answered,
PublicDrained ==
  /\ server = "draining"
  /\ \A r \in Requests : Busy(r) => req[r].route \in Internal
  /\ server' = "drained"
  /\ UNCHANGED <<graceOver, req, sem, waiting, permits, admin>>

\* Mutant of Drained: Shutdown of the internal server is not waited for.
DrainedAtOnce ==
  /\ server = "drained"
  /\ server' = "closing"
  /\ UNCHANGED <<graceOver, req, sem, waiting, permits, admin>>

\* that of the internal one thereafter when its have been ...
Drained ==
  /\ server = "drained" /\ \A r \in Requests : ~ Busy(r)
  /\ server' = "closing"
  /\ UNCHANGED <<graceOver, req, sem, waiting, permits, admin>>

\* ... or both, ten seconds after the first began.
GraceOver ==
  /\ server \in {"draining", "drained"}
  /\ server' = "closing" /\ graceOver' = TRUE
  /\ UNCHANGED <<req, sem, waiting, permits, admin>>

\* main returns after the clients are closed; what is under way is cut off
\* (status 2).
Exit ==
  /\ server = "closing"
  /\ server' = "stopped"
  /\ req' = [r \in Requests |-> IF Busy(r) THEN Finished(r, "cut", 2) ELSE req[r]]
  /\ sem' = 0 /\ waiting' = << >> /\ permits' = 1
  /\ UNCHANGED <<graceOver, admin>>

\* Any signal but os.Interrupt, SIGTERM included, ends the process at once.
Kill ==
  /\ Serving
  /\ server' = "stopped" /\ graceOver' = TRUE
  /\ req' = [r \in Requests |-> IF Busy(r) THEN Finished(r, "cut", 2) ELSE req[r]]
  /\ sem' = 0 /\ waiting' = << >> /\ permits' = 1
  /\ UNCHANGED admin

Restart ==
  /\ server = "stopped"
  /\ server' = "up" /\ graceOver' = FALSE
  /\ req' = [r \in Requests |-> NoRequest]
  /\ UNCHANGED <<sem, waiting, permits, admin>>

-----------------------------------------------------------------------------
\* What the api does by itself, and what the services and the faults do.
Process(r) ==
  \/ Enter(r) \/ WithConcurrencyLimit(r) \/ WithRateLimit(r) \/ WaitEnds(r)
  \/ RequireSuperuser(r) \/ RequireUser(r) \/ Login(r)
  \/ Invalid(r) \/ Handle(r) \/ Deadline(r)

Outside(r) ==
  \/ Arrive(r) \/ ClientLeaves(r)
  \/ Return(r) \/ Unreachable(r) \/ Cancelled(r) \/ Panic(r)

Next ==
  \/ \E r \in Requests : Process(r) \/ Outside(r)
  \/ Permit \/ Refill \/ TokenExpires
  \/ Interrupt \/ PublicDrained \/ Drained \/ GraceOver
  \/ Exit \/ Kill \/ Restart

Spec == Init /\ [][Next]_vars

\* The Go runtime runs every goroutine and its timers fire; of the services
\* nothing is assumed but that Update, which has no deadline, returns in the
\* end.
Fairness ==
  /\ \A r \in Requests : /\ WF_vars(Process(r))
                          /\ WF_vars(req[r].route = "update" /\ Return(r))
  /\ WF_vars(Permit) /\ WF_vars(Refill)

LiveSpec == Spec /\ Fairness

-----------------------------------------------------------------------------
(* Properties.                                                             *)

\* The limiter neither leaks nor forgets a slot: the channel holds one element
\* for each search in its handler, on every way out, a panic or a client that
\* left included, and never more than it has room for (limits.go:14-23).
SlotsAreHandlers ==
  /\ sem = Cardinality({r \in Requests : req[r].route = "search"
                                           /\ req[r].pc \in {"handler", "calling"}})
  /\ sem <= SearchConcurrency

\* The user reads who is at fault, through all three translations: success only
\* if the service succeeded, a 4xx exactly if the service blamed the request,
\* 503 exactly if it could not do its work now, 500 otherwise.  Four answers
\* differ: an Update that is running already is accepted (202), and an internal
\* error (500) is what becomes of a Drop that is refused because of it, of a
\* comic's number that uint32 cuts to 0, and of ErrNonePhrase, which no server
\* translates: it blames a phrase of which normalisation leaves no word (and
\* says of a random comic that there is none) (api.go:41-684, the gRPC servers
\* and clients).
BlameIsRight ==
  \A r \in Requests :
    LET q == req[r]
        blamed == {"ErrEmptyPhrase", "ErrBadArguments", "ErrToLargeLimit",
                   "ErrComicNotFound", "ErrUserAlreadyExists",
                   "ErrInvalidEmail", "ErrInvalidCredentials",
                   "ErrInvalidArgs", "ErrAlreadyExists", "ErrNotFound",
                   "ErrNonePhrase"}
        except == \/ q.err = "ErrAlreadyExists" /\ q.op \in {"Update", "Drop"}
                  \/ q.err = "ErrBadArguments" /\ q.op = "GetComic"
                  \/ q.err = "ErrNonePhrase"
    IN  q.pc = "done" /\ q.op # "none" /\ q.err \notin {"panic", "cut"}
          /\ q.route # "ping" =>
          /\ q.status \in {200, 204} <=> q.err = "nil"
          /\ q.status \in 400 .. 499 <=> (q.err \in blamed /\ ~ except)
          /\ q.status = 503 <=> q.err \in {"lost", "ErrUnavailable"}
          /\ q.status = 202 => q.err = "ErrAlreadyExists" /\ q.op = "Update"

\* A request that is cut off without an answer was cut off by a signal or after
\* the ten seconds of grace, on whichever of the two servers it arrived
\* (main.go:166-185).
CutOnlyAfterGrace ==
  \A r \in Requests : req[r].status = 2 => graceOver

\* Every request is answered in the end, whatever the others do: searches do
\* not wait for slots, waiting is served in order, and a deadline ends every
\* call but Update's.
EveryRequestAnswered == \A r \in Requests : Busy(r) ~> ~ Busy(r)
=============================================================================
