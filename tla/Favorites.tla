----------------------------- MODULE Favorites -----------------------------
(***************************************************************************)
(* Favorites, from the handlers of the api (api/adapters/rest/api.go) down *)
(* to the table of the favorites service (favorites/core/service.go,       *)
(* favorites/adapters/db/storage.go, favorites/adapters/grpc/server.go).   *)
(* An add asks the search service whether the comic exists and then asks   *)
(* the favorites service to insert a row, both within one deadline; the    *)
(* update service goes on in between.  When the deadline passes the user   *)
(* reads 503, whether or not the statement was or will still be executed.  *)
(***************************************************************************)
EXTENDS ComicsTable, Integers, FiniteSets

CONSTANTS
  Users,        \* user ids, from a valid token and never 0
  Calls,        \* calls under way at the same time
  Asked,        \* the numbers in the path, any positive int of 64 bits
  Word          \* 2^32

ASSUME FavoritesAssumption ==
  /\ Asked \subseteq Nat \ {0}
  /\ IsFiniteSet(Calls)
  /\ MaxID \in Nat
  /\ Word \in Nat \ {0} /\ Word % 2 = 0 /\ 2 * MaxID < Word

VARIABLES
  favorites,    \* the table: pairs of a user and a comic, the primary key
  late,         \* statements that the api gave up and Postgres may yet execute
  call,         \* the calls
  known,        \* history: the comics that were ever in the catalogue
  net,          \* history: per pair, adds minus deletes answered with 204
  unsure        \* history: pairs with a statement whose answer got lost

favVars == <<favorites, late, call, net, unsure>>
vars == <<tableVars, favVars, known>>

\* uint32(id) and int32(id)
AsUint32(id) == id % Word
AsInt32(id) == IF id % Word < Word \div 2 THEN id % Word ELSE (id % Word) - Word

Pairs == Users \X {AsInt32(id) : id \in Asked}

\* Nothing is under way; of the last request the status is left.
Free(status) == [pc |-> "free", op |-> "none", user |-> "none", id |-> 0,
                 status |-> status, items |-> {}]

Init ==
  /\ TableInit
  /\ favorites = {} /\ late = {}
  /\ call = [c \in Calls |-> Free(0)]
  /\ known = Stored
  /\ net = [p \in Pairs |-> 0]
  /\ unsure = {}

-----------------------------------------------------------------------------
(* The api's handlers.                                                     *)

Pair(c) == <<call[c].user, AsInt32(call[c].id)>>

Goto(c, pc) == call' = [call EXCEPT ![c].pc = pc]
Reply(c, status) == call' = [call EXCEPT ![c] = Free(status)]

\* A request that passed RequireUser and strconv.Atoi.
Begin(c) ==
  /\ call[c].pc = "free"
  /\ \E op \in {"add", "delete", "list"}, user \in Users, id \in Asked :
       call' = [call EXCEPT ![c] =
         [pc |-> IF op = "add" THEN "check" ELSE "send", op |-> op,
          user |-> user, id |-> IF op = "list" THEN 0 ELSE id, status |-> 0,
          items |-> {}]]
  /\ UNCHANGED <<tableVars, favorites, late, known, net, unsure>>

\* Mutant of CheckComic: a comic that was not found is no reason to stop.
CheckComicSkipped(c) ==
  /\ call[c].pc = "check"
  /\ Goto(c, "send")
  /\ UNCHANGED <<tableVars, favorites, late, known, net, unsure>>

\* search.GetComic, with the number cut to 32 bits.
CheckComic(c) ==
  /\ call[c].pc = "check"
  /\ LET id == AsUint32(call[c].id)
     IN  \/ id \in Stored /\ Goto(c, "send")
         \/ id \notin Stored /\ id # 0 /\ Reply(c, 404)
         \/ id = 0 /\ Reply(c, 500)
  /\ UNCHANGED <<tableVars, favorites, late, known, net, unsure>>

\* The search service fails, cannot be reached, or the deadline passes.
CheckFails(c) ==
  /\ call[c].pc = "check"
  /\ \E status \in {500, 503} : Reply(c, status)
  /\ UNCHANGED <<tableVars, favorites, late, known, net, unsure>>

-----------------------------------------------------------------------------
(* The favorites service.                                                  *)

Refuse(c) ==
  /\ call[c].pc = "send" /\ call[c].op # "list"
  /\ AsInt32(call[c].id) <= 0
  /\ Reply(c, 400)
  /\ UNCHANGED <<tableVars, favorites, late, known, net, unsure>>

Outcome(c, status) ==
  call' = [call EXCEPT ![c].pc = "reply", ![c].status = status]

\* INSERT; the primary key refuses a second row.
Add(c) ==
  /\ call[c].pc = "send" /\ call[c].op = "add" /\ AsInt32(call[c].id) > 0
  /\ favorites' = favorites \cup {Pair(c)}
  /\ Outcome(c, IF Pair(c) \in favorites THEN 409 ELSE 204)
  /\ UNCHANGED <<tableVars, late, known, net, unsure>>

\* Mutant of Delete: WHERE forgets the user.
DeleteForAll(c) ==
  /\ call[c].pc = "send" /\ call[c].op = "delete" /\ AsInt32(call[c].id) > 0
  /\ favorites' = {f \in favorites : f[2] # Pair(c)[2]}
  /\ Outcome(c, IF favorites' = favorites THEN 404 ELSE 204)
  /\ UNCHANGED <<tableVars, late, known, net, unsure>>

\* DELETE, and RowsAffected.
Delete(c) ==
  /\ call[c].pc = "send" /\ call[c].op = "delete" /\ AsInt32(call[c].id) > 0
  /\ favorites' = favorites \ {Pair(c)}
  /\ Outcome(c, IF Pair(c) \in favorites THEN 204 ELSE 404)
  /\ UNCHANGED <<tableVars, late, known, net, unsure>>

\* SELECT ... WHERE user_id = $1
List(c) ==
  /\ call[c].pc = "send" /\ call[c].op = "list"
  /\ call' = [call EXCEPT ![c].pc = "reply", ![c].status = 200, ![c].items =
                {p[2] : p \in {f \in favorites : f[1] = call[c].user}}]
  /\ UNCHANGED <<tableVars, favorites, late, known, net, unsure>>

\* The statement fails, or the favorites service cannot be reached.
StatementFails(c) ==
  /\ call[c].pc = "send"
  /\ \E status \in {500, 503} : Reply(c, status)
  /\ UNCHANGED <<tableVars, favorites, late, known, net, unsure>>

-----------------------------------------------------------------------------
(* Answers.                                                                *)

Answer(c) ==
  /\ call[c].pc = "reply"
  /\ Reply(c, call[c].status)
  /\ net' = IF call[c].status # 204 \/ Pair(c) \in unsure THEN net
            ELSE [net EXCEPT ![Pair(c)] =
                    IF call[c].op = "add" THEN @ + 1 ELSE @ - 1]
  /\ UNCHANGED <<tableVars, favorites, late, known, unsure>>

\* The deadline passes, or the favorites service dies, with the statement on
\* its way or its answer on the way back.
GiveUp(c) ==
  /\ call[c].pc \in {"send", "reply"}
  /\ call[c].op # "list" => AsInt32(call[c].id) > 0
  /\ Reply(c, 503)
  /\ IF call[c].op = "list" THEN UNCHANGED <<late, net, unsure>>
     ELSE /\ unsure' = unsure \cup {Pair(c)}
          /\ net' = [net EXCEPT ![Pair(c)] = 0]
          /\ late' = IF call[c].pc = "send"
                       THEN late \cup {<<call[c].op, Pair(c)>>} ELSE late
  /\ UNCHANGED <<tableVars, favorites, known>>

\* Postgres executes a statement that was given up.
Settle ==
  /\ \E s \in late :
       /\ late' = late \ {s}
       /\ favorites' = IF s[1] = "add" THEN favorites \cup {s[2]}
                                       ELSE favorites \ {s[2]}
  /\ UNCHANGED <<tableVars, call, known, net, unsure>>

\* The update service goes on meanwhile.
TableStep ==
  /\ TableNext
  /\ known' = known \cup {id \in IDs : rows'[id] # Absent}
  /\ UNCHANGED favVars

Next ==
  \/ \E c \in Calls :
       \/ Begin(c) \/ CheckComic(c) \/ CheckFails(c)
       \/ Refuse(c) \/ Add(c) \/ Delete(c) \/ List(c) \/ StatementFails(c)
       \/ Answer(c) \/ GiveUp(c)
  \/ Settle
  \/ TableStep

Spec == Init /\ [][Next]_vars

-----------------------------------------------------------------------------
(* Properties.                                                             *)

\* What is saved was in the catalogue at some time, though the comic that is
\* checked is the number cut to an uint32, the one that is saved is the number
\* cut to an int32, and a statement may be executed long after its check
\* (api.go:600-639, search.go:117-120).
SavedWasListed == \A f \in favorites : f[2] \in known

\* The answers balance: for a pair no answer about which got lost, as soon as
\* none is on its way, the adds minus the deletes that were answered 204 are 1
\* if the pair is saved and 0 if it is not.  The order in which the answers come
\* says nothing, since calls overlap; that the balance is right whatever their
\* interleaving rests on the primary key and on RowsAffected (storage.go:35-63).
AnswersBalance ==
  \A p \in Pairs \ unsure :
    (\A c \in Calls : ~ (call[c].pc = "reply" /\ Pair(c) = p)) =>
      net[p] = (IF p \in favorites THEN 1 ELSE 0)
=============================================================================
