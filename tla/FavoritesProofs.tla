-------------------------- MODULE FavoritesProofs --------------------------
(***************************************************************************)
(* Safety of favorites for every number of calls under way, users, comics  *)
(* and asked numbers, and every word size that the catalogue fits into.    *)
(***************************************************************************)
EXTENDS Favorites, FiniteSetTheorems, TLAPS

-----------------------------------------------------------------------------
(* The inductive invariant.                                                *)

Ops == {"add", "delete", "list"}
Statuses == {0, 200, 204, 400, 404, 409, 500, 503}
CallRecords ==
  [pc : {"free", "check", "send", "reply"}, op : Ops \cup {"none"},
   user : Users \cup {"none"}, id : Asked \cup {0}, status : Statuses,
   items : SUBSET {AsInt32(id) : id \in Asked}]

\* The types, and what a call under way has in its hands.
TypeInv ==
  /\ call \in [Calls -> CallRecords]
  /\ favorites \subseteq Pairs
  /\ late \subseteq {"add", "delete"} \X Pairs
  /\ net \in [Pairs -> Int]
  /\ unsure \subseteq Pairs
  /\ \A c \in Calls :
       /\ call[c].pc # "free" => call[c].user \in Users /\ call[c].op \in Ops
       /\ call[c].pc # "free" /\ call[c].op # "list" => call[c].id \in Asked
       /\ call[c].pc = "check" => call[c].op = "add"

\* A statement that adds a comic has passed the check, on its way to the
\* database or given up.
ListedInv ==
  /\ Stored \subseteq known
  /\ \A c \in Calls :
       call[c].pc = "send" /\ call[c].op = "add" /\ AsInt32(call[c].id) > 0 =>
         AsInt32(call[c].id) \in known
  /\ \A s \in late : s[1] = "add" => s[2][2] \in known
  /\ SavedWasListed

\* The call's statement has succeeded and its 204 is on the way back.
Succeeded(c, op, p) ==
  /\ call[c].pc = "reply" /\ call[c].op = op /\ call[c].status = 204
  /\ Pair(c) = p
OnTheWay(op, p) == {c \in Calls : Succeeded(c, op, p)}

\* A pair is saved exactly if the adds exceed the deletes by one, those
\* counted whose answer is still on the way; statements that were given up
\* concern only pairs nobody is sure about.
CountInv ==
  /\ \A c \in Calls :
       call[c].pc = "reply" /\ call[c].op = "list" => call[c].status # 204
  /\ \A s \in late : s[2] \in unsure
  /\ \A p \in Pairs \ unsure :
       net[p] + Cardinality(OnTheWay("add", p))
              - Cardinality(OnTheWay("delete", p))
         = IF p \in favorites THEN 1 ELSE 0

FavInv == TypeInv /\ ListedInv /\ CountInv

-----------------------------------------------------------------------------
(* Numbers.                                                                *)

\* A number whose low 32 bits are the id of a comic is cut to the same id by
\* both conversions, since the catalogue has fewer than 2^31 comics.
LEMMA SameCut ==
  ASSUME NEW id \in Nat, AsUint32(id) \in IDs
  PROVE  AsInt32(id) = AsUint32(id)
<1> DEFINE x == id % Word
<1>1. x \in Nat /\ x <= MaxID
  BY FavoritesAssumption DEF AsUint32, IDs
<1>2. x < Word \div 2
  <2> HIDE DEF x
  <2> QED
    BY <1>1, FavoritesAssumption
<1> QED
  BY <1>2 DEF AsInt32, AsUint32

\* What a call adds or deletes is a pair.
LEMMA PairType ==
  ASSUME TypeInv, NEW c \in Calls, call[c].pc # "free", call[c].op # "list"
  PROVE  Pair(c) \in Pairs /\ Pair(c)[2] = AsInt32(call[c].id)
  BY DEF TypeInv, Pair, Pairs

-----------------------------------------------------------------------------
(* Types.                                                                  *)

\* Nothing is under way at first.
LEMMA FavInit == Init => FavInv
<1> SUFFICES ASSUME Init PROVE FavInv
  OBVIOUS
<1>0. \A status \in Statuses : Free(status) \in CallRecords
  BY DEF Free, CallRecords, Ops
<1>1. \A c \in Calls : call[c] = Free(0) /\ call[c].pc = "free"
  BY DEF Init, Free
<1>2. TypeInv
  BY <1>0, <1>1 DEF Init, TypeInv, Statuses
<1>3. ListedInv
  BY <1>1 DEF Init, ListedInv, SavedWasListed
<1>4. CountInv
  <2>1. \A op, p : OnTheWay(op, p) = {}
    BY <1>1 DEF OnTheWay, Succeeded
  <2> QED
    BY <1>1, <2>1, FS_EmptySet DEF Init, CountInv
<1> QED
  BY <1>2, <1>3, <1>4 DEF FavInv

\* A call that ends keeps the types.
LEMMA ReplyTypes ==
  ASSUME TypeInv, NEW c \in Calls, NEW status \in Statuses, Reply(c, status)
  PROVE  /\ call' \in [Calls -> CallRecords] /\ call'[c] = Free(status)
         /\ call'[c].pc = "free"
         /\ \A d \in Calls \ {c} : call'[d] = call[d]
<1>1. Free(status) \in CallRecords /\ Free(status).pc = "free"
  BY DEF Free, CallRecords, Ops
<1> QED
  BY <1>1 DEF TypeInv, Reply

\* A call goes on, with the same request.
Moves(c, pc, status) ==
  /\ call' \in [Calls -> CallRecords]
  /\ call'[c].pc = pc /\ call'[c].status = status
  /\ call'[c].op = call[c].op /\ call'[c].user = call[c].user
  /\ call'[c].id = call[c].id
  /\ \A d \in Calls \ {c} : call'[d] = call[d]

\* Filling in fields of a call keeps the types.
LEMMA MoveTypes ==
  ASSUME TypeInv, NEW c \in Calls, NEW pc \in {"send", "reply"},
         NEW status \in Statuses,
         NEW items \in SUBSET {AsInt32(id) : id \in Asked},
         call' = [call EXCEPT ![c] = [@ EXCEPT !.pc = pc, !.status = status,
                                               !.items = items]]
  PROVE  Moves(c, pc, status)
<1> DEFINE r == [call[c] EXCEPT !.pc = pc, !.status = status, !.items = items]
<1>1. call[c] \in CallRecords /\ call \in [Calls -> CallRecords]
  BY DEF TypeInv
<1>2. /\ r \in CallRecords
      /\ r.pc = pc /\ r.status = status /\ r.op = call[c].op
      /\ r.user = call[c].user /\ r.id = call[c].id
  BY <1>1 DEF CallRecords
<1>3. call' = [call EXCEPT ![c] = r]
  BY <1>1
<1> HIDE DEF r
<1> QED
  BY <1>1, <1>2, <1>3 DEF Moves

\* A call that passed the check goes on.
LEMMA GotoMoves ==
  ASSUME TypeInv, NEW c \in Calls, Goto(c, "send")
  PROVE  Moves(c, "send", call[c].status)
<1>1. call[c] \in CallRecords /\ call \in [Calls -> CallRecords]
  BY DEF TypeInv
<1>2. call' = [call EXCEPT ![c] = [@ EXCEPT !.pc = "send",
                     !.status = call[c].status, !.items = call[c].items]]
  <2>1. [call[c] EXCEPT !.pc = "send"] =
          [call[c] EXCEPT !.pc = "send", !.status = call[c].status,
                          !.items = call[c].items]
    BY <1>1 DEF CallRecords
  <2>2. call' = [call EXCEPT ![c] = [call[c] EXCEPT !.pc = "send"]]
    BY <1>1 DEF Goto
  <2> QED
    BY <2>1, <2>2
<1> QED
  BY <1>1, <1>2, MoveTypes DEF CallRecords

\* A call whose statement has been executed goes on.
LEMMA OutcomeMoves ==
  ASSUME TypeInv, NEW c \in Calls, NEW status \in Statuses, Outcome(c, status)
  PROVE  Moves(c, "reply", status)
<1>1. call[c] \in CallRecords /\ call \in [Calls -> CallRecords]
  BY DEF TypeInv
<1>2. call' = [call EXCEPT ![c] = [@ EXCEPT !.pc = "reply",
                     !.status = status, !.items = call[c].items]]
  BY <1>1 DEF Outcome, CallRecords
<1> QED
  BY <1>1, <1>2, MoveTypes DEF CallRecords

\* So does a call that has read the list.
LEMMA ListMoves ==
  ASSUME TypeInv, NEW c \in Calls, List(c)
  PROVE  Moves(c, "reply", 200)
<1> DEFINE items == {p[2] : p \in {f \in favorites : f[1] = call[c].user}}
<1>1. call[c] \in CallRecords /\ call \in [Calls -> CallRecords]
  BY DEF TypeInv
<1>2. items \in SUBSET {AsInt32(id) : id \in Asked}
  BY DEF TypeInv, Pairs
<1>3. call' = [call EXCEPT ![c].pc = "reply", ![c].status = 200,
                           ![c].items = items]
  BY DEF List
<1> HIDE DEF items
<1>4. call' = [call EXCEPT ![c] = [@ EXCEPT !.pc = "reply",
                     !.status = 200, !.items = items]]
  BY <1>1, <1>3
<1>5. 200 \in Statuses
  BY DEF Statuses
<1> QED
  BY <1>2, <1>4, <1>5, MoveTypes

\* The steps of a call, by what they do to it.
Ends(c) == \E status \in Statuses : Reply(c, status)

\* Every step keeps the types.
LEMMA TypeNext == TypeInv /\ [Next]_vars => TypeInv'
<1> SUFFICES ASSUME TypeInv, [Next]_vars PROVE TypeInv'
  OBVIOUS
<1>e. ASSUME NEW c \in Calls, Ends(c), favorites' \subseteq Pairs,
             late' \subseteq {"add", "delete"} \X Pairs,
             net' \in [Pairs -> Int], unsure' \subseteq Pairs
      PROVE  TypeInv'
  <2>1. PICK status \in Statuses : Reply(c, status)
    BY <1>e DEF Ends
  <2> QED
    BY <1>e, <2>1, ReplyTypes DEF TypeInv
<1>m. ASSUME NEW c \in Calls, NEW pc \in {"send", "reply"}, NEW status,
             Moves(c, pc, status), call[c].pc # "free",
             favorites' \subseteq Pairs,
             UNCHANGED <<late, net, unsure>>
      PROVE  TypeInv'
  BY <1>m DEF Moves, TypeInv
<1>1. ASSUME NEW c \in Calls, Begin(c) PROVE TypeInv'
  <2>1. PICK op \in Ops, user \in Users, id \in Asked :
          call' = [call EXCEPT ![c] =
            [pc |-> IF op = "add" THEN "check" ELSE "send", op |-> op,
             user |-> user, id |-> IF op = "list" THEN 0 ELSE id, status |-> 0,
             items |-> {}]]
    BY <1>1 DEF Begin, Ops
  <2>2. /\ call' \in [Calls -> CallRecords]
        /\ call'[c].user = user /\ call'[c].op = op
        /\ call'[c].id = IF op = "list" THEN 0 ELSE id
        /\ call'[c].pc = "check" => op = "add"
        /\ \A d \in Calls \ {c} : call'[d] = call[d]
    BY <2>1 DEF TypeInv, CallRecords, Statuses
  <2> QED
    BY <1>1, <2>2 DEF Begin, TypeInv
<1>2. ASSUME NEW c \in Calls, CheckComic(c) PROVE TypeInv'
  <2>1. CASE Goto(c, "send")
    BY <1>2, <2>1, <1>m, GotoMoves DEF CheckComic, TypeInv
  <2>2. CASE Ends(c)
    BY <1>2, <1>e, <2>2 DEF CheckComic, TypeInv
  <2> QED
    BY <1>2, <2>1, <2>2 DEF CheckComic, Ends, Statuses
<1>3. ASSUME NEW c \in Calls, CheckFails(c) \/ Refuse(c) \/ StatementFails(c)
      PROVE  TypeInv'
  <2>1. Ends(c)
    BY <1>3 DEF CheckFails, Refuse, StatementFails, Ends, Statuses
  <2> QED
    BY <1>3, <1>e, <2>1 DEF CheckFails, Refuse, StatementFails, TypeInv
<1>4. ASSUME NEW c \in Calls, Add(c) \/ Delete(c) PROVE TypeInv'
  <2>1. PICK status \in Statuses : Outcome(c, status)
    BY <1>4 DEF Add, Delete, Statuses
  <2>2. call[c].pc = "send" /\ call[c].op # "list"
    BY <1>4 DEF Add, Delete
  <2>3. favorites' \subseteq Pairs
    BY <1>4, <2>2, PairType DEF Add, Delete, TypeInv
  <2>4. Moves(c, "reply", status)
    BY <2>1, OutcomeMoves
  <2>5. UNCHANGED <<late, net, unsure>>
    BY <1>4 DEF Add, Delete
  <2> QED
    BY <1>m, <2>2, <2>3, <2>4, <2>5
<1>5. ASSUME NEW c \in Calls, List(c) PROVE TypeInv'
  BY <1>5, <1>m, ListMoves DEF List, TypeInv, Statuses
<1>6. ASSUME NEW c \in Calls, Answer(c) PROVE TypeInv'
  <2>1. Ends(c)
    BY <1>6 DEF Answer, Ends, TypeInv, CallRecords
  <2>2. \A p, k : k \in Int => [net EXCEPT ![p] = k] \in [Pairs -> Int]
    BY DEF TypeInv
  <2>3. Pair(c) \in Pairs => net[Pair(c)] \in Int
    BY DEF TypeInv
  <2>4. Pair(c) \notin Pairs => \A k : [net EXCEPT ![Pair(c)] = k] = net
    BY DEF TypeInv
  <2>5. net \in [Pairs -> Int]
    BY DEF TypeInv
  <2>6. net' \in [Pairs -> Int]
    BY <1>6, <2>2, <2>3, <2>4, <2>5 DEF Answer
  <2> QED
    BY <1>6, <1>e, <2>1, <2>6 DEF Answer, TypeInv
<1>7. ASSUME NEW c \in Calls, GiveUp(c) PROVE TypeInv'
  <2>1. Ends(c)
    BY <1>7 DEF GiveUp, Ends, Statuses
  <2>2. CASE call[c].op = "list"
    BY <1>7, <1>e, <2>1, <2>2 DEF GiveUp, TypeInv
  <2>3. CASE call[c].op # "list"
    <3>1. Pair(c) \in Pairs /\ call[c].op \in {"add", "delete"}
      BY <1>7, <2>3, PairType DEF GiveUp, TypeInv, Ops
    <3>2. late' \subseteq {"add", "delete"} \X Pairs
      BY <1>7, <2>3, <3>1 DEF GiveUp, TypeInv
    <3>3. net' \in [Pairs -> Int] /\ unsure' \subseteq Pairs
      BY <1>7, <2>3, <3>1 DEF GiveUp, TypeInv
    <3> QED
      BY <1>7, <1>e, <2>1, <3>2, <3>3 DEF GiveUp, TypeInv
  <2> QED
    BY <2>2, <2>3
<1>8. CASE Settle
  BY <1>8 DEF Settle, TypeInv
<1>9. CASE TableStep \/ UNCHANGED vars
  BY <1>9 DEF TableStep, favVars, vars, TypeInv
<1> QED
  BY <1>1, <1>2, <1>3, <1>4, <1>5, <1>6, <1>7, <1>8, <1>9 DEF Next

-----------------------------------------------------------------------------
(* What is saved was listed.                                               *)

\* Every step keeps a statement's comic among those that were listed.
LEMMA ListedNext == TypeInv /\ ListedInv /\ [Next]_vars => ListedInv'
<1> SUFFICES ASSUME TypeInv, ListedInv, [Next]_vars PROVE ListedInv'
  OBVIOUS
<1>e. ASSUME NEW c \in Calls, Ends(c), UNCHANGED <<rows, known>>,
             \A s \in late' : s[1] = "add" => s[2][2] \in known,
             favorites' \subseteq favorites
      PROVE  ListedInv'
  <2>1. PICK status \in Statuses : Reply(c, status)
    BY <1>e DEF Ends
  <2>2. /\ call'[c].pc = "free"
        /\ \A d \in Calls \ {c} : call'[d] = call[d]
    BY <2>1, ReplyTypes
  <2> QED
    BY <1>e, <2>2 DEF ListedInv, SavedWasListed, Stored
<1>1. ASSUME NEW c \in Calls, Begin(c) PROVE ListedInv'
  <2>1. /\ call'[c].pc = "send" => call'[c].op # "add"
        /\ \A d \in Calls \ {c} : call'[d] = call[d]
    BY <1>1 DEF Begin, TypeInv
  <2> QED
    BY <1>1, <2>1 DEF Begin, ListedInv, SavedWasListed, Stored, tableVars
<1>2. ASSUME NEW c \in Calls, CheckComic(c) PROVE ListedInv'
  <2>0. UNCHANGED <<rows, known, late, favorites>>
    BY <1>2 DEF CheckComic, tableVars
  <2>1. CASE Ends(c)
    BY <1>e, <2>0, <2>1 DEF ListedInv
  <2>2. CASE AsUint32(call[c].id) \in Stored /\ Goto(c, "send")
    <3>1. call[c].id \in Nat
      BY <1>2, FavoritesAssumption DEF CheckComic, TypeInv
    <3>2. AsInt32(call[c].id) \in known
      BY <2>2, <3>1, SameCut DEF ListedInv, Stored
    <3>3. /\ call'[c].id = call[c].id
          /\ \A d \in Calls \ {c} : call'[d] = call[d]
      BY <2>2, GotoMoves DEF Moves
    <3> QED
      BY <2>0, <3>2, <3>3 DEF ListedInv, SavedWasListed, Stored
  <2> QED
    BY <1>2, <2>1, <2>2 DEF CheckComic, Ends, Statuses
<1>3. ASSUME NEW c \in Calls,
             CheckFails(c) \/ Refuse(c) \/ StatementFails(c) \/ Answer(c)
      PROVE  ListedInv'
  <2>1. Ends(c)
    BY <1>3 DEF CheckFails, Refuse, StatementFails, Answer, Ends, Statuses,
                TypeInv, CallRecords
  <2>2. UNCHANGED <<rows, known, late, favorites>>
    BY <1>3 DEF CheckFails, Refuse, StatementFails, Answer, tableVars
  <2> QED
    BY <1>e, <2>1, <2>2 DEF ListedInv
<1>4. ASSUME NEW c \in Calls, Add(c) \/ Delete(c) PROVE ListedInv'
  <2>1. PICK status \in Statuses : Outcome(c, status)
    BY <1>4 DEF Add, Delete, Statuses
  <2>2. /\ call'[c].pc = "reply"
        /\ \A d \in Calls \ {c} : call'[d] = call[d]
    BY <2>1, OutcomeMoves DEF Moves
  <2>3. \A f \in favorites' : f[2] \in known
    BY <1>4, PairType DEF Add, Delete, ListedInv, SavedWasListed
  <2>4. UNCHANGED <<rows, known, late>>
    BY <1>4 DEF Add, Delete, tableVars
  <2> QED
    BY <2>2, <2>3, <2>4 DEF ListedInv, SavedWasListed, Stored
<1>5. ASSUME NEW c \in Calls, List(c) PROVE ListedInv'
  <2>1. /\ call'[c].pc = "reply"
        /\ \A d \in Calls \ {c} : call'[d] = call[d]
    BY <1>5, ListMoves DEF Moves
  <2>2. UNCHANGED <<rows, known, late, favorites>>
    BY <1>5 DEF List, tableVars
  <2> QED
    BY <2>1, <2>2 DEF ListedInv, SavedWasListed, Stored
<1>6. ASSUME NEW c \in Calls, GiveUp(c) PROVE ListedInv'
  <2>1. Ends(c)
    BY <1>6 DEF GiveUp, Ends, Statuses
  <2>2. UNCHANGED <<rows, known, favorites>>
    BY <1>6 DEF GiveUp, tableVars
  <2>3. \A s \in late' : s[1] = "add" => s[2][2] \in known
    <3>1. CASE late' = late
      BY <3>1 DEF ListedInv
    <3>2. CASE /\ late' = late \cup {<<call[c].op, Pair(c)>>}
               /\ call[c].pc = "send" /\ call[c].op # "list"
      <4>1. call[c].op = "add" => Pair(c)[2] \in known
        BY <1>6, <3>2, PairType DEF GiveUp, ListedInv
      <4> QED
        BY <3>2, <4>1 DEF ListedInv
    <3> QED
      BY <1>6, <3>1, <3>2 DEF GiveUp
  <2> QED
    BY <1>e, <2>1, <2>2, <2>3
<1>7. CASE Settle
  BY <1>7 DEF Settle, ListedInv, SavedWasListed, Stored, tableVars
<1>8. CASE TableStep
  <2>1. known \subseteq known' /\ Stored' \subseteq known'
    BY <1>8 DEF TableStep, Stored
  <2>2. UNCHANGED <<favorites, late, call>>
    BY <1>8 DEF TableStep, favVars
  <2> QED
    BY <2>1, <2>2 DEF ListedInv, SavedWasListed
<1>9. CASE UNCHANGED vars
  BY <1>9 DEF vars, tableVars, favVars, ListedInv, SavedWasListed, Stored
<1> QED
  BY <1>1, <1>2, <1>3, <1>4, <1>5, <1>6, <1>7, <1>8, <1>9 DEF Next

-----------------------------------------------------------------------------
(* Counting the answers.                                                   *)

\* How the number of answers on the way changes when one call does.
LEMMA OneCall ==
  ASSUME NEW c \in Calls, \A d \in Calls \ {c} : call'[d] = call[d],
         NEW op, NEW p
  PROVE  /\ Cardinality(OnTheWay(op, p)) \in Nat
         /\ Cardinality(OnTheWay(op, p)') \in Nat
         /\ (Succeeded(c, op, p) <=> Succeeded(c, op, p)') =>
              Cardinality(OnTheWay(op, p)') = Cardinality(OnTheWay(op, p))
         /\ ~ Succeeded(c, op, p) /\ Succeeded(c, op, p)' =>
              Cardinality(OnTheWay(op, p)') = Cardinality(OnTheWay(op, p)) + 1
         /\ Succeeded(c, op, p) /\ ~ Succeeded(c, op, p)' =>
              Cardinality(OnTheWay(op, p)') = Cardinality(OnTheWay(op, p)) - 1
<1> DEFINE S == OnTheWay(op, p)
           T == OnTheWay(op, p)'
<1>1. \A d \in Calls \ {c} : Succeeded(d, op, p) <=> Succeeded(d, op, p)'
  BY DEF Succeeded, Pair
<1>2. T = {d \in Calls : Succeeded(d, op, p)'}
  BY DEF OnTheWay
<1>3. S = {d \in Calls : Succeeded(d, op, p)}
  BY DEF OnTheWay
<1>4. IsFiniteSet(S) /\ IsFiniteSet(T)
  BY <1>2, <1>3, FS_Subset, FavoritesAssumption
<1>5. Cardinality(S) \in Nat /\ Cardinality(T) \in Nat
  BY <1>4, FS_CardinalityType
<1>6. (Succeeded(c, op, p) <=> Succeeded(c, op, p)') => T = S
  BY <1>1, <1>2, <1>3
<1>7. ASSUME ~ Succeeded(c, op, p), Succeeded(c, op, p)'
      PROVE  Cardinality(T) = Cardinality(S) + 1
  <2>1. T = S \cup {c} /\ c \notin S
    BY <1>1, <1>2, <1>3, <1>7
  <2> HIDE DEF S, T
  <2> QED
    BY <1>4, <2>1, FS_AddElement
<1>8. ASSUME Succeeded(c, op, p), ~ Succeeded(c, op, p)'
      PROVE  Cardinality(T) = Cardinality(S) - 1
  <2>1. T = S \ {c} /\ c \in S
    BY <1>1, <1>2, <1>3, <1>8
  <2> HIDE DEF S, T
  <2> QED
    BY <1>4, <2>1, FS_RemoveElement
<1> QED
  BY <1>5, <1>6, <1>7, <1>8

\* Every step keeps the balance.
LEMMA CountNext == TypeInv /\ CountInv /\ [Next]_vars => CountInv'
<1> SUFFICES ASSUME TypeInv, CountInv, [Next]_vars PROVE CountInv'
  OBVIOUS
<1> DEFINE Sum(p) == net[p] + Cardinality(OnTheWay("add", p))
                            - Cardinality(OnTheWay("delete", p))
<1>0. \A p \in Pairs : net[p] \in Int
  BY DEF TypeInv
\* The call was not answered with 204, and is not about to be.
<1>s. ASSUME NEW c \in Calls,
             \A d \in Calls \ {c} : call'[d] = call[d],
             call'[c].pc = "reply" /\ call'[c].op = "list" =>
               call'[c].status # 204,
             \A op \in {"add", "delete"}, p \in Pairs \ unsure' :
               ~ Succeeded(c, op, p) /\ ~ Succeeded(c, op, p)',
             unsure \subseteq unsure', \A s \in late' : s[2] \in unsure',
             \A p \in Pairs \ unsure' :
               net'[p] = net[p] /\ (p \in favorites <=> p \in favorites')
      PROVE  CountInv'
  <2>1. ASSUME NEW p \in Pairs \ unsure', NEW op \in {"add", "delete"}
        PROVE  Cardinality(OnTheWay(op, p)') = Cardinality(OnTheWay(op, p))
    BY <1>s, <2>1, OneCall
  <2>2. \A p \in Pairs \ unsure' : Sum(p)' = Sum(p)
    BY <1>s, <2>1
  <2> QED
    BY <1>s, <2>2 DEF CountInv
<1>e. ASSUME NEW c \in Calls, Ends(c), call[c].pc \in {"check", "send"},
             UNCHANGED <<favorites, late, net, unsure>>
      PROVE  CountInv'
  <2>1. /\ call'[c].pc = "free"
        /\ \A d \in Calls \ {c} : call'[d] = call[d]
    BY <1>e, ReplyTypes DEF Ends
  <2>2. \A op, p : ~ Succeeded(c, op, p) /\ ~ Succeeded(c, op, p)'
    BY <1>e, <2>1 DEF Succeeded
  <2> QED
    BY <1>e, <1>s, <2>1, <2>2 DEF CountInv
<1>1. ASSUME NEW c \in Calls, Begin(c) PROVE CountInv'
  <2>1. /\ call'[c].pc # "reply"
        /\ \A d \in Calls \ {c} : call'[d] = call[d]
    BY <1>1 DEF Begin, TypeInv
  <2>2. \A op, p : ~ Succeeded(c, op, p) /\ ~ Succeeded(c, op, p)'
    BY <1>1, <2>1 DEF Begin, Succeeded
  <2>3. UNCHANGED <<favorites, late, net, unsure>>
    BY <1>1 DEF Begin
  <2> QED
    BY <1>s, <2>1, <2>2, <2>3 DEF CountInv
<1>2. ASSUME NEW c \in Calls, CheckComic(c) PROVE CountInv'
  <2>1. UNCHANGED <<favorites, late, net, unsure>> /\ call[c].pc = "check"
    BY <1>2 DEF CheckComic
  <2>2. CASE Ends(c)
    BY <1>e, <2>1, <2>2
  <2>3. CASE Goto(c, "send")
    <3>1. /\ call'[c].pc = "send"
          /\ \A d \in Calls \ {c} : call'[d] = call[d]
      BY <2>3, GotoMoves DEF Moves
    <3>2. \A op, p : ~ Succeeded(c, op, p) /\ ~ Succeeded(c, op, p)'
      BY <2>1, <3>1 DEF Succeeded
    <3> QED
      BY <1>s, <2>1, <3>1, <3>2 DEF CountInv
  <2> QED
    BY <1>2, <2>2, <2>3 DEF CheckComic, Ends, Statuses
<1>3. ASSUME NEW c \in Calls, CheckFails(c) \/ Refuse(c) \/ StatementFails(c)
      PROVE  CountInv'
  <2>1. Ends(c)
    BY <1>3 DEF CheckFails, Refuse, StatementFails, Ends, Statuses
  <2> QED
    BY <1>3, <1>e, <2>1 DEF CheckFails, Refuse, StatementFails
\* A statement is executed; it succeeds exactly if it changes the table.
<1>4. ASSUME NEW c \in Calls, NEW op \in {"add", "delete"},
             call[c].pc = "send", call[c].op = op,
             NEW status \in Statuses, Moves(c, "reply", status),
             UNCHANGED <<late, net, unsure>>,
             IF op = "add" THEN favorites' = favorites \cup {Pair(c)}
                           ELSE favorites' = favorites \ {Pair(c)},
             status = 204 <=> (op = "add" <=> Pair(c) \notin favorites)
      PROVE  CountInv'
  <2>1. \A d \in Calls \ {c} : call'[d] = call[d]
    BY <1>4 DEF Moves
  <2>2. Pair(c)' = Pair(c) /\ call'[c].pc = "reply" /\ call'[c].op = op
        /\ call'[c].status = status
    BY <1>4 DEF Moves, Pair
  <2>3. \A o, p : /\ ~ Succeeded(c, o, p)
                  /\ Succeeded(c, o, p)' <=>
                       o = op /\ p = Pair(c) /\ status = 204
    BY <1>4, <2>2 DEF Succeeded
  <2>4. CASE status # 204
    <3>1. \A p : p \in favorites' <=> p \in favorites
      BY <1>4, <2>4
    <3>2. \A o, p : ~ Succeeded(c, o, p) /\ ~ Succeeded(c, o, p)'
      BY <2>3, <2>4
    <3> QED
      BY <1>4, <1>s, <2>1, <2>2, <2>4, <3>1, <3>2 DEF CountInv
  <2>5. CASE status = 204
    <3>1. ASSUME NEW p \in Pairs \ unsure
          PROVE  Sum(p)' = IF p \in favorites' THEN 1 ELSE 0
      <4>0. Sum(p) = IF p \in favorites THEN 1 ELSE 0
        BY DEF CountInv
      <4>1. CASE p # Pair(c)
        <5>1. \A o : Cardinality(OnTheWay(o, p)') = Cardinality(OnTheWay(o, p))
          BY <2>1, <2>3, <4>1, OneCall
        <5>2. p \in favorites' <=> p \in favorites
          BY <1>4, <4>1
        <5> QED
          BY <1>4, <4>0, <5>1, <5>2
      <4>2. CASE p = Pair(c) /\ op = "add"
        <5>1. /\ Cardinality(OnTheWay("add", p)')
                   = Cardinality(OnTheWay("add", p)) + 1
              /\ Cardinality(OnTheWay("delete", p)')
                   = Cardinality(OnTheWay("delete", p))
              /\ Cardinality(OnTheWay("add", p)) \in Nat
              /\ Cardinality(OnTheWay("delete", p)) \in Nat
          BY <2>1, <2>3, <2>5, <4>2, OneCall
        <5>2. p \in favorites' /\ p \notin favorites
          BY <1>4, <2>5, <4>2
        <5> QED
          BY <1>0, <1>4, <4>0, <5>1, <5>2
      <4>3. CASE p = Pair(c) /\ op = "delete"
        <5>1. /\ Cardinality(OnTheWay("add", p)')
                   = Cardinality(OnTheWay("add", p))
              /\ Cardinality(OnTheWay("delete", p)')
                   = Cardinality(OnTheWay("delete", p)) + 1
              /\ Cardinality(OnTheWay("add", p)) \in Nat
              /\ Cardinality(OnTheWay("delete", p)) \in Nat
          BY <2>1, <2>3, <2>5, <4>3, OneCall
        <5>2. p \notin favorites' /\ p \in favorites
          BY <1>4, <2>5, <4>3
        <5> QED
          BY <1>0, <1>4, <4>0, <5>1, <5>2
      <4> QED
        BY <1>4, <4>1, <4>2, <4>3
    <3> QED
      BY <1>4, <2>1, <2>2, <3>1 DEF CountInv
  <2> QED
    BY <2>4, <2>5
<1>5. ASSUME NEW c \in Calls, Add(c) PROVE CountInv'
  <2> DEFINE status == IF Pair(c) \in favorites THEN 409 ELSE 204
  <2>1. Moves(c, "reply", status)
    BY <1>5, OutcomeMoves DEF Add, Statuses
  <2>2. /\ call[c].pc = "send" /\ call[c].op = "add"
        /\ UNCHANGED <<late, net, unsure>>
        /\ favorites' = favorites \cup {Pair(c)}
    BY <1>5 DEF Add
  <2>3. status \in Statuses /\ (status = 204 <=> Pair(c) \notin favorites)
    BY DEF Statuses
  <2> HIDE DEF status
  <2> QED
    BY <1>4, <2>1, <2>2, <2>3
<1>6. ASSUME NEW c \in Calls, Delete(c) PROVE CountInv'
  <2> DEFINE status == IF Pair(c) \in favorites THEN 204 ELSE 404
  <2>1. Moves(c, "reply", status)
    BY <1>6, OutcomeMoves DEF Delete, Statuses
  <2>2. /\ call[c].pc = "send" /\ call[c].op = "delete"
        /\ UNCHANGED <<late, net, unsure>>
        /\ favorites' = favorites \ {Pair(c)}
    BY <1>6 DEF Delete
  <2>3. status \in Statuses /\ (status = 204 <=> Pair(c) \in favorites)
    BY DEF Statuses
  <2> HIDE DEF status
  <2> QED
    BY <1>4, <2>1, <2>2, <2>3
<1>7. ASSUME NEW c \in Calls, List(c) PROVE CountInv'
  <2>1. /\ call'[c].status = 200
        /\ \A d \in Calls \ {c} : call'[d] = call[d]
    BY <1>7, ListMoves DEF Moves
  <2>2. \A op, p : ~ Succeeded(c, op, p) /\ ~ Succeeded(c, op, p)'
    BY <1>7, <2>1 DEF List, Succeeded
  <2>3. UNCHANGED <<favorites, late, net, unsure>>
    BY <1>7 DEF List
  <2> QED
    BY <1>s, <2>1, <2>2, <2>3 DEF CountInv
<1>8. ASSUME NEW c \in Calls, Answer(c) PROVE CountInv'
  <2>1. /\ call'[c].pc = "free"
        /\ \A d \in Calls \ {c} : call'[d] = call[d]
    BY <1>8, ReplyTypes DEF Answer, TypeInv, CallRecords
  <2>2. UNCHANGED <<favorites, late, unsure>> /\ call[c].pc = "reply"
    BY <1>8 DEF Answer
  <2>3. \A op, p : ~ Succeeded(c, op, p)'
    BY <2>1 DEF Succeeded
  <2>4. CASE call[c].status # 204 \/ Pair(c) \in unsure
    <3>1. net' = net
      BY <1>8, <2>4 DEF Answer
    <3>2. \A op : \A p \in Pairs \ unsure : ~ Succeeded(c, op, p)
      BY <2>4 DEF Succeeded
    <3> QED
      BY <1>s, <2>1, <2>2, <2>3, <3>1, <3>2 DEF CountInv
  <2>5. CASE call[c].status = 204 /\ Pair(c) \notin unsure
    <3>1. call[c].op \in {"add", "delete"}
      BY <2>2, <2>5 DEF CountInv, TypeInv, Ops
    <3>2. net' = [net EXCEPT ![Pair(c)] =
                    IF call[c].op = "add" THEN @ + 1 ELSE @ - 1]
      BY <1>8, <2>5 DEF Answer
    <3>3. \A op, p : Succeeded(c, op, p) <=> op = call[c].op /\ p = Pair(c)
      BY <2>2, <2>5 DEF Succeeded
    <3>4. ASSUME NEW p \in Pairs \ unsure PROVE Sum(p)' = Sum(p)
      <4>1. /\ Cardinality(OnTheWay("add", p)) \in Nat
            /\ Cardinality(OnTheWay("delete", p)) \in Nat
        BY <2>1, OneCall
      <4>2. CASE p # Pair(c)
        <5>1. \A op : Cardinality(OnTheWay(op, p)')
                        = Cardinality(OnTheWay(op, p))
          BY <2>1, <2>3, <3>3, <4>2, OneCall
        <5>2. net'[p] = net[p]
          BY <3>2, <4>2 DEF TypeInv
        <5> QED
          BY <5>1, <5>2
      <4>3. CASE p = Pair(c) /\ call[c].op = "add"
        <5>1. /\ Cardinality(OnTheWay("add", p)')
                   = Cardinality(OnTheWay("add", p)) - 1
              /\ Cardinality(OnTheWay("delete", p)')
                   = Cardinality(OnTheWay("delete", p))
          BY <2>1, <2>3, <3>3, <4>3, OneCall
        <5>2. net'[p] = net[p] + 1
          BY <3>2, <4>3 DEF TypeInv
        <5> QED
          BY <1>0, <4>1, <5>1, <5>2
      <4>4. CASE p = Pair(c) /\ call[c].op = "delete"
        <5>1. /\ Cardinality(OnTheWay("add", p)')
                   = Cardinality(OnTheWay("add", p))
              /\ Cardinality(OnTheWay("delete", p)')
                   = Cardinality(OnTheWay("delete", p)) - 1
          BY <2>1, <2>3, <3>3, <4>4, OneCall
        <5>2. net'[p] = net[p] - 1
          BY <3>2, <4>4 DEF TypeInv
        <5> QED
          BY <1>0, <4>1, <5>1, <5>2
      <4> QED
        BY <3>1, <4>2, <4>3, <4>4
    <3> QED
      BY <2>1, <2>2, <3>4 DEF CountInv
  <2> QED
    BY <2>4, <2>5
<1>9. ASSUME NEW c \in Calls, GiveUp(c) PROVE CountInv'
  <2>1. /\ call'[c].pc = "free"
        /\ \A d \in Calls \ {c} : call'[d] = call[d]
    BY <1>9, ReplyTypes DEF GiveUp, Statuses
  <2>2. \A op, p : ~ Succeeded(c, op, p)'
    BY <2>1 DEF Succeeded
  <2>3. CASE call[c].op = "list"
    <3>1. UNCHANGED <<favorites, late, net, unsure>>
      BY <1>9, <2>3 DEF GiveUp
    <3>2. \A op \in {"add", "delete"} : \A p : ~ Succeeded(c, op, p)
      BY <2>3 DEF Succeeded
    <3> QED
      BY <1>s, <2>1, <2>2, <3>1, <3>2 DEF CountInv
  <2>4. CASE call[c].op # "list"
    <3>1. /\ unsure' = unsure \cup {Pair(c)} /\ favorites' = favorites
          /\ net' = [net EXCEPT ![Pair(c)] = 0]
          /\ late' \subseteq late \cup {<<call[c].op, Pair(c)>>}
      BY <1>9, <2>4 DEF GiveUp
    <3>2. \A s \in late' : s[2] \in unsure'
      BY <3>1 DEF CountInv
    <3>3. \A op : \A p \in Pairs \ unsure' : ~ Succeeded(c, op, p)
      BY <3>1 DEF Succeeded
    <3>4. \A p \in Pairs \ unsure' : net'[p] = net[p]
      BY <3>1 DEF TypeInv
    <3> QED
      BY <1>s, <2>1, <2>2, <3>1, <3>2, <3>3, <3>4
  <2> QED
    BY <2>3, <2>4
<1>10. ASSUME call' = call,
              unsure' = unsure, late' \subseteq late, net' = net,
              \A p \in Pairs \ unsure : p \in favorites' <=> p \in favorites
       PROVE  CountInv'
  <2>1. \A op, p : OnTheWay(op, p)' = OnTheWay(op, p)
    BY <1>10 DEF OnTheWay, Succeeded, Pair
  <2>2. \A p : Sum(p)' = Sum(p)
    BY <1>10, <2>1
  <2> QED
    BY <1>10, <2>2 DEF CountInv
<1>11. CASE Settle
  BY <1>10, <1>11 DEF Settle, CountInv
<1>12. CASE TableStep \/ UNCHANGED vars
  BY <1>10, <1>12 DEF TableStep, vars, favVars
<1> QED
  BY <1>1, <1>2, <1>3, <1>5, <1>6, <1>7, <1>8, <1>9, <1>11, <1>12 DEF Next

-----------------------------------------------------------------------------
(* The theorems.                                                           *)

\* The invariant holds at all times, whatever the calls' interleaving.
THEOREM FavInvariant == Spec => []FavInv
<1>1. FavInv /\ [Next]_vars => FavInv'
  BY TypeNext, ListedNext, CountNext DEF FavInv
<1> QED
  BY FavInit, <1>1, PTL DEF Spec

\* SavedWasListed: the check with an uint32 protects the row with an int32,
\* also when the statement is executed late (api.go:600-639).
THEOREM OnlyListedIsSaved == Spec => []SavedWasListed
<1>1. FavInv => SavedWasListed
  BY DEF FavInv, ListedInv
<1> QED
  BY FavInvariant, <1>1, PTL

\* AnswersBalance: once the answers are in, the adds minus the deletes answered
\* 204 tell whether the pair is saved (storage.go:35-63).
THEOREM AnswersTellTheTable == Spec => []AnswersBalance
<1>1. FavInv => AnswersBalance
  <2> SUFFICES ASSUME FavInv, NEW p \in Pairs \ unsure,
                      \A c \in Calls : ~ (call[c].pc = "reply" /\ Pair(c) = p)
               PROVE  net[p] = (IF p \in favorites THEN 1 ELSE 0)
    BY DEF AnswersBalance
  <2>1. \A op : OnTheWay(op, p) = {}
    BY DEF OnTheWay, Succeeded
  <2>2. net[p] \in Int
    BY DEF FavInv, TypeInv
  <2>3. net[p] + Cardinality(OnTheWay("add", p))
               - Cardinality(OnTheWay("delete", p))
          = IF p \in favorites THEN 1 ELSE 0
    BY DEF FavInv, CountInv
  <2> QED
    BY <2>1, <2>2, <2>3, FS_EmptySet
<1> QED
  BY FavInvariant, <1>1, PTL
=============================================================================
