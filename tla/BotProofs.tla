----------------------------- MODULE BotProofs -----------------------------
(***************************************************************************)
(* The Telegram bot, for every number of handlers at once, of comics and   *)
(* of messages.  First its cache of favorites (BotSession): what it may    *)
(* say between any two awaits.  Then the contexts behind its buttons       *)
(* (BotContexts): no two messages share one, and the buttons under a       *)
(* message act on the comic it shows.                                      *)
(***************************************************************************)
EXTENDS BotSession, BotContexts, SequenceTheorems, WellFoundedInduction, TLAPS

-----------------------------------------------------------------------------
(* The inductive invariant of the cache.                                   *)

TaskRecords ==
  [pc : {"idle", "login", "call", "write"},
   kind : Lists \cup Changes \cup {"none"}, comic : Comics \cup {"none"},
   reply : SUBSET Comics, age : 0 .. CacheTTL, stale : BOOLEAN]
Entries == [there : BOOLEAN, ids : SUBSET Comics, age : 0 .. CacheTTL]

TypeInv ==
  /\ favs \in SUBSET Comics
  /\ entry \in Entries
  /\ task \in [Tasks -> TaskRecords]
  /\ full \in BOOLEAN /\ disturbed \in BOOLEAN
  /\ \A t \in Tasks : task[t].kind \in Changes => task[t].comic \in Comics

\* A list on its way back is what the favorites service has, unless a change
\* made it stale.
RepliesInv ==
  \A t \in Tasks :
    task[t].pc = "write" /\ task[t].kind \in Lists /\ ~ task[t].stale =>
      task[t].reply = favs

\* The answer to a change of c is on its way back.
Answering(t, c) ==
  task[t].pc = "write" /\ task[t].kind \in Changes /\ task[t].comic = c

\* Of a comic at most one such answer is under way, and it is the favorites
\* service's last word about the comic; about all other comics the cache is
\* right.
CacheInv ==
  ~ disturbed =>
    /\ \A c \in Comics, t, x \in Tasks :
         Answering(t, c) /\ Answering(x, c) => t = x
    /\ \A c \in Comics, t \in Tasks :
         Answering(t, c) => (c \in favs <=> task[t].kind = "save")
    /\ \A c \in Comics : (\A t \in Tasks : ~ Answering(t, c)) =>
         /\ c \in entry.ids => c \in favs
         /\ full /\ c \in favs => c \in entry.ids

SessionInv == TypeInv /\ RepliesInv /\ CacheInv

-----------------------------------------------------------------------------
(* Lemmas.                                                                 *)

\* A handler that is not at work.
LEMMA IdleFacts ==
  NoTask \in TaskRecords /\ NoTask.pc = "idle" /\ NoTask.kind = "none"
  BY SessionAssumption DEF NoTask, TaskRecords

\* The invariant contains the property.
LEMMA InvImplies == SessionInv => CacheIsRight
  BY DEF SessionInv, TypeInv, Entries, CacheInv, Answering, CacheIsRight

\* A step that leaves the cache and the favorites alone, and no task with an
\* answer on its way that it did not have.
LEMMA OnlyTasks ==
  ASSUME SessionInv, UNCHANGED <<favs, entry, full, disturbed>>,
         task' \in [Tasks -> TaskRecords],
         \A t \in Tasks :
           /\ task'[t].kind \in Changes => task'[t].comic \in Comics
           /\ \/ task'[t].pc # "write" /\ task[t].pc # "write"
              \/ /\ task'[t].pc = "write" /\ task'[t].kind \in Lists
                 /\ task[t].pc # "write" /\ task'[t].reply = favs
              \/ /\ task'[t].pc = task[t].pc /\ task'[t].kind = task[t].kind
                 /\ task'[t].comic = task[t].comic
                 /\ task'[t].reply = task[t].reply
                 /\ task'[t].stale = task[t].stale
  PROVE  SessionInv'
<1>1. TypeInv'
  BY DEF SessionInv, TypeInv
<1>2. RepliesInv'
  BY DEF SessionInv, RepliesInv
<1>3. ASSUME NEW t \in Tasks, NEW c \in Comics
      PROVE  /\ Answering(t, c)' <=> Answering(t, c)
             /\ Answering(t, c) => task'[t].kind = task[t].kind
  BY DEF Answering, Lists, Changes
<1>4. CacheInv'
  BY <1>3 DEF SessionInv, CacheInv
<1> QED
  BY <1>1, <1>2, <1>4 DEF SessionInv

\* One task changes and nobody else.
LEMMA OneTask ==
  ASSUME SessionInv, UNCHANGED <<favs, entry, full, disturbed>>,
         NEW t \in Tasks, NEW q \in TaskRecords,
         task' = [task EXCEPT ![t] = q],
         q.kind \in Changes => q.comic \in Comics,
         task[t].pc # "write",
         q.pc = "write" => q.kind \in Lists /\ q.reply = favs
  PROVE  SessionInv'
<1>1. task \in [Tasks -> TaskRecords]
  BY DEF SessionInv, TypeInv
<1>2. task' \in [Tasks -> TaskRecords]
  BY <1>1
<1>3. \A x \in Tasks : task'[x] = IF x = t THEN q ELSE task[x]
  BY <1>1
<1>4. \A x \in Tasks : task[x].kind \in Changes => task[x].comic \in Comics
  BY DEF SessionInv, TypeInv
<1> QED
  BY <1>2, <1>3, <1>4, OnlyTasks

-----------------------------------------------------------------------------
(* The steps.                                                              *)

\* A handler begins with its first call.
LEMMA BeginStep ==
  ASSUME SessionInv, UNCHANGED <<favs, entry, full, disturbed>>,
         NEW t \in Tasks, task[t].pc = "idle",
         NEW kind \in Lists \cup Changes, NEW comic \in Comics \cup {"none"},
         kind \in Changes => comic \in Comics,
         Begin(t, kind, comic)
  PROVE  SessionInv'
<1> DEFINE now == IF kind = "ensure" THEN 0 ELSE CacheTTL
           q == [NoTask EXCEPT !.pc = FirstCall, !.kind = kind,
                             !.comic = comic, !.age = now]
<1>1. q \in TaskRecords /\ q.pc # "write" /\ q.kind = kind /\ q.comic = comic
  <2>1. now \in 0 .. CacheTTL
    BY SessionAssumption
  <2> HIDE DEF now
  <2> QED
    BY <2>1, IdleFacts DEF TaskRecords, FirstCall
<1>2. task' = [task EXCEPT ![t] = q]
  BY DEF Begin
<1> HIDE DEF q
<1> QED
  BY <1>1, <1>2, OneTask

\* A handler of any kind starts.
LEMMA StartStep ==
  ASSUME SessionInv, NEW t \in Tasks,
         \/ StartEnsure(t) \/ StartMyComics(t)
         \/ \E c \in Comics : StartSave(t, c) \/ StartDelete(t, c)
  PROVE  SessionInv'
<1>1. /\ UNCHANGED <<favs, entry, full, disturbed>> /\ task[t].pc = "idle"
      /\ \E kind \in Lists \cup Changes, comic \in Comics \cup {"none"} :
           (kind \in Changes => comic \in Comics) /\ Begin(t, kind, comic)
  <2>1. /\ {"ensure", "mycomics"} \subseteq Lists \cup Changes
        /\ "ensure" \notin Changes /\ "mycomics" \notin Changes
        /\ {"save", "del"} \subseteq Lists \cup Changes
    BY DEF Lists, Changes
  <2> QED
    BY <2>1 DEF StartEnsure, StartMyComics, StartSave, StartDelete
<1> QED
  BY <1>1, BeginStep

\* A handler that ends leaves the cache alone.
LEMMA DoneStep ==
  ASSUME SessionInv, NEW t \in Tasks, task[t].pc # "write", TaskDone(t),
         UNCHANGED <<favs, entry, full, disturbed>>
  PROVE  SessionInv'
<1>1. task' = [task EXCEPT ![t] = NoTask]
  BY DEF TaskDone
<1>2. NoTask.kind \notin Changes
  BY IdleFacts DEF Changes
<1> QED
  BY <1>1, <1>2, IdleFacts, OneTask

\* The login stores a token and nothing else.
LEMMA LoginStep ==
  ASSUME SessionInv, NEW t \in Tasks, Login(t)
  PROVE  SessionInv'
<1> DEFINE q == [task[t] EXCEPT !.pc = "call"]
<1>1. /\ task[t] \in TaskRecords
      /\ task[t].kind \in Changes => task[t].comic \in Comics
  BY DEF SessionInv, TypeInv
<1>2. /\ q \in TaskRecords /\ q.pc = "call" /\ q.kind = task[t].kind
      /\ q.comic = task[t].comic
  BY <1>1 DEF TaskRecords
<1>3. /\ task' = [task EXCEPT ![t] = q] /\ task[t].pc # "write"
      /\ UNCHANGED <<favs, entry, full, disturbed>>
  BY DEF Login
<1> HIDE DEF q
<1> QED
  BY <1>1, <1>2, <1>3, OneTask

\* The list that the favorites service answers is right when it answers.
LEMMA ListStep ==
  ASSUME SessionInv, NEW t \in Tasks, List(t)
  PROVE  SessionInv'
<1>1. /\ task[t].pc # "write" /\ task[t].kind \in Lists
      /\ UNCHANGED <<favs, entry, full, disturbed>>
  BY DEF List
<1>2. CASE TaskDone(t)
  BY <1>1, <1>2, DoneStep
<1>3. CASE task' = [task EXCEPT ![t].pc = "write", ![t].reply = favs]
  <2> DEFINE q == [task[t] EXCEPT !.pc = "write", !.reply = favs]
  <2>1. task[t] \in TaskRecords /\ favs \in SUBSET Comics
    BY DEF SessionInv, TypeInv
  <2>2. /\ q \in TaskRecords /\ q.kind = task[t].kind /\ q.reply = favs
    BY <2>1 DEF TaskRecords
  <2>3. task' = [task EXCEPT ![t] = q]
    BY <1>3 DEF SessionInv, TypeInv
  <2> HIDE DEF q
  <2>4. q.kind \notin Changes
    BY <1>1, <2>2 DEF Lists, Changes
  <2> QED
    BY <1>1, <2>2, <2>3, <2>4, OneTask
<1> QED
  BY <1>2, <1>3 DEF List

\* favorites_add and favorites_delete, as far as the favorites service and the
\* other handlers are concerned.
Applied(t) ==
  favs' = IF task[t].kind = "save" THEN favs \cup {task[t].comic}
                                   ELSE favs \ {task[t].comic}
Outdated(x) ==
  task'[x] = IF task[x].pc = "write" THEN [task[x] EXCEPT !.stale = TRUE]
                                     ELSE task[x]

\* A list on its way that a change overtakes is marked, and stays what it was.
LEMMA OutdatedFacts ==
  ASSUME NEW x \in Tasks, task[x] \in TaskRecords, Outdated(x)
  PROVE  /\ task'[x] \in TaskRecords
         /\ task'[x].pc = task[x].pc /\ task'[x].kind = task[x].kind
         /\ task'[x].comic = task[x].comic
         /\ task'[x].pc = "write" => task'[x].stale
  BY DEF Outdated, TaskRecords

\* A save or a delete reaches the favorites service: every list on its way is
\* outdated.
LEMMA ChangeStep ==
  ASSUME SessionInv, NEW t \in Tasks, Change(t)
  PROVE  SessionInv'
<1> DEFINE q == [task[t] EXCEPT !.pc = "write"]
           c == task[t].comic
<1>1. /\ task[t].pc = "call" /\ task[t].kind \in Changes
      /\ Applied(t) /\ UNCHANGED <<entry, full>>
      /\ task' = [x \in Tasks |->
           IF x = t THEN q
           ELSE IF task[x].pc = "write" THEN [task[x] EXCEPT !.stale = TRUE]
           ELSE task[x]]
      /\ disturbed' = (disturbed \/ \E x \in Tasks :
                         task[x].pc = "write" /\ task[x].comic = c)
  BY DEF Change, Applied
<1>2. /\ \A x \in Tasks : task[x] \in TaskRecords
      /\ \A x \in Tasks : task[x].kind \in Changes => task[x].comic \in Comics
      /\ favs \in SUBSET Comics /\ entry \in Entries
      /\ full \in BOOLEAN /\ disturbed \in BOOLEAN
  BY DEF SessionInv, TypeInv
<1>3. c \in Comics /\ (task[t].kind = "save" \/ task[t].kind = "del")
  BY <1>1, <1>2 DEF Changes
<1>4. /\ q \in TaskRecords /\ q.pc = "write" /\ q.kind = task[t].kind
      /\ q.comic = c
  BY <1>2 DEF TaskRecords
<1>5. task'[t] = q /\ \A x \in Tasks \ {t} : Outdated(x)
  BY <1>1 DEF Outdated
<1>6. \A x \in Tasks \ {t} :
        /\ task'[x] \in TaskRecords
        /\ task'[x].pc = task[x].pc /\ task'[x].kind = task[x].kind
        /\ task'[x].comic = task[x].comic
        /\ task'[x].pc = "write" => task'[x].stale
  BY <1>2, <1>5, OutdatedFacts
<1> HIDE DEF q, c
<1>7. TypeInv'
  <2>1. \A x \in Tasks : task'[x] \in TaskRecords
    BY <1>4, <1>5, <1>6
  <2>2. task' \in [Tasks -> TaskRecords]
    BY <1>1, <2>1
  <2>3. favs' \in SUBSET Comics
    BY <1>1, <1>2, <1>3 DEF Applied, c
  <2>4. \A x \in Tasks : task'[x].kind \in Changes => task'[x].comic \in Comics
    BY <1>2, <1>3, <1>4, <1>5, <1>6
  <2>5. disturbed' \in BOOLEAN /\ full' \in BOOLEAN /\ entry' \in Entries
    BY <1>1, <1>2
  <2> QED
    BY <2>2, <2>3, <2>4, <2>5 DEF TypeInv
<1>8. RepliesInv'
  <2>1. task'[t].kind \notin Lists
    BY <1>1, <1>4, <1>5 DEF Lists, Changes
  <2> QED
    BY <1>6, <2>1 DEF RepliesInv
<1>9. CacheInv'
  <2> SUFFICES ASSUME ~ disturbed'
               PROVE  CacheInv'
    BY DEF CacheInv
  <2>1. ~ disturbed /\ \A x \in Tasks : ~ Answering(x, c)
    BY <1>1, <1>3 DEF Answering
  <2>2. \A x \in Tasks, d \in Comics :
          Answering(x, d)' <=> Answering(x, d) \/ (x = t /\ d = c)
    BY <1>1, <1>4, <1>5, <1>6 DEF Answering
  <2>3. \A d \in Comics : d # c => (d \in favs' <=> d \in favs)
    BY <1>1 DEF Applied, c
  <2>4. c \in favs' <=> task'[t].kind = "save"
    BY <1>1, <1>3, <1>4, <1>5 DEF Applied, c
  <2>5. \A x \in Tasks : task'[x].kind = task[x].kind
    BY <1>4, <1>5, <1>6
  <2>6. /\ \A d \in Comics, x, y \in Tasks :
             Answering(x, d) /\ Answering(y, d) => x = y
        /\ \A d \in Comics, x \in Tasks :
             Answering(x, d) => (d \in favs <=> task[x].kind = "save")
        /\ \A d \in Comics : (\A x \in Tasks : ~ Answering(x, d)) =>
             /\ d \in entry.ids => d \in favs
             /\ full /\ d \in favs => d \in entry.ids
    BY <2>1 DEF SessionInv, CacheInv
  <2>7. \A d \in Comics, x, y \in Tasks :
          Answering(x, d)' /\ Answering(y, d)' => x = y
    BY <2>1, <2>2, <2>6
  <2>8. \A d \in Comics, x \in Tasks :
          Answering(x, d)' => (d \in favs' <=> task'[x].kind = "save")
    BY <2>1, <2>2, <2>3, <2>4, <2>5, <2>6
  <2>9. \A d \in Comics : (\A x \in Tasks : ~ Answering(x, d)') =>
          /\ d \in entry.ids => d \in favs'
          /\ full /\ d \in favs' => d \in entry.ids
    <3> SUFFICES ASSUME NEW d \in Comics, \A x \in Tasks : ~ Answering(x, d)'
                 PROVE  /\ d \in entry.ids => d \in favs'
                        /\ full /\ d \in favs' => d \in entry.ids
      OBVIOUS
    <3>1. d # c /\ \A x \in Tasks : ~ Answering(x, d)
      BY <2>2
    <3> QED
      BY <2>3, <2>6, <3>1
  <2> QED
    BY <1>1, <2>7, <2>8, <2>9 DEF CacheInv
<1> QED
  BY <1>7, <1>8, <1>9 DEF SessionInv

\* A save or a delete whose answer is lost may have been done.
LEMMA ChangeLostStep ==
  ASSUME SessionInv, NEW t \in Tasks, ChangeLost(t)
  PROVE  SessionInv'
<1>1. /\ task[t].pc = "call" /\ task[t].kind \in Changes
      /\ Applied(t) /\ UNCHANGED <<entry, full>> /\ disturbed' = TRUE
      /\ task' = [x \in Tasks |->
           IF x = t THEN NoTask
           ELSE IF task[x].pc = "write" THEN [task[x] EXCEPT !.stale = TRUE]
           ELSE task[x]]
  BY DEF ChangeLost, Applied
<1>2. /\ \A x \in Tasks : task[x] \in TaskRecords
      /\ \A x \in Tasks : task[x].kind \in Changes => task[x].comic \in Comics
      /\ favs \in SUBSET Comics /\ entry \in Entries /\ full \in BOOLEAN
  BY DEF SessionInv, TypeInv
<1>3. task'[t] = NoTask /\ \A x \in Tasks \ {t} : Outdated(x)
  BY <1>1 DEF Outdated
<1>4. \A x \in Tasks \ {t} :
        /\ task'[x] \in TaskRecords
        /\ task'[x].pc = task[x].pc /\ task'[x].kind = task[x].kind
        /\ task'[x].comic = task[x].comic
        /\ task'[x].pc = "write" => task'[x].stale
  BY <1>2, <1>3, OutdatedFacts
<1>5. /\ task'[t] \in TaskRecords /\ task'[t].pc = "idle"
      /\ task'[t].kind = "none"
  BY <1>3, IdleFacts
<1>6. TypeInv'
  <2>1. task' \in [Tasks -> TaskRecords]
    BY <1>1, <1>4, <1>5
  <2>2. favs' \in SUBSET Comics
    BY <1>1, <1>2 DEF Applied
  <2>3. \A x \in Tasks : task'[x].kind \in Changes => task'[x].comic \in Comics
    BY <1>2, <1>4, <1>5 DEF Changes
  <2> QED
    BY <1>1, <1>2, <2>1, <2>2, <2>3 DEF TypeInv
<1>7. RepliesInv'
  BY <1>4, <1>5 DEF RepliesInv
<1>8. CacheInv'
  BY <1>1 DEF CacheInv
<1> QED
  BY <1>6, <1>7, <1>8 DEF SessionInv

\* A task writes the cache and is done.
LEMMA Written ==
  ASSUME SessionInv, NEW t \in Tasks, TaskDone(t), UNCHANGED favs
  PROVE  /\ task' \in [Tasks -> TaskRecords]
         /\ \A x \in Tasks : task'[x].kind \in Changes =>
                             task'[x].comic \in Comics
         /\ RepliesInv'
         /\ \A x \in Tasks, c \in Comics :
              Answering(x, c)' <=> Answering(x, c) /\ x # t
         /\ \A x \in Tasks \ {t} : task'[x] = task[x]
<1>1. task \in [Tasks -> TaskRecords]
  BY DEF SessionInv, TypeInv
<1>2. \A x \in Tasks : task'[x] = IF x = t THEN NoTask ELSE task[x]
  BY <1>1 DEF TaskDone
<1>3. task' \in [Tasks -> TaskRecords]
  BY <1>1, IdleFacts DEF TaskDone
<1>4. \A x \in Tasks : task[x].kind \in Changes => task[x].comic \in Comics
  BY DEF SessionInv, TypeInv
<1>5. RepliesInv'
  BY <1>2, IdleFacts DEF SessionInv, RepliesInv
<1>6. \A x \in Tasks : task'[x].kind \in Changes => task'[x].comic \in Comics
  BY <1>2, <1>4, IdleFacts DEF Changes
<1>7. \A x \in Tasks, c \in Comics :
        Answering(x, c)' <=> Answering(x, c) /\ x # t
  BY <1>2, IdleFacts DEF Answering
<1> QED
  BY <1>2, <1>3, <1>5, <1>6, <1>7

\* The list arrives and becomes the cache.
LEMMA WriteListStep ==
  ASSUME SessionInv, NEW t \in Tasks, WriteList(t)
  PROVE  SessionInv'
<1>1. /\ task[t].pc = "write" /\ task[t].kind \in Lists
      /\ entry' = [there |-> TRUE, ids |-> task[t].reply,
                   age |-> IF task[t].kind = "ensure" THEN task[t].age ELSE 0]
      /\ full' = TRUE /\ TaskDone(t) /\ UNCHANGED favs
      /\ disturbed' = (task[t].stale \/ (disturbed /\ \E x \in Tasks :
                         task[x].pc = "write" /\ task[x].kind \in Changes))
  BY DEF WriteList
<1>2. /\ task[t] \in TaskRecords /\ favs \in SUBSET Comics
      /\ disturbed \in BOOLEAN
  BY DEF SessionInv, TypeInv
<1>3. /\ task' \in [Tasks -> TaskRecords]
      /\ \A x \in Tasks : task'[x].kind \in Changes => task'[x].comic \in Comics
      /\ RepliesInv'
      /\ \A x \in Tasks, c \in Comics :
           Answering(x, c)' <=> Answering(x, c) /\ x # t
      /\ \A x \in Tasks \ {t} : task'[x] = task[x]
  BY <1>1, Written
<1>4. entry' \in Entries /\ entry'.ids = task[t].reply
  <2> DEFINE age == IF task[t].kind = "ensure" THEN task[t].age ELSE 0
  <2>1. age \in 0 .. CacheTTL /\ task[t].reply \in SUBSET Comics
    BY <1>2, SessionAssumption DEF TaskRecords
  <2>2. entry' = [there |-> TRUE, ids |-> task[t].reply, age |-> age]
    BY <1>1
  <2> HIDE DEF age
  <2> QED
    BY <2>1, <2>2 DEF Entries
<1>5. TypeInv'
  <2>1. disturbed' \in BOOLEAN
    BY <1>1, <1>2 DEF TaskRecords
  <2> QED
    BY <1>1, <1>2, <1>3, <1>4, <2>1 DEF TypeInv
<1>6. CacheInv'
  <2> SUFFICES ASSUME ~ disturbed'
               PROVE  CacheInv'
    BY DEF CacheInv
  <2>1. entry'.ids = favs
    BY <1>1, <1>4 DEF SessionInv, RepliesInv
  <2>2. CASE disturbed
    <3>1. \A x \in Tasks, c \in Comics : ~ Answering(x, c)'
      BY <1>1, <1>3, <2>2 DEF Answering
    <3> QED
      BY <1>1, <2>1, <3>1 DEF CacheInv
  <2>3. CASE ~ disturbed
    <3>1. /\ \A d \in Comics, x, y \in Tasks :
               Answering(x, d) /\ Answering(y, d) => x = y
          /\ \A d \in Comics, x \in Tasks :
               Answering(x, d) => (d \in favs <=> task[x].kind = "save")
      BY <2>3 DEF SessionInv, CacheInv
    <3> QED
      BY <1>1, <1>3, <2>1, <3>1 DEF CacheInv
  <2> QED
    BY <2>2, <2>3
<1> QED
  BY <1>3, <1>5, <1>6 DEF SessionInv

\* The answer to a save or a delete is entered in the cache.
LEMMA SavedStep ==
  ASSUME SessionInv, NEW t \in Tasks, set_saved_in_cache(t)
  PROVE  SessionInv'
<1> DEFINE c == task[t].comic
           ids == IF task[t].kind = "save" THEN entry.ids \cup {c}
                                           ELSE entry.ids \ {c}
<1>1. /\ task[t].pc = "write" /\ task[t].kind \in Changes
      /\ entry' = [there |-> TRUE, age |-> 0, ids |-> ids]
      /\ full' = (full /\ entry.there)
      /\ TaskDone(t) /\ UNCHANGED <<favs, disturbed>>
  BY DEF set_saved_in_cache
<1>2. /\ task[t] \in TaskRecords /\ favs \in SUBSET Comics /\ c \in Comics
      /\ disturbed \in BOOLEAN /\ full \in BOOLEAN /\ entry \in Entries
  BY <1>1 DEF SessionInv, TypeInv
<1>3. /\ task' \in [Tasks -> TaskRecords]
      /\ \A x \in Tasks : task'[x].kind \in Changes => task'[x].comic \in Comics
      /\ RepliesInv'
      /\ \A x \in Tasks, d \in Comics :
           Answering(x, d)' <=> Answering(x, d) /\ x # t
      /\ \A x \in Tasks \ {t} : task'[x] = task[x]
  BY <1>1, Written
<1>4. entry' \in Entries /\ entry'.ids = ids
  BY <1>1, <1>2, SessionAssumption DEF Entries
<1>5. full' \in BOOLEAN /\ (full' => full)
  BY <1>1, <1>2 DEF Entries
<1>6. TypeInv'
  BY <1>1, <1>2, <1>3, <1>4, <1>5 DEF TypeInv
<1>7. CacheInv'
  <2> SUFFICES ASSUME ~ disturbed'
               PROVE  CacheInv'
    BY DEF CacheInv
  <2>1. ~ disturbed
    BY <1>1
  <2>2. /\ \A d \in Comics, x, y \in Tasks :
             Answering(x, d) /\ Answering(y, d) => x = y
        /\ \A d \in Comics, x \in Tasks :
             Answering(x, d) => (d \in favs <=> task[x].kind = "save")
        /\ \A d \in Comics : (\A x \in Tasks : ~ Answering(x, d)) =>
             /\ d \in entry.ids => d \in favs
             /\ full /\ d \in favs => d \in entry.ids
    BY <2>1 DEF SessionInv, CacheInv
  <2>3. Answering(t, c)
    BY <1>1 DEF Answering
  <2>4. c \in favs <=> c \in ids
    BY <1>2, <2>2, <2>3
  <2>5. \A d \in Comics : d # c => (d \in ids <=> d \in entry.ids)
    OBVIOUS
  <2>6. \A d \in Comics : Answering(t, d) => d = c
    BY DEF Answering
  <2> HIDE DEF ids, c
  <2>7. ASSUME NEW d \in Comics, \A x \in Tasks : ~ Answering(x, d)'
        PROVE  /\ d \in ids => d \in favs
               /\ full /\ d \in favs => d \in ids
    <3>1. CASE d = c
      BY <2>4, <3>1
    <3>2. CASE d # c
      <4>1. \A x \in Tasks : ~ Answering(x, d)
        BY <1>3, <2>6, <2>7, <3>2
      <4> QED
        BY <2>2, <2>5, <3>2, <4>1
    <3> QED
      BY <3>1, <3>2
  <2>8. \A d \in Comics, x, y \in Tasks :
          Answering(x, d)' /\ Answering(y, d)' => x = y
    BY <1>3, <2>2
  <2>9. \A d \in Comics, x \in Tasks :
          Answering(x, d)' => (d \in favs' <=> task'[x].kind = "save")
    BY <1>1, <1>3, <2>2
  <2> QED
    BY <1>1, <1>4, <1>5, <2>7, <2>8, <2>9 DEF CacheInv
<1> QED
  BY <1>3, <1>6, <1>7 DEF SessionInv

\* The cache gets older.
LEMMA TickStep ==
  ASSUME SessionInv, Tick
  PROVE  SessionInv'
<1>1. /\ task' = [t \in Tasks |-> [task[t] EXCEPT !.age = Older(@)]]
      /\ entry' = [entry EXCEPT !.age = Older(@)]
      /\ UNCHANGED <<favs, full, disturbed>>
  BY DEF Tick
<1>2. /\ entry \in Entries /\ \A t \in Tasks : task[t] \in TaskRecords
      /\ \A t \in Tasks : task[t].kind \in Changes => task[t].comic \in Comics
  BY DEF SessionInv, TypeInv
<1>3. \A age \in 0 .. CacheTTL : Older(age) \in 0 .. CacheTTL
  BY SessionAssumption DEF Older
<1>4. \A t \in Tasks :
        /\ task'[t] \in TaskRecords
        /\ task'[t].pc = task[t].pc /\ task'[t].kind = task[t].kind
        /\ task'[t].comic = task[t].comic /\ task'[t].reply = task[t].reply
        /\ task'[t].stale = task[t].stale
  <2> SUFFICES ASSUME NEW t \in Tasks
               PROVE  /\ task'[t] \in TaskRecords
                      /\ task'[t].pc = task[t].pc
                      /\ task'[t].kind = task[t].kind
                      /\ task'[t].comic = task[t].comic
                      /\ task'[t].reply = task[t].reply
                      /\ task'[t].stale = task[t].stale
    OBVIOUS
  <2> DEFINE age == Older(task[t].age)
  <2>1. task'[t] = [task[t] EXCEPT !.age = age]
    BY <1>1
  <2>2. age \in 0 .. CacheTTL
    BY <1>2, <1>3 DEF TaskRecords
  <2> HIDE DEF age
  <2> QED
    BY <1>2, <2>1, <2>2 DEF TaskRecords
<1>5. entry' \in Entries /\ entry'.ids = entry.ids
  <2> DEFINE age == Older(entry.age)
  <2>1. entry' = [entry EXCEPT !.age = age]
    BY <1>1
  <2>2. age \in 0 .. CacheTTL
    BY <1>2, <1>3 DEF Entries
  <2> HIDE DEF age
  <2> QED
    BY <1>2, <2>1, <2>2 DEF Entries
<1>6. TypeInv'
  <2>1. task' \in [Tasks -> TaskRecords]
    BY <1>1, <1>4
  <2>2. \A t \in Tasks : task'[t].kind \in Changes => task'[t].comic \in Comics
    BY <1>2, <1>4
  <2> QED
    BY <1>1, <1>5, <2>1, <2>2 DEF SessionInv, TypeInv
<1>7. RepliesInv'
  BY <1>1, <1>4 DEF SessionInv, RepliesInv
<1>8. \A t \in Tasks, c \in Comics : Answering(t, c)' <=> Answering(t, c)
  BY <1>4 DEF Answering
<1>9. CacheInv'
  <2>1. UNCHANGED <<favs, full, disturbed>>
    BY <1>1
  <2>2. \A t \in Tasks : task'[t].kind = task[t].kind
    BY <1>4
  <2>3. entry'.ids = entry.ids
    BY <1>5
  <2>4. CacheInv
    BY DEF SessionInv
  <2> QED
    BY <1>8, <2>1, <2>2, <2>3, <2>4 DEF CacheInv
<1> QED
  BY <1>6, <1>7, <1>9 DEF SessionInv

\* The user changes his favorites on another client.
LEMMA ElsewhereStep ==
  ASSUME SessionInv, Elsewhere
  PROVE  SessionInv'
<1>1. /\ task' = [t \in Tasks |->
                   [task[t] EXCEPT !.stale = task[t].pc = "write"]]
      /\ favs' \in SUBSET Comics /\ disturbed' = TRUE
      /\ UNCHANGED <<entry, full>>
  BY DEF Elsewhere
<1>2. /\ \A t \in Tasks : task[t] \in TaskRecords
      /\ \A t \in Tasks : task[t].kind \in Changes => task[t].comic \in Comics
  BY DEF SessionInv, TypeInv
<1>3. ASSUME NEW t \in Tasks
      PROVE  /\ task'[t] \in TaskRecords
             /\ task'[t].pc = "write" => task'[t].stale
             /\ task'[t].kind = task[t].kind
             /\ task'[t].comic = task[t].comic
  <2> DEFINE b == task[t].pc = "write"
  <2>1. task'[t] = [task[t] EXCEPT !.stale = b] /\ b \in BOOLEAN
    BY <1>1
  <2>2. task'[t].pc = task[t].pc /\ task'[t].stale = b
    BY <1>2, <2>1 DEF TaskRecords
  <2> QED
    BY <1>2, <2>1, <2>2 DEF TaskRecords
<1>4. TypeInv'
  <2>1. task' \in [Tasks -> TaskRecords]
    BY <1>1, <1>3
  <2>2. \A t \in Tasks : task'[t].kind \in Changes => task'[t].comic \in Comics
    BY <1>2, <1>3
  <2> QED
    BY <1>1, <2>1, <2>2 DEF SessionInv, TypeInv
<1>5. RepliesInv'
  BY <1>3 DEF RepliesInv
<1>6. CacheInv'
  BY <1>1 DEF CacheInv
<1> QED
  BY <1>4, <1>5, <1>6 DEF SessionInv

\* A bot that has just been started has no cache to be wrong about.
LEMMA Started ==
  ASSUME favs \in SUBSET Comics, entry = NoEntry,
         task = [t \in Tasks |-> NoTask], full = FALSE, disturbed = FALSE
  PROVE  SessionInv
<1>1. entry \in Entries /\ entry.ids = {}
  BY SessionAssumption DEF NoEntry, Entries
<1>2. \A t \in Tasks : task[t].pc = "idle" /\ task[t].kind = "none"
  BY IdleFacts
<1>3. TypeInv
  BY <1>1, <1>2, IdleFacts DEF TypeInv, Changes
<1>4. RepliesInv
  BY <1>2 DEF RepliesInv
<1>5. CacheInv
  BY <1>1, <1>2 DEF CacheInv, Answering
<1> QED
  BY <1>3, <1>4, <1>5 DEF SessionInv

\* The bot is restarted with an empty cache.
LEMMA RestartStep ==
  ASSUME SessionInv, Restart
  PROVE  SessionInv'
<1>1. /\ favs' \in SUBSET Comics /\ entry' = NoEntry
      /\ task' = [t \in Tasks |-> NoTask] /\ full' = FALSE
      /\ disturbed' = FALSE
  BY DEF Restart, SessionInv, TypeInv
<1>2. entry' \in Entries /\ entry'.ids = {}
  BY <1>1, SessionAssumption DEF NoEntry, Entries
<1>3. \A t \in Tasks : task'[t].pc = "idle" /\ task'[t].kind = "none"
  BY <1>1, IdleFacts
<1>4. TypeInv'
  BY <1>1, <1>2, <1>3, IdleFacts DEF TypeInv, Changes
<1>5. RepliesInv'
  BY <1>3 DEF RepliesInv
<1>6. CacheInv'
  BY <1>1, <1>2, <1>3 DEF CacheInv, Answering
<1> QED
  BY <1>4, <1>5, <1>6 DEF SessionInv

\* Steps that concern neither the cache nor the handlers.
LEMMA OtherStep ==
  ASSUME SessionInv, UNCHANGED <<favs, entry, task, full, disturbed>>
  PROVE  SessionInv'
<1>1. TypeInv'
  BY DEF SessionInv, TypeInv
<1>2. RepliesInv'
  BY DEF SessionInv, RepliesInv
<1>3. \A t \in Tasks, c \in Comics : Answering(t, c)' <=> Answering(t, c)
  BY DEF Answering
<1>4. CacheInv'
  BY <1>3 DEF SessionInv, CacheInv
<1> QED
  BY <1>1, <1>2, <1>4 DEF SessionInv

-----------------------------------------------------------------------------
(* The theorems about the cache.                                           *)

\* Every step preserves the invariant.
LEMMA SessionStep == SessionInv /\ [SessionNext]_sessionVars => SessionInv'
<1> SUFFICES ASSUME SessionInv, [SessionNext]_sessionVars
             PROVE  SessionInv'
  OBVIOUS
<1>1. ASSUME NEW t \in Tasks, Handler(t)
      PROVE  SessionInv'
  <2>1. CASE Unauthorized(t)
    <3>1. /\ task[t].pc # "write" /\ TaskDone(t)
          /\ UNCHANGED <<favs, entry, full, disturbed>>
      BY <2>1 DEF Unauthorized
    <3> QED
      BY <3>1, DoneStep
  <2> QED
    BY <1>1, <2>1, LoginStep, ListStep, ChangeStep, WriteListStep, SavedStep
       DEF Handler
<1>2. ASSUME NEW t \in Tasks, ApiFails(t)
      PROVE  SessionInv'
  <2>1. /\ task[t].pc # "write" /\ TaskDone(t)
        /\ UNCHANGED <<favs, entry, full, disturbed>>
    BY <1>2 DEF ApiFails
  <2> QED
    BY <2>1, DoneStep
<1>3. CASE TokenExpires \/ UNCHANGED sessionVars
  <2>1. UNCHANGED <<favs, entry, task, full, disturbed>>
    BY <1>3 DEF TokenExpires, sessionVars
  <2> QED
    BY <2>1, OtherStep
<1> QED
  BY <1>1, <1>2, <1>3, StartStep, ChangeLostStep, TickStep,
     ElsewhereStep, RestartStep DEF SessionNext, Looking, Pressing

\* SessionInv: an answer on its way is the favorites service's last word about
\* its comic, and about the others the cache is right (session.py:27-76).
THEOREM SessionInvariant == SessionSpec => []SessionInv
<1>1. SessionInit => SessionInv
  BY Started DEF SessionInit
<1> QED
  BY <1>1, SessionStep, PTL DEF SessionSpec

\* CacheIsRight: between handlers the cache agrees with the favorites service,
\* for any number of handlers at once and of comics, unless there is a known
\* reason why not (session.py:27-76).
THEOREM CacheTellsTheTruth == SessionSpec => []CacheIsRight
  BY SessionInvariant, InvImplies, PTL

-----------------------------------------------------------------------------
(* What pop and remove leave of a sequence.                                *)

\* The elements behind a removed one move up by one.
LEMMA RemoveAtFacts ==
  ASSUME NEW S, NEW s \in Seq(S), NEW i \in 1 .. Len(s)
  PROVE  /\ RemoveAt(s, i) \in Seq(S)
         /\ Len(RemoveAt(s, i)) = Len(s) - 1
         /\ \A k \in 1 .. Len(s) - 1 :
              RemoveAt(s, i)[k] = IF k < i THEN s[k] ELSE s[k + 1]
<1> DEFINE a == SubSeq(s, 1, i - 1)
           b == SubSeq(s, i + 1, Len(s))
<1>0. Len(s) \in Nat /\ i \in Nat /\ 1 <= i /\ i <= Len(s)
  OBVIOUS
<1>1. /\ a \in Seq(S) /\ Len(a) = i - 1
      /\ \A k \in 1 .. i - 1 : a[k] = s[k]
  <2>1. \A k \in 1 .. i - 1 : s[k] \in S
    BY <1>0
  <2>2. /\ a \in Seq(S) /\ Len(a) = IF 1 <= i - 1 THEN i - 1 - 1 + 1 ELSE 0
        /\ \A k \in 1 .. i - 1 - 1 + 1 : a[k] = s[1 + k - 1]
    BY <1>0, <2>1, SubSeqProperties
  <2> QED
    BY <1>0, <2>2
<1>2. /\ b \in Seq(S) /\ Len(b) = Len(s) - i
      /\ \A k \in 1 .. Len(s) - i : b[k] = s[i + k]
  <2>1. \A k \in i + 1 .. Len(s) : s[k] \in S
    BY <1>0
  <2>2. /\ b \in Seq(S)
        /\ Len(b) = IF i + 1 <= Len(s) THEN Len(s) - (i + 1) + 1 ELSE 0
        /\ \A k \in 1 .. Len(s) - (i + 1) + 1 : b[k] = s[i + 1 + k - 1]
    BY <1>0, <2>1, SubSeqProperties
  <2> QED
    BY <1>0, <2>2
<1>3. RemoveAt(s, i) = a \o b
  BY DEF RemoveAt
<1>4. /\ a \o b \in Seq(S) /\ Len(a \o b) = Len(a) + Len(b)
      /\ \A k \in 1 .. Len(a) + Len(b) :
           (a \o b)[k] = IF k <= Len(a) THEN a[k] ELSE b[k - Len(a)]
  <2> HIDE DEF a, b
  <2> QED
    BY <1>1, <1>2, ConcatProperties
<1> HIDE DEF a, b
<1>5. ASSUME NEW k \in 1 .. Len(s) - 1
      PROVE  (a \o b)[k] = IF k < i THEN s[k] ELSE s[k + 1]
  <2>1. k \in 1 .. Len(a) + Len(b)
    BY <1>0, <1>1, <1>2
  <2>2. CASE k < i
    BY <1>0, <1>1, <1>4, <2>1, <2>2
  <2>3. CASE ~ (k < i)
    <3>1. k - (i - 1) \in 1 .. Len(s) - i /\ i + (k - (i - 1)) = k + 1
      BY <1>0, <2>3
    <3>2. b[k - (i - 1)] = s[k + 1]
      BY <1>2, <3>1
    <3> QED
      BY <1>0, <1>1, <1>4, <2>1, <2>3, <3>2
  <2> QED
    BY <2>2, <2>3
<1> QED
  BY <1>0, <1>1, <1>2, <1>3, <1>4, <1>5

\* Where RemoveFirst and RemoveFirstMatch find their element.
LEMMA FirstPlace ==
  ASSUME NEW n \in Nat, NEW I \in SUBSET (1 .. n), I # {}
  PROVE  Min(I) \in I
<1>1. I \subseteq Nat
  OBVIOUS
<1>2. \E m \in I : \A k \in I : ~ (<<k, m>> \in OpToRel(<, Nat))
  BY <1>1, NatLessThanWellFounded, WFMin
<1>3. \A k, m \in Nat : <<k, m>> \in OpToRel(<, Nat) <=> k < m
  <2>1. OpToRel(<, Nat) = {ss \in Nat \X Nat : ss[1] < ss[2]}
    BY Zenon DEF OpToRel
  <2> QED
    BY <2>1
<1>4. \E m \in I : \A k \in I : ~ (k < m)
  BY <1>1, <1>2, <1>3
<1>5. \E m \in I : \A k \in I : m <= k
  BY <1>1, <1>4
<1> QED
  BY <1>5 DEF Min

\* A sequence without the first occurrence of an element.
LEMMA RemoveFirstFacts ==
  ASSUME NEW S, NEW s \in Seq(S), NEW x
  PROVE  RemoveFirst(s, x) \in Seq(S)
<1>1. CASE \E i \in 1 .. Len(s) : s[i] = x
  <2> DEFINE I == {i \in 1 .. Len(s) : s[i] = x}
  <2>1. RemoveFirst(s, x) = RemoveAt(s, Min(I))
    BY <1>1 DEF RemoveFirst, SelectInSeq
  <2>2. Min(I) \in 1 .. Len(s)
    <3>1. Len(s) \in Nat /\ I \in SUBSET (1 .. Len(s)) /\ I # {}
      BY <1>1
    <3> HIDE DEF I
    <3> QED
      BY <3>1, FirstPlace
  <2> QED
    BY <2>1, <2>2, RemoveAtFacts
<1>2. CASE ~ \E i \in 1 .. Len(s) : s[i] = x
  BY <1>2 DEF RemoveFirst
<1> QED
  BY <1>1, <1>2

-----------------------------------------------------------------------------
(* The map.                                                                *)

Maps == Seq(Nat \X Nat)

OneEntryEach(map) ==
  \A i, j \in DOMAIN map : map[i][1] = map[j][1] => i = j

\* The positions of the ordered map.
LEMMA MapDomain ==
  ASSUME NEW map \in Maps
  PROVE  Len(map) \in Nat /\ DOMAIN map = 1 .. Len(map)
  BY DEF Maps

\* drop_ctx removes the entry of its message and adds none.
LEMMA DropFacts ==
  ASSUME NEW map \in Maps, OneEntryEach(map), NEW m
  PROVE  /\ drop_ctx(map, m) \in Maps
         /\ Len(drop_ctx(map, m)) <= Len(map)
         /\ OneEntryEach(drop_ctx(map, m))
         /\ \A i \in DOMAIN drop_ctx(map, m) :
              /\ drop_ctx(map, m)[i][1] # m
              /\ \E j \in DOMAIN map : drop_ctx(map, m)[i] = map[j]
<1> DEFINE r == drop_ctx(map, m)
<1>1. CASE \E i \in 1 .. Len(map) : map[i][1] = m
  <2> DEFINE I == {i \in 1 .. Len(map) : map[i][1] = m}
             f == Min(I)
  <2>1. r = RemoveAt(map, f)
    BY <1>1 DEF drop_ctx, RemoveFirstMatch, SelectInSeq
  <2>2. f \in I
    <3>1. Len(map) \in Nat
      BY MapDomain
    <3>2. I \in SUBSET (1 .. Len(map)) /\ I # {}
      BY <1>1
    <3> HIDE DEF I
    <3> QED
      BY <3>1, <3>2, FirstPlace
  <2>3. f \in 1 .. Len(map) /\ map[f][1] = m
    BY <2>2
  <2> HIDE DEF f, I
  <2>4. /\ r \in Maps /\ Len(r) = Len(map) - 1
        /\ \A k \in 1 .. Len(map) - 1 :
             r[k] = IF k < f THEN map[k] ELSE map[k + 1]
    BY <2>1, <2>3, RemoveAtFacts DEF Maps
  <2> HIDE DEF r
  <2>5. \A k \in DOMAIN r : \E j \in DOMAIN map :
          j # f /\ r[k] = map[j] /\ j = IF k < f THEN k ELSE k + 1
    <3> SUFFICES ASSUME NEW k \in DOMAIN r
                 PROVE  \E j \in DOMAIN map :
                   j # f /\ r[k] = map[j] /\ j = IF k < f THEN k ELSE k + 1
      OBVIOUS
    <3>1. k \in 1 .. Len(map) - 1 /\ DOMAIN map = 1 .. Len(map)
      BY <2>4, MapDomain
    <3>2. CASE k < f
      <4>1. k \in DOMAIN map /\ k # f /\ r[k] = map[k]
        BY <2>3, <2>4, <3>1, <3>2
      <4> QED
        BY <3>2, <4>1
    <3>3. CASE ~ (k < f)
      <4>1. k + 1 \in DOMAIN map /\ k + 1 # f /\ r[k] = map[k + 1]
        BY <2>3, <2>4, <3>1, <3>3
      <4> QED
        BY <3>3, <4>1
    <3> QED
      BY <3>2, <3>3
  <2>6. \A k \in DOMAIN r : r[k][1] # m
    BY <2>3, <2>5 DEF OneEntryEach, Maps
  <2>7. OneEntryEach(r)
    <3> SUFFICES ASSUME NEW i \in DOMAIN r, NEW j \in DOMAIN r,
                        r[i][1] = r[j][1]
                 PROVE  i = j
      BY DEF OneEntryEach
    <3>1. PICK a \in DOMAIN map : a # f /\ r[i] = map[a]
                                  /\ a = IF i < f THEN i ELSE i + 1
      BY <2>5
    <3>2. PICK b \in DOMAIN map : b # f /\ r[j] = map[b]
                                  /\ b = IF j < f THEN j ELSE j + 1
      BY <2>5
    <3>3. a = b
      BY <3>1, <3>2 DEF OneEntryEach
    <3>4. i \in Nat /\ j \in Nat /\ f \in Nat
      BY <2>3, <2>4, MapDomain
    <3> QED
      BY <3>1, <3>2, <3>3, <3>4
  <2> QED
    BY <2>4, <2>5, <2>6, <2>7 DEF Maps, r
<1>2. CASE ~ \E i \in 1 .. Len(map) : map[i][1] = m
  <2>1. r = map
    BY <1>2 DEF drop_ctx, RemoveFirstMatch
  <2> QED
    BY <1>2, <2>1 DEF Maps
<1> QED
  BY <1>1, <1>2

\* A function on 1 .. n is a sequence of length n.
LEMMA ListAsSequence ==
  ASSUME NEW S, NEW n \in Nat, NEW f \in [1 .. n -> S]
  PROVE  f \in Seq(S) /\ Len(f) = n /\ DOMAIN f = 1 .. n
  OBVIOUS

\* put_ctx binds its message, evicts the oldest entries beyond the limit and
\* adds none for any other message.
LEMMA PutFacts ==
  ASSUME NEW map \in Maps, OneEntryEach(map), NEW m \in Nat, NEW o \in Nat,
         max_sessions \in Nat \ {0}, Len(map) <= max_sessions
  PROVE  /\ put_ctx(map, m, o) \in Maps
         /\ Len(put_ctx(map, m, o)) <= max_sessions
         /\ OneEntryEach(put_ctx(map, m, o))
         /\ \A i \in DOMAIN put_ctx(map, m, o) :
              \/ put_ctx(map, m, o)[i] = <<m, o>>
              \/ /\ put_ctx(map, m, o)[i][1] # m
                 /\ \E j \in DOMAIN map : put_ctx(map, m, o)[i] = map[j]
<1> DEFINE r == put_ctx(map, m, o)
<1>1. CASE \E i \in DOMAIN map : map[i][1] = m
  <2>1. r = [i \in DOMAIN map |-> IF map[i][1] = m THEN <<m, o>> ELSE map[i]]
    BY <1>1 DEF put_ctx
  <2> HIDE DEF r
  <2>2. r \in Maps /\ Len(r) = Len(map) /\ DOMAIN r = DOMAIN map
    <3>1. Len(map) \in Nat /\ DOMAIN map = 1 .. Len(map)
      BY MapDomain
    <3>2. \A i \in DOMAIN map : map[i] \in Nat \X Nat
      BY DEF Maps
    <3>3. r \in [1 .. Len(map) -> Nat \X Nat]
      BY <2>1, <3>1, <3>2
    <3>4. r \in Seq(Nat \X Nat) /\ Len(r) = Len(map) /\ DOMAIN r = 1 .. Len(map)
      BY ONLY <3>1, <3>3, ListAsSequence
    <3> QED
      BY <3>1, <3>4 DEF Maps
  <2>3. \A i \in DOMAIN map : r[i][1] = map[i][1]
    BY <2>1
  <2>4. OneEntryEach(r)
    BY <2>2, <2>3 DEF OneEntryEach
  <2> QED
    BY <2>1, <2>2, <2>4 DEF r
<1>2. CASE ~ \E i \in DOMAIN map : map[i][1] = m
  <2> DEFINE l == Append(map, <<m, o>>)
  <2>1. /\ l \in Maps /\ Len(l) = Len(map) + 1
        /\ \A i \in 1 .. Len(map) : l[i] = map[i]
        /\ l[Len(map) + 1] = <<m, o>>
    BY DEF Maps
  <2>2. r = IF Len(l) > max_sessions THEN Tail(l) ELSE l
    BY <1>2 DEF put_ctx
  <2> HIDE DEF l, r
  <2>3. /\ \A i \in DOMAIN l : \/ l[i] = <<m, o>> /\ i = Len(map) + 1
                               \/ i \in DOMAIN map /\ l[i] = map[i]
        /\ OneEntryEach(l)
    <3>1. \A i \in DOMAIN l : \/ l[i] = <<m, o>> /\ i = Len(map) + 1
                              \/ i \in DOMAIN map /\ l[i] = map[i]
      <4>1. /\ DOMAIN l = 1 .. Len(map) + 1 /\ DOMAIN map = 1 .. Len(map)
            /\ Len(map) \in Nat
        BY <2>1, MapDomain
      <4>2. \A i \in DOMAIN l : i = Len(map) + 1 \/ i \in 1 .. Len(map)
        BY <4>1
      <4> QED
        BY <2>1, <4>1, <4>2
    <3>2. \A i \in DOMAIN l : i \in DOMAIN map => map[i][1] # m
      BY <1>2
    <3>3. <<m, o>>[1] = m
      OBVIOUS
    <3>4. OneEntryEach(l)
      BY <3>1, <3>2, <3>3 DEF OneEntryEach
    <3> QED
      BY <3>1, <3>4
  <2>4. CASE Len(l) > max_sessions
    <3>1. r = Tail(l) /\ Len(r) = Len(map) /\ r \in Maps
      BY <2>1, <2>2, <2>4 DEF Maps
    <3>2. \A i \in DOMAIN r : i + 1 \in DOMAIN l /\ r[i] = l[i + 1]
      <4>1. l # << >> /\ DOMAIN l = 1 .. Len(map) + 1
        BY <2>1 DEF Maps
      <4>2. \A i \in 1 .. Len(r) : r[i] = l[i + 1]
        BY <2>1, <3>1, <4>1, HeadTailProperties DEF Maps
      <4> QED
        BY <3>1, <4>1, <4>2, MapDomain
    <3>3. OneEntryEach(r)
      BY <2>3, <3>1, <3>2 DEF OneEntryEach, Maps
    <3> QED
      BY <1>2, <2>3, <3>1, <3>2, <3>3 DEF r
  <2>5. CASE ~ (Len(l) > max_sessions)
    BY <1>2, <2>1, <2>2, <2>3, <2>5 DEF r, Maps
  <2> QED
    BY <2>4, <2>5
<1> QED
  BY <1>1, <1>2

-----------------------------------------------------------------------------
(* The inductive invariant of the contexts.                                *)

Contexts ==
  [mode : Modes, list : Seq(Nat), idx : Nat \ {0}, comic : Nat]
Screens == [mode : Modes, comic : Nat, saved : Nat]
HandlerRecords ==
  [pc : {"idle", "save", "fetch", "delete", "show", "bind"},
   kind : {"none", "command", "nav", "random", "del", "save"},
   msg : Nat, obj : Nat, new : Nat, idx : Nat, comic : Nat, list : Seq(Nat)]

\* Which message and context a handler has at each point.
Stage(r) ==
  \/ r.pc = "idle" /\ r.msg = 0 /\ r.new = 0 /\ r.obj = 0
  \/ r.pc = "bind" /\ r.new # 0 /\ r.obj # 0
  \/ /\ r.msg # 0 /\ r.new = 0
     /\ \/ r.pc = "save" /\ r.obj = 0
        \/ r.pc = "fetch" /\ r.kind = "random" /\ r.obj = 0
        \/ /\ r.pc = "fetch" /\ r.kind \in {"nav", "del"}
           /\ r.obj # 0 /\ r.idx # 0
        \/ r.pc = "delete" /\ r.kind = "del" /\ r.obj # 0
        \/ r.pc = "show" /\ r.obj # 0

CtxTypes ==
  /\ max_sessions \in Nat \ {0}
  /\ shown \in Seq(Screens) /\ heap \in Seq(Contexts)
  /\ msg_ctx \in Maps /\ OneEntryEach(msg_ctx)
  /\ Len(msg_ctx) <= max_sessions
  /\ hd \in [Handlers -> HandlerRecords]
  /\ \A h \in Handlers : Stage(hd[h])

Entry(m, o) == \E i \in DOMAIN msg_ctx : msg_ctx[i] = <<m, o>>

Places ==
  /\ \A h \in Handlers : /\ hd[h].msg <= Len(shown)
                         /\ hd[h].new <= Len(shown)
                         /\ hd[h].obj <= Len(heap)
  /\ \A m, o \in Nat : Entry(m, o) =>
       m \in 1 .. Len(shown) /\ o \in 1 .. Len(heap)

About(h, m) == m # 0 /\ (hd[h].msg = m \/ hd[h].new = m)
AllDirty(h) == \A m \in Nat : About(h, m) => m \in dirty
Clean(h) == \A m \in Nat : About(h, m) => m \notin dirty

\* A message two handlers are busy with is dirty, and what replaces a dirty
\* message is dirty.
Overlaps ==
  /\ \A h, x \in Handlers, m \in Nat :
       h # x /\ About(h, m) /\ About(x, m) => m \in dirty
  /\ \A h \in Handlers :
       hd[h].msg # 0 /\ hd[h].new # 0 /\ hd[h].msg \in dirty =>
         hd[h].new \in dirty

\* Whoever shares a context, messages or handlers, is dirty; a handler and the
\* message it was started under share one lawfully.
Sharing ==
  /\ \A m, n, o \in Nat : Entry(m, o) /\ Entry(n, o) /\ m # n => m \in dirty
  /\ \A m, o \in Nat, h \in Handlers : Entry(m, o) /\ hd[h].obj = o =>
       hd[h].msg = m \/ (m \in dirty /\ AllDirty(h))
  /\ \A h, x \in Handlers :
       h # x /\ hd[h].obj = hd[x].obj /\ hd[h].obj # 0 => AllDirty(h)

WellFormed(c) == c.idx \in DOMAIN c.list /\ c.list[c.idx] = c.comic
Agree(m, o) ==
  /\ heap[o].comic = shown[m].comic
  /\ shown[m].saved = 0 \/ shown[m].saved = shown[m].comic

\* The message may show something else than its context names, because a
\* handler is between the one and the other.
Moved(m) ==
  \E h \in Handlers : hd[h].pc \in {"show", "bind"} /\ About(h, m)

EntryRight(m, o) ==
  m \notin dirty =>
    /\ WellFormed(heap[o])
    /\ OnScreen(m) /\ ~ Moved(m) => Agree(m, o)

\* What a handler has in hand is still true when it comes to use it.
HandlerRight(h) ==
  Clean(h) =>
    /\ hd[h].obj # 0 => WellFormed(heap[hd[h].obj])
    /\ hd[h].pc = "fetch" /\ hd[h].kind = "nav" =>
         /\ hd[h].idx \in DOMAIN heap[hd[h].obj].list
         /\ heap[hd[h].obj].list[hd[h].idx] = hd[h].comic
    /\ hd[h].pc = "fetch" /\ hd[h].kind = "del" =>
         /\ hd[h].idx \in DOMAIN hd[h].list
         /\ hd[h].list[hd[h].idx] = hd[h].comic
    /\ hd[h].pc = "show" => heap[hd[h].obj].comic = hd[h].comic
    /\ hd[h].pc = "bind" /\ OnScreen(hd[h].new) =>
         Agree(hd[h].new, hd[h].obj)
    /\ hd[h].pc = "save" /\ OnScreen(hd[h].msg) =>
         hd[h].comic = shown[hd[h].msg].comic

ScreenInv ==
  /\ \A m, o \in Nat : Entry(m, o) => EntryRight(m, o)
  /\ \A h \in Handlers : HandlerRight(h)

CtxInv == CtxTypes /\ Places /\ Overlaps /\ Sharing /\ ScreenInv

-----------------------------------------------------------------------------
(* Lemmas.                                                                 *)

\* The context a handler works on exists.
LEMMA ContextExists ==
  ASSUME CtxInv, NEW x \in Handlers, hd[x].obj # 0
  PROVE  hd[x].obj \in DOMAIN heap
<1>1. hd[x].obj \in Nat
  BY DEF CtxInv, CtxTypes, HandlerRecords
<1>2. Len(heap) \in Nat /\ DOMAIN heap = 1 .. Len(heap)
  BY DEF CtxInv, CtxTypes
<1>3. hd[x].obj <= Len(heap)
  BY DEF CtxInv, Places
<1> QED
  BY <1>1, <1>2, <1>3

\* The invariant contains both properties.
LEMMA CtxInvImplies == CtxInv => ContextsAreSeparate /\ ScreenMatchesContext
<1> SUFFICES ASSUME CtxInv
             PROVE  ContextsAreSeparate /\ ScreenMatchesContext
  OBVIOUS
<1>1. \A i \in DOMAIN msg_ctx :
        /\ msg_ctx[i][1] \in Nat /\ msg_ctx[i][2] \in Nat
        /\ Entry(msg_ctx[i][1], msg_ctx[i][2])
  BY DEF CtxInv, CtxTypes, Maps, Entry
<1>2. ContextsAreSeparate
  BY <1>1 DEF CtxInv, CtxTypes, OneEntryEach, Sharing, ContextsAreSeparate
<1>3. ASSUME NEW i \in DOMAIN msg_ctx, msg_ctx[i][1] \notin dirty,
             OnScreen(msg_ctx[i][1]), Overlapping(msg_ctx[i][1]) = {}
      PROVE  /\ WellFormed(heap[msg_ctx[i][2]])
             /\ Agree(msg_ctx[i][1], msg_ctx[i][2])
  <2>1. ~ Moved(msg_ctx[i][1])
    BY <1>3 DEF Moved, About, Overlapping
  <2> QED
    BY <1>1, <1>3, <2>1 DEF CtxInv, ScreenInv, EntryRight
<1>4. ScreenMatchesContext
  BY <1>3 DEF ScreenMatchesContext, WellFormed, Agree
<1> QED
  BY <1>2, <1>4

\* A step of one handler leaves the others as they are.
LEMMA HandlerChanges ==
  ASSUME CtxInv, NEW h \in Handlers, NEW q \in HandlerRecords, Stage(q),
         hd' = [hd EXCEPT ![h] = q]
  PROVE  /\ hd'[h] = q /\ hd' \in [Handlers -> HandlerRecords]
         /\ \A x \in Handlers : x # h => hd'[x] = hd[x]
         /\ \A x \in Handlers : Stage(hd'[x])
<1>1. hd \in [Handlers -> HandlerRecords] /\ \A x \in Handlers : Stage(hd[x])
  BY DEF CtxInv, CtxTypes
<1>2. /\ hd'[h] = q /\ hd' \in [Handlers -> HandlerRecords]
      /\ \A x \in Handlers : x # h => hd'[x] = hd[x]
  BY <1>1
<1> QED
  BY <1>1, <1>2

\* A handler that is not at work.
LEMMA IdleHandler ==
  /\ Idle \in HandlerRecords /\ Stage(Idle)
  /\ Idle.pc = "idle" /\ Idle.msg = 0 /\ Idle.new = 0 /\ Idle.obj = 0
  BY DEF Idle, HandlerRecords, Stage

\* get_ctx of a message that is bound finds its entry.
LEMMA BoundEntry ==
  ASSUME CtxInv, NEW m \in Nat, Bound(m)
  PROVE  get_ctx(m) \in Nat /\ Entry(m, get_ctx(m))
<1>1. PICK i \in DOMAIN msg_ctx :
        /\ msg_ctx[i][1] = m
        /\ get_ctx(m) = msg_ctx[i][2]
  BY DEF Bound, get_ctx
<1> QED
  BY <1>1 DEF CtxInv, CtxTypes, Maps, Entry

\* An entry leads to a context.
LEMMA EntryContext ==
  ASSUME CtxInv, NEW m \in Nat, NEW o \in Nat, Entry(m, o)
  PROVE  /\ o # 0 /\ o \in 1 .. Len(heap)
         /\ heap[o] \in Contexts /\ heap[o].comic \in Nat
<1>1. o # 0 /\ o \in 1 .. Len(heap)
  <2>1. o \in 1 .. Len(heap)
    BY DEF CtxInv, Places
  <2> QED
    BY <2>1
<1>2. heap[o] \in Contexts
  BY <1>1 DEF CtxInv, CtxTypes
<1> QED
  BY <1>1, <1>2 DEF Contexts

\* A step that starts nothing: entries only go, and handlers end or go on with
\* the messages and the context they had.
LEMMA NothingNew ==
  ASSUME CtxInv, dirty \subseteq dirty',
         \A m, o \in Nat : Entry(m, o)' => Entry(m, o),
         \A x \in Handlers :
           \/ hd'[x].msg = 0 /\ hd'[x].new = 0 /\ hd'[x].obj = 0
           \/ /\ hd'[x].msg = hd[x].msg /\ hd'[x].obj = hd[x].obj
              /\ hd'[x].new = hd[x].new \/ hd'[x].new = hd[x].msg,
         \A x \in Handlers :
           hd'[x].msg # 0 /\ hd'[x].new # 0 /\ hd'[x].msg \in dirty' =>
             hd'[x].new \in dirty'
  PROVE  Overlaps' /\ Sharing'
<1>1. \A x \in Handlers, m \in Nat : About(x, m)' => About(x, m)
  BY DEF About
<1>2. \A x \in Handlers : AllDirty(x) => AllDirty(x)'
  BY <1>1 DEF AllDirty
<1>3. Overlaps'
  BY <1>1 DEF CtxInv, Overlaps
<1>4. \A m, n, o \in Nat : Entry(m, o)' /\ Entry(n, o)' /\ m # n => m \in dirty'
  BY DEF CtxInv, Sharing
<1>5. ASSUME NEW m \in Nat, NEW o \in Nat, NEW x \in Handlers,
             Entry(m, o)', hd'[x].obj = o
      PROVE  hd'[x].msg = m \/ (m \in dirty' /\ AllDirty(x)')
  <2>1. o # 0
    BY <1>5 DEF CtxInv, Places
  <2>2. hd[x].obj = o /\ hd'[x].msg = hd[x].msg
    BY <1>5, <2>1
  <2> QED
    BY <1>2, <1>5, <2>2 DEF CtxInv, Sharing
<1>6. ASSUME NEW x \in Handlers, NEW y \in Handlers, x # y,
             hd'[x].obj = hd'[y].obj, hd'[x].obj # 0
      PROVE  AllDirty(x)'
  <2>1. hd[x].obj = hd[y].obj /\ hd[x].obj # 0
    BY <1>6
  <2> QED
    BY <1>2, <1>6, <2>1 DEF CtxInv, Sharing
<1>7. Sharing'
  BY <1>4, <1>5, <1>6 DEF Sharing
<1> QED
  BY <1>3, <1>7

\* What a step leaves alone stays right.
LEMMA HandlerStaysRight ==
  ASSUME CtxInv, dirty \subseteq dirty',
         NEW x \in Handlers, hd'[x] = hd[x],
         Clean(x)' /\ hd[x].obj # 0 => heap'[hd[x].obj] = heap[hd[x].obj],
         \A m \in Nat : Clean(x)' /\ About(x, m) =>
           m \in DOMAIN shown /\ shown'[m] = shown[m]
  PROVE  HandlerRight(x)'
<1> SUFFICES ASSUME Clean(x)'
             PROVE  HandlerRight(x)'
  BY DEF HandlerRight
<1>1. \A m \in Nat : About(x, m)' <=> About(x, m)
  BY DEF About
<1>2. Clean(x)
  BY <1>1 DEF Clean
<1>3. hd[x] \in HandlerRecords /\ Stage(hd[x])
  BY DEF CtxInv, CtxTypes
<1>4. hd[x].msg \in Nat /\ hd[x].new \in Nat
  BY <1>3 DEF HandlerRecords
<1>5. HandlerRight(x)
  BY DEF CtxInv, ScreenInv
<1>6. hd[x].obj # 0 => heap'[hd[x].obj] = heap[hd[x].obj]
  OBVIOUS
<1>7. hd[x].pc = "bind" => hd[x].new \in DOMAIN shown
                           /\ shown'[hd[x].new] = shown[hd[x].new]
  BY <1>3, <1>4 DEF About, Stage
<1>8. hd[x].pc = "save" => hd[x].msg \in DOMAIN shown
                           /\ shown'[hd[x].msg] = shown[hd[x].msg]
  BY <1>3, <1>4 DEF About, Stage
<1>9. hd[x].pc \in {"show", "bind"} => hd[x].obj # 0
  BY <1>3 DEF Stage
<1>10. hd[x].pc = "fetch" /\ hd[x].kind = "nav" => hd[x].obj # 0
  BY <1>3 DEF Stage
<1> QED
  BY <1>2, <1>5, <1>6, <1>7, <1>8, <1>9, <1>10
     DEF HandlerRight, Agree, OnScreen

\* An entry stays right if its context and its message are left alone, or if
\* somebody moves on it, or if it is marked.
LEMMA EntryStaysRight ==
  ASSUME CtxInv, dirty \subseteq dirty',
         NEW m \in Nat, NEW o \in Nat, Entry(m, o),
         m \notin dirty' => heap'[o] = heap[o],
         m \notin dirty' => Moved(m)' \/ (~ Moved(m) /\ shown'[m] = shown[m])
  PROVE  EntryRight(m, o)'
<1> SUFFICES ASSUME m \notin dirty'
             PROVE  EntryRight(m, o)'
  BY DEF EntryRight
<1>1. EntryRight(m, o) /\ m \in DOMAIN shown
  BY DEF CtxInv, ScreenInv, Places, CtxTypes
<1> QED
  BY <1>1 DEF EntryRight, Agree, OnScreen

\* Overlap marks exactly the messages of handlers that a press overlaps with.
LEMMA OverlapFacts ==
  ASSUME CtxInv, NEW m \in Nat \ {0}
  PROVE  /\ dirty \subseteq Overlap(m)
         /\ \A x \in Handlers : About(x, m) =>
              m \in Overlap(m) /\ hd[x].new \in Overlap(m)
         /\ \A n \in Overlap(m) :
              n \in dirty \/ \E x \in Handlers :
                               About(x, m) /\ (n = m \/ n = hd[x].new)
<1>1. \A x \in Handlers : About(x, m) <=> x \in Overlapping(m)
  <2>1. \A x \in Handlers : About(x, m) => hd[x].pc # "idle"
    BY DEF CtxInv, CtxTypes, Stage, About
  <2> QED
    BY <2>1 DEF About, Overlapping
<1>2. Overlapping(m) \subseteq Handlers
  BY DEF Overlapping
<1>3. CASE Overlapping(m) = {}
  BY <1>1, <1>3 DEF Overlap
<1>4. CASE Overlapping(m) # {}
  BY <1>1, <1>2, <1>4 DEF Overlap
<1> QED
  BY <1>3, <1>4

-----------------------------------------------------------------------------
(* The steps.                                                              *)

\* A handler ends without having bound anything.
LEMMA EndStep ==
  ASSUME CtxInv, NEW h \in Handlers, Done(h),
         hd[h].msg # 0, hd[h].pc # "bind",
         UNCHANGED <<max_sessions, heap>>,
         dirty' = dirty \/ dirty' = dirty \cup {hd[h].msg},
         shown' \in Seq(Screens), Len(shown') = Len(shown),
         \A m \in DOMAIN shown : m # hd[h].msg => shown'[m] = shown[m],
         msg_ctx' \in Maps, OneEntryEach(msg_ctx'),
         Len(msg_ctx') <= max_sessions,
         \A m, o \in Nat : Entry(m, o)' => Entry(m, o),
         NEW k \in Nat, k = hd[h].msg,
         \A o \in Nat : Entry(k, o)' => EntryRight(k, o)'
  PROVE  CtxInv'
<1>1. /\ hd'[h] = Idle /\ hd' \in [Handlers -> HandlerRecords]
      /\ \A x \in Handlers : x # h => hd'[x] = hd[x]
      /\ \A x \in Handlers : Stage(hd'[x])
  BY HandlerChanges, IdleHandler DEF Done
<1>2. CtxTypes'
  BY <1>1 DEF CtxInv, CtxTypes
<1>3. Places'
  <2>1. \A x \in Handlers : /\ hd'[x].msg <= Len(shown)
                            /\ hd'[x].new <= Len(shown)
                            /\ hd'[x].obj <= Len(heap)
    <3>1. Len(shown) \in Nat /\ Len(heap) \in Nat
      BY DEF CtxInv, CtxTypes
    <3> QED
      BY <1>1, <3>1, IdleHandler DEF CtxInv, Places
  <2> QED
    BY <2>1 DEF CtxInv, Places
<1>4. /\ hd[h].new = 0 /\ hd[h].msg \in Nat
      /\ \A m \in Nat : About(h, m) <=> m = hd[h].msg
  BY DEF CtxInv, CtxTypes, HandlerRecords, Stage, About
<1>5. \A x \in Handlers : x # h =>
        /\ \A m \in Nat : About(x, m)' <=> About(x, m)
        /\ Clean(x)' => ~ About(x, hd[h].msg)
  <2>1. \A x \in Handlers, m \in Nat : x # h => (About(x, m)' <=> About(x, m))
    BY <1>1 DEF About
  <2> QED
    BY <1>4, <2>1 DEF CtxInv, Overlaps, Clean
<1>6. Overlaps' /\ Sharing'
  <2>1. ASSUME NEW x \in Handlers, hd'[x].msg # 0, hd'[x].new # 0,
               hd'[x].msg \in dirty'
        PROVE  hd'[x].new \in dirty'
    <3>1. x # h
      BY <1>1, <2>1, IdleHandler
    <3>2. hd'[x] = hd[x] /\ hd[x].msg \in Nat
      BY <1>1, <3>1 DEF CtxInv, CtxTypes, HandlerRecords
    <3>3. hd[x].msg \in dirty
      BY <1>4, <2>1, <3>1, <3>2 DEF CtxInv, Overlaps, About
    <3> QED
      BY <2>1, <3>2, <3>3 DEF CtxInv, Overlaps
  <2>2. dirty \subseteq dirty'
    OBVIOUS
  <2>3. \A x \in Handlers :
          \/ hd'[x].msg = 0 /\ hd'[x].new = 0 /\ hd'[x].obj = 0
          \/ /\ hd'[x].msg = hd[x].msg /\ hd'[x].obj = hd[x].obj
             /\ hd'[x].new = hd[x].new
    BY <1>1, IdleHandler
  <2> QED
    BY <2>1, <2>2, <2>3, NothingNew
<1>7. ASSUME NEW x \in Handlers
      PROVE  HandlerRight(x)'
  <2>1. CASE x = h
    BY <1>1, <2>1, IdleHandler DEF HandlerRight
  <2>2. CASE x # h
    <3>1. \A m \in Nat : About(x, m) => m \in DOMAIN shown
      BY DEF CtxInv, CtxTypes, Places, About
    <3>2. \A m \in Nat : Clean(x)' /\ About(x, m) =>
            m \in DOMAIN shown /\ shown'[m] = shown[m]
      BY <1>4, <1>5, <2>2, <3>1
    <3>3. hd'[x] = hd[x]
      BY <1>1, <2>2
    <3> QED
      BY <3>2, <3>3, HandlerStaysRight
  <2> QED
    BY <2>1, <2>2
<1>8. ASSUME NEW m \in Nat, NEW o \in Nat, Entry(m, o)'
      PROVE  EntryRight(m, o)'
  <2>1. CASE m # hd[h].msg
    <3>1. Entry(m, o) /\ m \in DOMAIN shown
      BY <1>8 DEF CtxInv, Places, CtxTypes
    <3>2. Moved(m) => Moved(m)'
      <4>1. ASSUME NEW x \in Handlers, hd[x].pc \in {"show", "bind"},
                   About(x, m)
            PROVE  Moved(m)'
        <5>1. x # h
          BY <1>4, <2>1, <4>1
        <5> QED
          BY <1>1, <1>5, <4>1, <5>1 DEF Moved
      <4> QED
        BY <4>1 DEF Moved
    <3> QED
      BY <2>1, <3>1, <3>2, EntryStaysRight
  <2> QED
    BY <1>4, <1>8, <2>1
<1> QED
  BY <1>2, <1>3, <1>6, <1>7, <1>8 DEF CtxInv, ScreenInv

\* A request that fails ends its handler.
LEMMA RequestFailsStep ==
  ASSUME CtxInv, NEW h \in Handlers, RequestFails(h),
         UNCHANGED max_sessions
  PROVE  CtxInv'
<1>1. /\ hd[h].pc \in {"fetch", "delete", "save"} /\ Done(h)
      /\ UNCHANGED <<shown, heap, msg_ctx, dirty>>
  BY DEF RequestFails
<1>2. hd[h].msg # 0 /\ hd[h].msg \in Nat
  BY <1>1 DEF CtxInv, CtxTypes, HandlerRecords, Stage
<1>3. \A m, o \in Nat : Entry(m, o)' => Entry(m, o)
  BY <1>1 DEF Entry
<1>4. \A m \in Nat : Moved(m) => Moved(m)'
  <2>1. /\ hd'[h] = Idle
        /\ \A x \in Handlers : x # h => hd'[x] = hd[x]
    BY <1>1, HandlerChanges, IdleHandler DEF Done
  <2> QED
    BY <1>1, <2>1 DEF Moved, About
<1>5. ASSUME NEW k \in Nat, NEW o \in Nat, Entry(k, o)'
      PROVE  EntryRight(k, o)'
  <2>1. Entry(k, o)
    BY <1>3, <1>5
  <2> QED
    BY <1>1, <1>4, <2>1, EntryStaysRight
<1>6. /\ shown' \in Seq(Screens) /\ Len(shown') = Len(shown)
      /\ msg_ctx' \in Maps /\ OneEntryEach(msg_ctx')
      /\ Len(msg_ctx') <= max_sessions
  BY <1>1 DEF CtxInv, CtxTypes
<1> QED
  BY <1>1, <1>2, <1>3, <1>5, <1>6, EndStep

\* An edit that fails ends its handler and marks the message.
LEMMA EditFailsStep ==
  ASSUME CtxInv, NEW h \in Handlers, EditFails(h),
         UNCHANGED max_sessions
  PROVE  CtxInv'
<1>1. PICK left \in {0, shown[hd[h].msg].comic} :
        shown' = [shown EXCEPT ![hd[h].msg].comic = left]
  BY DEF EditFails
<1>2. /\ hd[h].pc = "show" /\ Done(h) /\ UNCHANGED <<heap, msg_ctx>>
      /\ dirty' = dirty \cup {hd[h].msg}
  BY DEF EditFails
<1>3. hd[h].msg # 0 /\ hd[h].msg \in Nat /\ hd[h].msg <= Len(shown)
  BY <1>2 DEF CtxInv, CtxTypes, HandlerRecords, Stage, Places
<1>4. /\ shown' \in Seq(Screens) /\ Len(shown') = Len(shown)
      /\ \A m \in DOMAIN shown : m # hd[h].msg => shown'[m] = shown[m]
  <2>1. shown \in Seq(Screens) /\ hd[h].msg \in 1 .. Len(shown)
    BY <1>3 DEF CtxInv, CtxTypes
  <2>2. shown[hd[h].msg] \in Screens
    BY <2>1
  <2>3. [shown[hd[h].msg] EXCEPT !.comic = left] \in Screens
    BY <2>2 DEF Screens
  <2> QED
    BY <1>1, <2>1, <2>3
<1>5. \A m, o \in Nat : Entry(m, o)' => Entry(m, o)
  BY <1>2 DEF Entry
<1>6. \A k, o \in Nat : k = hd[h].msg => EntryRight(k, o)'
  <2>1. \A k \in Nat : k = hd[h].msg => k \in dirty'
    BY <1>2
  <2> QED
    BY <2>1 DEF EntryRight
<1>7. /\ msg_ctx' \in Maps /\ OneEntryEach(msg_ctx')
      /\ Len(msg_ctx') <= max_sessions
  BY <1>2 DEF CtxInv, CtxTypes
<1> QED
  BY <1>2, <1>3, <1>4, <1>5, <1>6, <1>7, EndStep

\* A save paints its mark under whatever the message shows by then.
LEMMA PaintedStep ==
  ASSUME CtxInv, NEW h \in Handlers, Saved(h), UNCHANGED max_sessions
  PROVE  CtxInv'
<1>1. /\ hd[h].pc = "save" /\ OnScreen(hd[h].msg) /\ Done(h)
      /\ shown' = [shown EXCEPT ![hd[h].msg].saved = hd[h].comic]
      /\ UNCHANGED <<heap, msg_ctx, dirty>>
  BY DEF Saved
<1>2. /\ hd[h].msg # 0 /\ hd[h].msg \in Nat /\ hd[h].comic \in Nat
      /\ hd[h].new = 0 /\ hd[h].msg <= Len(shown)
  BY <1>1 DEF CtxInv, CtxTypes, HandlerRecords, Stage, Places
<1>3. /\ shown' \in Seq(Screens) /\ Len(shown') = Len(shown)
      /\ \A m \in DOMAIN shown : m # hd[h].msg => shown'[m] = shown[m]
      /\ shown'[hd[h].msg] = [shown[hd[h].msg] EXCEPT !.saved = hd[h].comic]
      /\ shown'[hd[h].msg].saved = hd[h].comic
      /\ shown'[hd[h].msg].comic = shown[hd[h].msg].comic
  <2>1. shown \in Seq(Screens) /\ hd[h].msg \in 1 .. Len(shown)
    BY <1>2 DEF CtxInv, CtxTypes
  <2>2. shown[hd[h].msg] \in Screens
    BY <2>1
  <2>3. [shown[hd[h].msg] EXCEPT !.saved = hd[h].comic] \in Screens
    BY <1>2, <2>2 DEF Screens
  <2>4. /\ [shown[hd[h].msg] EXCEPT !.saved = hd[h].comic].saved = hd[h].comic
        /\ [shown[hd[h].msg] EXCEPT !.saved = hd[h].comic].comic =
             shown[hd[h].msg].comic
    BY <2>2 DEF Screens
  <2> QED
    BY <1>1, <2>1, <2>3, <2>4
<1>4. \A m, o \in Nat : Entry(m, o)' => Entry(m, o)
  BY <1>1 DEF Entry
<1>5. ASSUME NEW k \in Nat, k = hd[h].msg, NEW o \in Nat, Entry(k, o)'
      PROVE  EntryRight(k, o)'
  <2> SUFFICES ASSUME k \notin dirty'
               PROVE  EntryRight(k, o)'
    BY DEF EntryRight
  <2>1. Entry(k, o) /\ k \notin dirty
    BY <1>1, <1>4, <1>5
  <2>2. EntryRight(k, o)
    BY <2>1 DEF CtxInv, ScreenInv
  <2>3. \A x \in Handlers : About(x, k) => x = h
    BY <1>2, <1>5, <2>1 DEF CtxInv, Overlaps, About
  <2>4. ~ Moved(k)
    BY <1>1, <2>3 DEF Moved
  <2>5. Clean(h)
    BY <1>2, <1>5, <2>1 DEF Clean, About
  <2>6. hd[h].comic = shown[k].comic
    BY <1>1, <1>5, <2>5 DEF CtxInv, ScreenInv, HandlerRight
  <2>7. WellFormed(heap[o]) /\ heap[o].comic = shown[k].comic
    BY <1>1, <1>5, <2>1, <2>2, <2>4 DEF EntryRight, Agree
  <2> QED
    BY <1>1, <1>3, <1>5, <2>6, <2>7 DEF EntryRight, Agree
<1>6. /\ msg_ctx' \in Maps /\ OneEntryEach(msg_ctx')
      /\ Len(msg_ctx') <= max_sessions
  BY <1>1 DEF CtxInv, CtxTypes
<1> QED
  BY <1>1, <1>2, <1>3, <1>4, <1>5, <1>6, EndStep

\* A handler goes on with its message and its context.
LEMMA GoOnStep ==
  ASSUME CtxInv, NEW h \in Handlers, NEW q \in HandlerRecords, Stage(q),
         hd' = [hd EXCEPT ![h] = q],
         hd[h].new = 0, hd[h].msg # 0, hd[h].obj # 0,
         q.msg = hd[h].msg, q.obj = hd[h].obj,
         q.new = 0 \/ q.new = hd[h].msg,
         UNCHANGED <<max_sessions, msg_ctx, dirty>>,
         heap' \in Seq(Contexts), Len(heap') = Len(heap),
         \A o \in DOMAIN heap : o # hd[h].obj => heap'[o] = heap[o],
         shown' \in Seq(Screens), Len(shown') = Len(shown),
         \A m \in DOMAIN shown : m # hd[h].msg => shown'[m] = shown[m],
         HandlerRight(h)',
         NEW k \in Nat, k = hd[h].msg,
         \A o \in Nat : Entry(k, o) => EntryRight(k, o)'
  PROVE  CtxInv'
<1>1. /\ hd'[h] = q /\ hd' \in [Handlers -> HandlerRecords]
      /\ \A x \in Handlers : x # h => hd'[x] = hd[x]
      /\ \A x \in Handlers : Stage(hd'[x])
  BY HandlerChanges
<1>2. CtxTypes'
  BY <1>1 DEF CtxInv, CtxTypes
<1>3. \A m, o \in Nat : Entry(m, o)' <=> Entry(m, o)
  BY DEF Entry
<1>4. Places'
  <2>1. \A x \in Handlers : /\ hd'[x].msg <= Len(shown)
                            /\ hd'[x].new <= Len(shown)
                            /\ hd'[x].obj <= Len(heap)
    <3>1. Len(shown) \in Nat /\ Len(heap) \in Nat
      BY DEF CtxInv, CtxTypes
    <3> QED
      BY <1>1, <3>1 DEF CtxInv, Places
  <2> QED
    BY <1>3, <2>1 DEF CtxInv, Places
<1>5. \A m \in Nat : /\ About(h, m) <=> m = k
                     /\ About(h, m)' <=> m = k
  BY <1>1 DEF About
<1>6. \A x \in Handlers, m \in Nat : x # h => (About(x, m)' <=> About(x, m))
  BY <1>1 DEF About
<1>7. Overlaps' /\ Sharing'
  <2>1. \A x \in Handlers :
          \/ hd'[x].msg = 0 /\ hd'[x].new = 0 /\ hd'[x].obj = 0
          \/ /\ hd'[x].msg = hd[x].msg /\ hd'[x].obj = hd[x].obj
             /\ hd'[x].new = hd[x].new \/ hd'[x].new = hd[x].msg
    BY <1>1
  <2>2. \A x \in Handlers :
          hd'[x].msg # 0 /\ hd'[x].new # 0 /\ hd'[x].msg \in dirty' =>
            hd'[x].new \in dirty'
    BY <1>1 DEF CtxInv, Overlaps
  <2> QED
    BY <1>3, <2>1, <2>2, NothingNew
<1>8. ASSUME NEW x \in Handlers, x # h
      PROVE  HandlerRight(x)'
  <2>1. hd'[x] = hd[x]
    BY <1>1, <1>8
  <2>2. Clean(x)' => ~ About(x, k)
    BY <1>5, <1>6, <1>8 DEF CtxInv, Overlaps, Clean
  <2>3. \A m \in Nat : Clean(x)' /\ About(x, m) =>
          m \in DOMAIN shown /\ shown'[m] = shown[m]
    <3>1. \A m \in Nat : About(x, m) => m \in DOMAIN shown
      BY DEF CtxInv, CtxTypes, Places, About
    <3> QED
      BY <2>2, <3>1
  <2>4. Clean(x)' /\ hd[x].obj # 0 => heap'[hd[x].obj] = heap[hd[x].obj]
    <3> SUFFICES ASSUME Clean(x)', hd[x].obj # 0
                 PROVE  heap'[hd[x].obj] = heap[hd[x].obj]
      OBVIOUS
    <3>1. hd[x].obj \in DOMAIN heap
      BY ContextExists
    <3>2. \E m \in Nat : About(x, m)
      BY DEF CtxInv, CtxTypes, HandlerRecords, Stage, About
    <3>3. ~ AllDirty(x)
      BY <1>6, <1>8, <3>2 DEF Clean, AllDirty
    <3>4. hd[x].obj # hd[h].obj
      BY <1>8, <3>3 DEF CtxInv, Sharing
    <3> QED
      BY <3>1, <3>4
  <2> QED
    BY <2>1, <2>3, <2>4, HandlerStaysRight
<1>9. ASSUME NEW m \in Nat, NEW o \in Nat, Entry(m, o)
      PROVE  EntryRight(m, o)'
  <2>1. CASE m # k
    <3>1. m \in DOMAIN shown /\ o \in DOMAIN heap
      BY <1>9 DEF CtxInv, Places, CtxTypes
    <3>2. Moved(m) => Moved(m)'
      BY <1>1, <1>5, <1>6, <2>1 DEF Moved
    <3>3. m \notin dirty' => heap'[o] = heap[o]
      BY <1>9, <2>1, <3>1 DEF CtxInv, Sharing
    <3> QED
      BY <1>9, <2>1, <3>1, <3>2, <3>3, EntryStaysRight
  <2> QED
    BY <1>9, <2>1
<1> QED
  BY <1>2, <1>3, <1>4, <1>7, <1>8, <1>9 DEF CtxInv, ScreenInv

\* The list shrinks by the deleted comic, and the place in it is clipped.
LEMMA DeletedStep ==
  ASSUME CtxInv, NEW h \in Handlers, Deleted(h), UNCHANGED max_sessions
  PROVE  CtxInv'
<1> DEFINE c == heap[hd[h].obj]
           list == RemoveFirst(c.list, hd[h].comic)
           idx == IF c.idx <= Len(list) THEN c.idx ELSE Len(list)
<1>1. hd[h].pc = "delete" /\ UNCHANGED <<heap, dirty>>
  BY DEF Deleted
<1>2. /\ hd[h] \in HandlerRecords /\ hd[h].kind = "del"
      /\ hd[h].msg # 0 /\ hd[h].obj # 0 /\ hd[h].new = 0
      /\ hd[h].msg \in 1 .. Len(shown) /\ hd[h].obj \in 1 .. Len(heap)
  BY <1>1 DEF CtxInv, CtxTypes, HandlerRecords, Stage, Places
<1>3. c \in Contexts
  BY <1>2 DEF CtxInv, CtxTypes
<1>4. list \in Seq(Nat) /\ c.idx \in Nat \ {0}
  BY <1>3, RemoveFirstFacts DEF Contexts
<1>5. CASE list = << >>
  <2>1. /\ msg_ctx' = drop_ctx(msg_ctx, hd[h].msg) /\ Done(h)
        /\ \/ shown' = [shown EXCEPT ![hd[h].msg].comic = 0]
           \/ UNCHANGED shown
    BY <1>5 DEF Deleted
  <2>2. /\ shown' \in Seq(Screens) /\ Len(shown') = Len(shown)
        /\ \A m \in DOMAIN shown : m # hd[h].msg => shown'[m] = shown[m]
    <3>1. shown \in Seq(Screens)
      BY DEF CtxInv, CtxTypes
    <3>2. shown[hd[h].msg] \in Screens
      BY <1>2, <3>1
    <3>3. [shown[hd[h].msg] EXCEPT !.comic = 0] \in Screens
      BY <3>2 DEF Screens
    <3> QED
      BY <1>2, <2>1, <3>1, <3>3
  <2>3. /\ msg_ctx' \in Maps /\ OneEntryEach(msg_ctx')
        /\ Len(msg_ctx') <= Len(msg_ctx)
        /\ \A i \in DOMAIN msg_ctx' :
             /\ msg_ctx'[i][1] # hd[h].msg
             /\ \E j \in DOMAIN msg_ctx : msg_ctx'[i] = msg_ctx[j]
    BY <2>1, DropFacts DEF CtxInv, CtxTypes
  <2>4. Len(msg_ctx') <= max_sessions
    BY <2>3, MapDomain DEF CtxInv, CtxTypes
  <2>5. \A m, o \in Nat : Entry(m, o)' => Entry(m, o)
    BY <2>3 DEF Entry
  <2>6. ASSUME NEW k \in Nat, k = hd[h].msg, NEW o \in Nat
        PROVE  ~ Entry(k, o)'
    BY <2>3, <2>6 DEF Entry
  <2>7. hd[h].msg \in Nat
    BY <1>2
  <2> QED
    BY <1>1, <1>2, <2>1, <2>2, <2>3, <2>4, <2>5, <2>6, <2>7, EndStep
<1>6. CASE list # << >>
  <2> DEFINE q == [hd[h] EXCEPT !.pc = "fetch", !.list = list, !.idx = idx,
                                !.comic = list[idx]]
  <2>1. /\ hd' = [hd EXCEPT ![h].pc = "fetch", ![h].list = list,
                            ![h].idx = idx, ![h].comic = list[idx]]
        /\ UNCHANGED <<msg_ctx, shown>>
    BY <1>6 DEF Deleted
  <2>2. hd' = [hd EXCEPT ![h] = q]
    BY <2>1 DEF CtxInv, CtxTypes
  <2>3. Len(list) \in Nat /\ Len(list) # 0
    BY <1>4, <1>6
  <2>4. idx \in DOMAIN list /\ idx \in Nat \ {0} /\ list[idx] \in Nat
    BY <1>4, <2>3
  <2> HIDE DEF list, idx
  <2>5. /\ q \in HandlerRecords /\ q.pc = "fetch" /\ q.kind = "del"
        /\ q.msg = hd[h].msg /\ q.obj = hd[h].obj /\ q.new = hd[h].new
        /\ q.idx = idx /\ q.list = list /\ q.comic = list[idx]
    BY <1>2, <1>4, <2>4 DEF HandlerRecords
  <2> HIDE DEF q, c
  <2>6. Stage(q)
    BY <1>2, <2>4, <2>5 DEF Stage
  <2>7. /\ hd'[h] = q
        /\ \A x \in Handlers : x # h => hd'[x] = hd[x]
    BY <2>2, <2>5, <2>6, HandlerChanges
  <2>8. HandlerRight(h)'
    <3> SUFFICES ASSUME Clean(h)'
                 PROVE  HandlerRight(h)'
      BY DEF HandlerRight
    <3>1. Clean(h)
      BY <1>1, <2>5, <2>7 DEF Clean, About
    <3>2. WellFormed(heap[hd[h].obj])
      BY <1>2, <3>1 DEF CtxInv, ScreenInv, HandlerRight
    <3>3. WellFormed(heap'[hd'[h].obj])
      BY <1>1, <2>5, <2>7, <3>2
    <3> QED
      BY <2>4, <2>5, <2>7, <3>3 DEF HandlerRight
  <2>9. \A m \in Nat : Moved(m) => Moved(m)'
    BY <1>1, <2>7 DEF Moved, About
  <2>10. \A k, o \in Nat : Entry(k, o) => EntryRight(k, o)'
    BY <1>1, <2>1, <2>9, EntryStaysRight
  <2>11. /\ heap' \in Seq(Contexts) /\ shown' \in Seq(Screens)
         /\ UNCHANGED <<heap, shown, msg_ctx, dirty>>
         /\ hd[h].msg \in Nat
    BY <1>1, <1>2, <2>1 DEF CtxInv, CtxTypes
  <2> QED
    BY <1>2, <2>2, <2>5, <2>6, <2>8, <2>10, <2>11, GoOnStep
<1> QED
  BY <1>5, <1>6

\* The comic of a context that is kept has arrived.
LEMMA FetchedKnownStep ==
  ASSUME CtxInv, NEW h \in Handlers, UNCHANGED max_sessions, Fetched(h),
         hd[h].kind \in {"nav", "del"}
  PROVE  CtxInv'
<1> DEFINE r == hd[h]
           c == heap[r.obj]
           list == IF r.kind = "del" THEN r.list ELSE c.list
           d == [c EXCEPT !.idx = r.idx, !.comic = r.comic, !.list = list]
           q == [r EXCEPT !.pc = "show", !.idx = 0, !.list = << >>]
<1>1. r.pc = "fetch" /\ UNCHANGED <<shown, msg_ctx, dirty>>
  BY DEF Fetched
<1>2. /\ r \in HandlerRecords /\ r.msg # 0 /\ r.obj # 0 /\ r.new = 0
      /\ r.msg \in 1 .. Len(shown) /\ r.obj \in 1 .. Len(heap)
      /\ r.idx \in Nat \ {0}
  BY <1>1 DEF CtxInv, CtxTypes, HandlerRecords, Stage, Places
<1>3. /\ heap' = [heap EXCEPT ![r.obj].idx = r.idx, ![r.obj].comic = r.comic,
                              ![r.obj].list =
                                IF r.kind = "del" THEN r.list ELSE @]
      /\ hd' = [hd EXCEPT ![h].pc = "show", ![h].idx = 0, ![h].list = << >>]
  BY DEF Fetched
<1>4. hd' = [hd EXCEPT ![h] = q]
  BY <1>3 DEF CtxInv, CtxTypes
<1>5. heap \in Seq(Contexts) /\ c \in Contexts
  BY <1>2 DEF CtxInv, CtxTypes
<1>6. heap' = [heap EXCEPT ![r.obj] = d]
  BY <1>2, <1>3, <1>5
<1>7. /\ d \in Contexts /\ d.idx = r.idx /\ d.comic = r.comic
      /\ d.list = list
  BY <1>2, <1>5 DEF Contexts, HandlerRecords
<1>8. /\ q \in HandlerRecords /\ q.pc = "show" /\ q.comic = r.comic
      /\ q.msg = r.msg /\ q.obj = r.obj /\ q.new = r.new
  <2>1. << >> \in Seq(Nat) /\ 0 \in Nat
    OBVIOUS
  <2> HIDE DEF r
  <2> QED
    BY <1>2, <2>1 DEF HandlerRecords
<1> HIDE DEF d, q
<1>9. Stage(q)
  BY <1>2, <1>8 DEF Stage
<1>10. /\ hd'[h] = q
       /\ \A x \in Handlers : x # h => hd'[x] = hd[x]
  BY <1>4, <1>8, <1>9, HandlerChanges
<1>11. /\ heap' \in Seq(Contexts) /\ Len(heap') = Len(heap)
       /\ heap'[r.obj] = d
       /\ \A o \in DOMAIN heap : o # r.obj => heap'[o] = heap[o]
  BY <1>2, <1>5, <1>6, <1>7
<1>12. Clean(h) => WellFormed(d)
  BY <1>1, <1>7 DEF CtxInv, ScreenInv, HandlerRight, WellFormed
<1>13. Clean(h)' => Clean(h)
  BY <1>1, <1>8, <1>10 DEF Clean, About
<1>14. HandlerRight(h)'
  BY <1>7, <1>8, <1>10, <1>11, <1>12, <1>13 DEF HandlerRight
<1>15. ASSUME NEW k \in Nat, k = hd[h].msg, NEW o \in Nat, Entry(k, o)
       PROVE  EntryRight(k, o)'
  <2> SUFFICES ASSUME k \notin dirty'
               PROVE  EntryRight(k, o)'
    BY DEF EntryRight
  <2>1. k \notin dirty
    BY <1>1
  <2>2. Clean(h)
    BY <1>2, <1>15, <2>1 DEF Clean, About
  <2>3. Moved(k)'
    BY <1>2, <1>8, <1>10, <1>15 DEF Moved, About
  <2>4. WellFormed(heap[o]) /\ o \in DOMAIN heap
    BY <1>15, <2>1 DEF CtxInv, ScreenInv, EntryRight, Places, CtxTypes
  <2>5. WellFormed(heap'[o])
    BY <1>11, <1>12, <2>2, <2>4
  <2> QED
    BY <2>3, <2>5 DEF EntryRight
<1>16. shown' \in Seq(Screens) /\ hd[h].msg \in Nat
  BY <1>1, <1>2 DEF CtxInv, CtxTypes
<1> QED
  BY <1>1, <1>2, <1>4, <1>8, <1>9, <1>11, <1>14, <1>15, <1>16, GoOnStep

\* The message is edited.
LEMMA EditStep ==
  ASSUME CtxInv, NEW h \in Handlers, Edit(h), UNCHANGED max_sessions
  PROVE  CtxInv'
<1> DEFINE r == hd[h]
           d == Shows(h)
           q == [r EXCEPT !.pc = "bind", !.comic = 0, !.new = r.msg]
<1>1. /\ r.pc = "show" /\ UNCHANGED <<heap, msg_ctx, dirty>>
      /\ shown' = [shown EXCEPT ![r.msg] = d]
      /\ hd' = [hd EXCEPT ![h].pc = "bind", ![h].comic = 0, ![h].new = r.msg]
  BY DEF Edit
<1>2. /\ r \in HandlerRecords /\ r.msg # 0 /\ r.obj # 0 /\ r.new = 0
      /\ r.msg \in 1 .. Len(shown) /\ r.obj \in 1 .. Len(heap)
      /\ r.msg \in Nat
  BY <1>1 DEF CtxInv, CtxTypes, HandlerRecords, Stage, Places
<1>3. hd' = [hd EXCEPT ![h] = q]
  BY <1>1 DEF CtxInv, CtxTypes
<1>4. /\ q \in HandlerRecords /\ q.pc = "bind" /\ q.new = r.msg
      /\ q.msg = r.msg /\ q.obj = r.obj
  <2> HIDE DEF r
  <2> QED
    BY <1>2 DEF HandlerRecords
<1>5. /\ d \in Screens /\ d.comic = r.comic /\ d.saved = 0
  <2>1. heap[r.obj] \in Contexts /\ r.comic \in Nat
    BY <1>2 DEF CtxInv, CtxTypes, HandlerRecords
  <2> QED
    BY <2>1 DEF Shows, Screens, Contexts
<1> HIDE DEF d, q
<1>6. Stage(q)
  BY <1>2, <1>4 DEF Stage
<1>7. /\ hd'[h] = q
      /\ \A x \in Handlers : x # h => hd'[x] = hd[x]
  BY <1>3, <1>4, <1>6, HandlerChanges
<1>8. /\ shown' \in Seq(Screens) /\ Len(shown') = Len(shown)
      /\ shown'[r.msg] = d
      /\ \A m \in DOMAIN shown : m # r.msg => shown'[m] = shown[m]
  BY <1>1, <1>2, <1>5 DEF CtxInv, CtxTypes
<1>9. HandlerRight(h)'
  <2> SUFFICES ASSUME Clean(h)'
               PROVE  HandlerRight(h)'
    BY DEF HandlerRight
  <2>1. Clean(h)
    BY <1>1, <1>2, <1>4, <1>7 DEF Clean, About
  <2>2. WellFormed(heap[r.obj]) /\ heap[r.obj].comic = r.comic
    BY <1>1, <1>2, <2>1 DEF CtxInv, ScreenInv, HandlerRight
  <2> QED
    BY <1>1, <1>4, <1>5, <1>7, <1>8, <2>2 DEF HandlerRight, Agree
<1>10. ASSUME NEW k \in Nat, k = hd[h].msg, NEW o \in Nat, Entry(k, o)
       PROVE  EntryRight(k, o)'
  <2>1. Moved(k)'
    BY <1>2, <1>4, <1>7, <1>10 DEF Moved, About
  <2> QED
    BY <1>1, <1>10, <2>1, EntryStaysRight
<1>11. heap' \in Seq(Contexts)
  BY <1>1 DEF CtxInv, CtxTypes
<1> QED
  BY <1>1, <1>2, <1>3, <1>4, <1>6, <1>8, <1>9, <1>10, <1>11, GoOnStep

\* A handler gets a new context, a new message, or both.
LEMMA FreshStep ==
  ASSUME CtxInv, NEW h \in Handlers, NEW q \in HandlerRecords, Stage(q),
         hd' = [hd EXCEPT ![h] = q], q.pc \in {"show", "bind"},
         hd[h].new = 0, q.msg = hd[h].msg,
         q.new = 0 \/ (q.new = Len(shown) + 1 /\ q.new <= Len(shown')),
         \/ q.obj = hd[h].obj
         \/ q.obj = Len(heap) + 1 /\ q.obj <= Len(heap'),
         UNCHANGED <<max_sessions, msg_ctx>>,
         dirty \subseteq dirty', dirty' \subseteq dirty \cup {Len(shown) + 1},
         q.msg # 0 /\ q.new # 0 /\ q.msg \in dirty => q.new \in dirty',
         heap' \in Seq(Contexts), Len(heap) <= Len(heap'),
         \A o \in DOMAIN heap : heap'[o] = heap[o],
         shown' \in Seq(Screens), Len(shown) <= Len(shown'),
         \A m \in DOMAIN shown : m # hd[h].msg => shown'[m] = shown[m],
         HandlerRight(h)'
  PROVE  CtxInv'
<1>1. /\ hd'[h] = q /\ hd' \in [Handlers -> HandlerRecords]
      /\ \A x \in Handlers : x # h => hd'[x] = hd[x]
      /\ \A x \in Handlers : Stage(hd'[x])
  BY HandlerChanges
<1>2. CtxTypes'
  BY <1>1 DEF CtxInv, CtxTypes
<1>3. \A m, o \in Nat : Entry(m, o)' <=> Entry(m, o)
  BY DEF Entry
<1>4. /\ Len(shown) \in Nat /\ DOMAIN shown = 1 .. Len(shown)
      /\ Len(heap) \in Nat /\ DOMAIN heap = 1 .. Len(heap)
      /\ Len(shown') \in Nat /\ Len(heap') \in Nat
      /\ \A x \in Handlers :
           /\ hd[x].msg \in 0 .. Len(shown) /\ hd[x].new \in 0 .. Len(shown)
           /\ hd[x].obj \in 0 .. Len(heap)
  <2>1. /\ Len(shown) \in Nat /\ DOMAIN shown = 1 .. Len(shown)
        /\ Len(heap) \in Nat /\ DOMAIN heap = 1 .. Len(heap)
    BY DEF CtxInv, CtxTypes
  <2>2. Len(shown') \in Nat /\ Len(heap') \in Nat
    OBVIOUS
  <2>3. \A x \in Handlers : /\ hd[x].msg \in Nat
                            /\ hd[x].new \in Nat
                            /\ hd[x].obj \in Nat
    BY DEF CtxInv, CtxTypes, HandlerRecords
  <2>4. \A x \in Handlers : /\ hd[x].msg <= Len(shown)
                            /\ hd[x].new <= Len(shown)
                            /\ hd[x].obj <= Len(heap)
    BY DEF CtxInv, Places
  <2> QED
    BY <2>1, <2>2, <2>3, <2>4
<1>5. Places'
  <2>1. \A x \in Handlers : /\ hd'[x].msg <= Len(shown')
                            /\ hd'[x].new <= Len(shown')
                            /\ hd'[x].obj <= Len(heap')
    BY <1>1, <1>4
  <2>2. \A m, o \in Nat : Entry(m, o) =>
          m \in 1 .. Len(shown') /\ o \in 1 .. Len(heap')
    BY <1>4 DEF CtxInv, Places
  <2> QED
    BY <1>3, <2>1, <2>2 DEF Places
<1>6. /\ \A x \in Handlers, m \in Nat :
           x # h => (About(x, m)' <=> About(x, m))
      /\ \A m \in Nat : About(h, m)' <=>
           m # 0 /\ (m = hd[h].msg \/ m = q.new)
      /\ \A m \in Nat : About(h, m) <=> m # 0 /\ m = hd[h].msg
      /\ \A x \in Handlers, m \in Nat : About(x, m) => m \in DOMAIN shown
  BY <1>1, <1>4 DEF About
<1>7. \A x \in Handlers : AllDirty(x) /\ hd[x].obj # 0 => AllDirty(x)'
  <2>1. hd[h].obj # 0 => hd[h].msg # 0
    BY DEF CtxInv, CtxTypes, Stage
  <2>2. hd[h].msg \in Nat
    BY <1>4
  <2>3. AllDirty(h) /\ hd[h].obj # 0 => AllDirty(h)'
    BY <1>6, <2>1, <2>2 DEF AllDirty
  <2>4. \A x \in Handlers : x # h /\ AllDirty(x) => AllDirty(x)'
    BY <1>6 DEF AllDirty
  <2> QED
    BY <2>3, <2>4
<1>8. Overlaps'
  <2>1. ASSUME NEW x \in Handlers, NEW y \in Handlers, x # y, NEW m \in Nat,
               About(x, m)', About(y, m)'
        PROVE  m \in dirty'
    <3>1. m \in DOMAIN shown
      BY <1>6, <2>1
    <3>2. m # Len(shown) + 1
      BY <1>4, <3>1
    <3>3. About(x, m) /\ About(y, m)
      BY <1>6, <2>1, <3>2
    <3> QED
      BY <2>1, <3>3 DEF CtxInv, Overlaps
  <2>2. ASSUME NEW x \in Handlers, hd'[x].msg # 0, hd'[x].new # 0,
               hd'[x].msg \in dirty'
        PROVE  hd'[x].new \in dirty'
    <3>1. hd'[x].msg = hd[x].msg
      BY <1>1
    <3>2. hd[x].msg \in dirty
      BY <1>4, <2>2, <3>1
    <3> QED
      BY <1>1, <2>2, <3>1, <3>2 DEF CtxInv, Overlaps
  <2> QED
    BY <2>1, <2>2 DEF Overlaps
<1>9. Sharing'
  <2>1. \A m, n, o \in Nat :
          Entry(m, o)' /\ Entry(n, o)' /\ m # n => m \in dirty'
    BY <1>3 DEF CtxInv, Sharing
  <2>2. ASSUME NEW m \in Nat, NEW o \in Nat, NEW x \in Handlers,
               Entry(m, o)', hd'[x].obj = o
        PROVE  hd'[x].msg = m \/ (m \in dirty' /\ AllDirty(x)')
    <3>1. Entry(m, o) /\ o \in 1 .. Len(heap)
      BY <1>3, <2>2 DEF CtxInv, Places
    <3>2. hd[x].obj = o /\ hd'[x].msg = hd[x].msg
      BY <1>1, <1>4, <2>2, <3>1
    <3>3. o # 0
      BY <3>1
    <3> QED
      BY <1>7, <3>1, <3>2, <3>3 DEF CtxInv, Sharing
  <2>3. ASSUME NEW x \in Handlers, NEW y \in Handlers, x # y,
               hd'[x].obj = hd'[y].obj, hd'[x].obj # 0
        PROVE  AllDirty(x)'
    <3>1. hd[x].obj = hd[y].obj /\ hd[x].obj # 0
      BY <1>1, <1>4, <2>3
    <3> QED
      BY <1>7, <2>3, <3>1 DEF CtxInv, Sharing
  <2> QED
    BY <2>1, <2>2, <2>3 DEF Sharing
<1>10. ASSUME NEW x \in Handlers, x # h
       PROVE  HandlerRight(x)'
  <2>1. hd'[x] = hd[x]
    BY <1>1, <1>10
  <2>2. \A m \in Nat : Clean(x)' /\ About(x, m) => m # hd[h].msg
    BY <1>6, <1>10 DEF CtxInv, Overlaps, Clean
  <2>3. \A m \in Nat : Clean(x)' /\ About(x, m) =>
          m \in DOMAIN shown /\ shown'[m] = shown[m]
    BY <1>6, <2>2
  <2>4. hd[x].obj # 0 => heap'[hd[x].obj] = heap[hd[x].obj]
    BY <1>4
  <2> QED
    BY <2>1, <2>3, <2>4, HandlerStaysRight
<1>11. ASSUME NEW m \in Nat, NEW o \in Nat, Entry(m, o)
       PROVE  EntryRight(m, o)'
  <2>1. m \in DOMAIN shown /\ o \in DOMAIN heap
    BY <1>4, <1>11 DEF CtxInv, Places
  <2>2. heap'[o] = heap[o]
    BY <2>1
  <2>3. m # 0
    BY <1>4, <2>1
  <2>4. CASE m = hd[h].msg
    <3>1. Moved(m)'
      BY <1>1, <1>6, <2>3, <2>4 DEF Moved
    <3> QED
      BY <1>11, <2>2, <3>1, EntryStaysRight
  <2>5. CASE m # hd[h].msg
    <3>1. Moved(m) => Moved(m)'
      BY <1>1, <1>6, <2>5 DEF Moved
    <3> QED
      BY <1>11, <2>1, <2>2, <2>5, <3>1, EntryStaysRight
  <2> QED
    BY <2>4, <2>5
<1> QED
  BY <1>2, <1>3, <1>5, <1>8, <1>9, <1>10, <1>11 DEF CtxInv, ScreenInv

\* The comic of a fresh context has arrived.
LEMMA FetchedRandomStep ==
  ASSUME CtxInv, NEW h \in Handlers, UNCHANGED max_sessions, Fetched(h),
         hd[h].kind \notin {"nav", "del"}
  PROVE  CtxInv'
<1> DEFINE r == hd[h]
<1>1. /\ r.pc = "fetch" /\ r.kind = "random"
      /\ UNCHANGED <<shown, msg_ctx, dirty>>
  BY DEF Fetched
<1>2. PICK n \in 1 .. MaxComic :
        /\ heap' = Append(heap, Ctx("random", <<n>>, 1))
        /\ hd' = [hd EXCEPT ![h].pc = "show", ![h].comic = n,
                            ![h].obj = Len(heap) + 1]
  BY DEF Fetched
<1> DEFINE d == Ctx("random", <<n>>, 1)
           q == [r EXCEPT !.pc = "show", !.comic = n, !.obj = Len(heap) + 1]
<1>3. r \in HandlerRecords /\ r.msg # 0 /\ r.new = 0 /\ n \in Nat
  BY <1>1 DEF CtxInv, CtxTypes, HandlerRecords, Stage
<1>4. hd' = [hd EXCEPT ![h] = q]
  BY <1>2 DEF CtxInv, CtxTypes
<1>5. heap \in Seq(Contexts) /\ Len(heap) + 1 \in Nat \ {0}
  BY DEF CtxInv, CtxTypes
<1>6. /\ q \in HandlerRecords /\ q.pc = "show" /\ q.comic = n
      /\ q.msg = r.msg /\ q.new = r.new /\ q.obj = Len(heap) + 1
  <2> HIDE DEF r
  <2> QED
    BY <1>3, <1>5 DEF HandlerRecords
<1>7. d \in Contexts /\ WellFormed(d) /\ d.comic = n
  <2>1. <<n>> \in Seq(Nat) /\ 1 \in DOMAIN <<n>> /\ <<n>>[1] = n
    BY <1>3
  <2> QED
    BY <1>3, <2>1 DEF Ctx, Contexts, Modes, WellFormed
<1> HIDE DEF d, q
<1>8. Stage(q)
  BY <1>3, <1>5, <1>6 DEF Stage
<1>9. hd'[h] = q
  BY <1>4, <1>6, <1>8, HandlerChanges
<1>10. /\ heap' \in Seq(Contexts) /\ Len(heap') = Len(heap) + 1
       /\ \A o \in DOMAIN heap : heap'[o] = heap[o]
       /\ heap'[Len(heap) + 1] = d
  BY <1>2, <1>5, <1>7 DEF d
<1>11. HandlerRight(h)'
  BY <1>6, <1>7, <1>9, <1>10 DEF HandlerRight
<1>12. shown' \in Seq(Screens) /\ Len(shown) <= Len(shown')
       /\ Len(heap) <= Len(heap') /\ q.obj <= Len(heap')
  BY <1>1, <1>5, <1>6, <1>10 DEF CtxInv, CtxTypes
<1> QED
  BY <1>1, <1>3, <1>4, <1>6, <1>8, <1>10, <1>11, <1>12, FreshStep

\* A command sends a new message with a new context.
LEMMA CommandStep ==
  ASSUME CtxInv, NEW h \in Handlers, Command(h), UNCHANGED max_sessions
  PROVE  CtxInv'
<1> DEFINE q == [Idle EXCEPT !.pc = "bind", !.kind = "command",
                               !.new = Len(shown) + 1, !.obj = Len(heap) + 1]
<1>1. hd[h].pc = "idle" /\ UNCHANGED <<msg_ctx, dirty>>
  BY DEF Command
<1>2. PICK mode \in Modes, n \in 1 .. MaxComic :
        \E start \in IF mode = "all" THEN 1 .. n ELSE {1} :
          LET ctx == IF mode = "random" THEN Ctx(mode, <<n>>, 1)
                     ELSE Ctx(mode, [i \in 1 .. n |-> i], start)
          IN  /\ heap' = Append(heap, ctx)
              /\ shown' = Append(shown, [mode |-> mode, comic |-> ctx.comic,
                                         saved |-> 0])
              /\ hd' = [hd EXCEPT ![h] = q]
  BY DEF Command
<1>3. n \in Nat \ {0}
  OBVIOUS
<1>4. PICK start \in 1 .. n :
          LET ctx == IF mode = "random" THEN Ctx(mode, <<n>>, 1)
                     ELSE Ctx(mode, [i \in 1 .. n |-> i], start)
          IN  /\ heap' = Append(heap, ctx)
              /\ shown' = Append(shown, [mode |-> mode, comic |-> ctx.comic,
                                         saved |-> 0])
              /\ hd' = [hd EXCEPT ![h] = q]
  <2>1. (IF mode = "all" THEN 1 .. n ELSE {1}) \subseteq 1 .. n
    BY <1>3
  <2> QED
    BY <1>2, <2>1
<1> DEFINE d == IF mode = "random" THEN Ctx(mode, <<n>>, 1)
                ELSE Ctx(mode, [i \in 1 .. n |-> i], start)
           p == [mode |-> mode, comic |-> d.comic, saved |-> 0]
<1>5. /\ heap' = Append(heap, d) /\ shown' = Append(shown, p)
      /\ hd' = [hd EXCEPT ![h] = q]
  BY <1>4
<1>6. d \in Contexts /\ WellFormed(d)
  <2>1. /\ <<n>> \in Seq(Nat) /\ 1 \in DOMAIN <<n>> /\ <<n>>[1] = n
        /\ [i \in 1 .. n |-> i] \in Seq(Nat)
        /\ start \in Nat \ {0} /\ start \in DOMAIN [i \in 1 .. n |-> i]
        /\ [i \in 1 .. n |-> i][start] = start
    BY <1>3
  <2> QED
    BY <1>3, <2>1 DEF Ctx, Contexts, WellFormed
<1> HIDE DEF d
<1>7. p \in Screens /\ p.comic = d.comic /\ p.saved = 0
  BY <1>6 DEF Screens, Contexts
<1>8. /\ shown \in Seq(Screens) /\ Len(shown) + 1 \in Nat \ {0}
      /\ heap \in Seq(Contexts) /\ Len(heap) + 1 \in Nat \ {0}
  BY DEF CtxInv, CtxTypes
<1>9. /\ q \in HandlerRecords /\ q.pc = "bind" /\ q.msg = 0
      /\ q.new = Len(shown) + 1 /\ q.obj = Len(heap) + 1
  <2>1. << >> \in Seq(Nat)
    OBVIOUS
  <2> QED
    BY <1>8, <2>1 DEF HandlerRecords, Idle
<1> HIDE DEF p, q
<1>10. Stage(q)
  BY <1>8, <1>9 DEF Stage
<1>11. hd'[h] = q
  BY <1>5, <1>9, <1>10, HandlerChanges
<1>12. /\ heap' \in Seq(Contexts) /\ Len(heap') = Len(heap) + 1
       /\ \A o \in DOMAIN heap : heap'[o] = heap[o]
       /\ heap'[Len(heap) + 1] = d
  BY <1>5, <1>6, <1>8
<1>13. /\ shown' \in Seq(Screens) /\ Len(shown') = Len(shown) + 1
       /\ \A m \in DOMAIN shown : shown'[m] = shown[m]
       /\ shown'[Len(shown) + 1] = p
  BY <1>5, <1>7, <1>8
<1>14. HandlerRight(h)'
  BY <1>6, <1>7, <1>9, <1>11, <1>12, <1>13 DEF HandlerRight, Agree
<1>15. hd[h].new = 0 /\ hd[h].msg = 0
  BY <1>1 DEF CtxInv, CtxTypes, Stage
<1>16. /\ Len(shown) <= Len(shown') /\ q.new <= Len(shown')
       /\ Len(heap) <= Len(heap') /\ q.obj <= Len(heap')
  BY <1>8, <1>9, <1>12, <1>13
<1> QED
  BY <1>1, <1>5, <1>9, <1>10, <1>12, <1>13, <1>14, <1>15, <1>16, FreshStep

\* A new message takes the place of the one that could not be edited.
LEMMA ReplaceStep ==
  ASSUME CtxInv, NEW h \in Handlers, Replace(h), UNCHANGED max_sessions
  PROVE  CtxInv'
<1> DEFINE r == hd[h]
           p == Shows(h)
           q == [r EXCEPT !.pc = "bind", !.comic = 0, !.new = Len(shown) + 1]
<1>1. /\ r.pc = "show" /\ UNCHANGED <<heap, msg_ctx>>
      /\ hd' = [hd EXCEPT ![h].pc = "bind", ![h].comic = 0,
                          ![h].new = Len(shown) + 1]
      /\ dirty' = IF r.msg \in dirty THEN dirty \cup {Len(shown) + 1}
                  ELSE dirty
  BY DEF Replace
<1>2. PICK left \in {0, shown[r.msg].comic} :
        shown' = Append([shown EXCEPT ![r.msg].comic = left], p)
  BY DEF Replace
<1>3. /\ r \in HandlerRecords /\ r.msg # 0 /\ r.obj # 0 /\ r.new = 0
      /\ r.msg \in 1 .. Len(shown) /\ r.obj \in 1 .. Len(heap)
  BY <1>1 DEF CtxInv, CtxTypes, HandlerRecords, Stage, Places
<1>4. hd' = [hd EXCEPT ![h] = q]
  BY <1>1 DEF CtxInv, CtxTypes
<1>5. shown \in Seq(Screens) /\ Len(shown) + 1 \in Nat \ {0}
  BY DEF CtxInv, CtxTypes
<1>6. /\ q \in HandlerRecords /\ q.pc = "bind" /\ q.new = Len(shown) + 1
      /\ q.msg = r.msg /\ q.obj = r.obj
  <2> HIDE DEF r
  <2> QED
    BY <1>3, <1>5 DEF HandlerRecords
<1>7. p \in Screens /\ p.comic = r.comic /\ p.saved = 0
  <2>1. heap[r.obj] \in Contexts /\ r.comic \in Nat
    BY <1>3 DEF CtxInv, CtxTypes, HandlerRecords
  <2> QED
    BY <2>1 DEF Shows, Screens, Contexts
<1> HIDE DEF p, q
<1>8. Stage(q)
  BY <1>3, <1>5, <1>6 DEF Stage
<1>9. hd'[h] = q
  BY <1>4, <1>6, <1>8, HandlerChanges
<1>10. /\ shown' \in Seq(Screens) /\ Len(shown') = Len(shown) + 1
       /\ \A m \in DOMAIN shown : m # r.msg => shown'[m] = shown[m]
       /\ shown'[Len(shown) + 1] = p
  <2> DEFINE e == [shown EXCEPT ![r.msg].comic = left]
  <2>1. shown[r.msg] \in Screens
    BY <1>3, <1>5
  <2>2. [shown[r.msg] EXCEPT !.comic = left] \in Screens
    BY <2>1 DEF Screens
  <2>3. /\ e \in Seq(Screens) /\ Len(e) = Len(shown)
        /\ \A m \in DOMAIN shown : m # r.msg => e[m] = shown[m]
    BY <1>3, <1>5, <2>2
  <2> HIDE DEF e
  <2>4. DOMAIN shown = 1 .. Len(e)
    BY <1>5, <2>3
  <2>5. shown' = Append(e, p)
    BY <1>2 DEF e
  <2> QED
    BY <1>5, <1>7, <2>3, <2>4, <2>5
<1>11. HandlerRight(h)'
  <2> SUFFICES ASSUME Clean(h)'
               PROVE  HandlerRight(h)'
    BY DEF HandlerRight
  <2>1. Clean(h)
    BY <1>1, <1>3, <1>6, <1>9 DEF Clean, About
  <2>2. WellFormed(heap[r.obj]) /\ heap[r.obj].comic = r.comic
    BY <1>1, <1>3, <2>1 DEF CtxInv, ScreenInv, HandlerRight
  <2> QED
    BY <1>1, <1>6, <1>7, <1>9, <1>10, <2>2 DEF HandlerRight, Agree
<1>12. /\ heap' \in Seq(Contexts) /\ Len(heap) <= Len(heap')
       /\ Len(shown) <= Len(shown') /\ q.new <= Len(shown')
       /\ dirty \subseteq dirty' /\ dirty' \subseteq dirty \cup {Len(shown) + 1}
       /\ q.msg \in dirty => q.new \in dirty'
  BY <1>1, <1>5, <1>6, <1>10 DEF CtxInv, CtxTypes
<1> QED
  BY <1>1, <1>3, <1>4, <1>6, <1>8, <1>10, <1>11, <1>12, FreshStep

\* A button is pressed: if the message or its context is somebody's already,
\* they are all dirty from now on.
LEMMA PressStep ==
  ASSUME CtxInv, NEW h \in Handlers, NEW m \in DOMAIN shown,
         NEW q \in HandlerRecords, Stage(q), hd' = [hd EXCEPT ![h] = q],
         hd[h].pc = "idle", q.msg = m, q.new = 0,
         q.obj = 0 \/ Entry(m, q.obj), dirty' = Overlap(m),
         UNCHANGED <<max_sessions, shown, msg_ctx>>,
         heap' \in Seq(Contexts), Len(heap') = Len(heap),
         \A o \in DOMAIN heap : o # q.obj => heap'[o] = heap[o],
         HandlerRight(h)',
         \A o \in Nat : Entry(m, o) => EntryRight(m, o)'
  PROVE  CtxInv'
<1>1. /\ hd'[h] = q /\ hd' \in [Handlers -> HandlerRecords]
      /\ \A x \in Handlers : x # h => hd'[x] = hd[x]
      /\ \A x \in Handlers : Stage(hd'[x])
  BY HandlerChanges
<1>2. CtxTypes'
  BY <1>1 DEF CtxInv, CtxTypes
<1>3. \A n, o \in Nat : Entry(n, o)' <=> Entry(n, o)
  BY DEF Entry
<1>4. /\ m \in Nat \ {0} /\ m <= Len(shown) /\ q.obj \in Nat
      /\ Len(shown) \in Nat /\ Len(heap) \in Nat
      /\ \A x \in Handlers : /\ hd[x].msg \in Nat /\ hd[x].new \in Nat
                             /\ hd[x].obj \in 0 .. Len(heap)
  <2>1. /\ Len(shown) \in Nat /\ DOMAIN shown = 1 .. Len(shown)
        /\ Len(heap) \in Nat
    BY DEF CtxInv, CtxTypes
  <2>2. q.obj \in Nat
    BY DEF HandlerRecords
  <2>3. \A x \in Handlers : /\ hd[x].msg \in Nat
                            /\ hd[x].new \in Nat
                            /\ hd[x].obj \in Nat
    BY DEF CtxInv, CtxTypes, HandlerRecords
  <2>4. \A x \in Handlers : hd[x].obj <= Len(heap)
    BY DEF CtxInv, Places
  <2> QED
    BY <2>1, <2>2, <2>3, <2>4
<1>5. Places'
  <2>1. q.obj <= Len(heap)
    BY <1>4 DEF CtxInv, Places
  <2>2. \A x \in Handlers : /\ hd'[x].msg <= Len(shown)
                            /\ hd'[x].new <= Len(shown)
                            /\ hd'[x].obj <= Len(heap)
    BY <1>1, <1>4, <2>1 DEF CtxInv, Places
  <2> QED
    BY <1>3, <2>2 DEF CtxInv, Places
<1>6. /\ dirty \subseteq dirty'
      /\ \A x \in Handlers : About(x, m) => m \in dirty' /\ hd[x].new \in dirty'
      /\ \A n \in dirty' :
           n \in dirty \/ \E x \in Handlers :
                            About(x, m) /\ (n = m \/ n = hd[x].new)
  BY <1>4, OverlapFacts
<1>7. /\ \A x \in Handlers, n \in Nat :
           x # h => (About(x, n)' <=> About(x, n))
      /\ \A n \in Nat : About(h, n)' <=> n = m
      /\ \A n \in Nat : ~ About(h, n)
  <2>1. hd[h].msg = 0 /\ hd[h].new = 0
    BY DEF CtxInv, CtxTypes, Stage
  <2> QED
    BY <1>1, <1>4, <2>1 DEF About
<1>8. /\ \A x \in Handlers : x # h /\ AllDirty(x) => AllDirty(x)'
      /\ m \in dirty' => AllDirty(h)'
      /\ \A x \in Handlers : x # h /\ hd[x].msg = m => AllDirty(x)'
  <2>1. ASSUME NEW x \in Handlers, x # h, hd[x].msg = m
        PROVE  AllDirty(x)'
    <3>1. About(x, m)
      BY <1>4, <2>1 DEF About
    <3>2. m \in dirty' /\ hd[x].new \in dirty'
      BY <1>6, <3>1
    <3> QED
      BY <1>7, <2>1, <3>2 DEF AllDirty, About
  <2> QED
    BY <1>6, <1>7, <2>1 DEF AllDirty
<1>9. Overlaps'
  <2>1. ASSUME NEW x \in Handlers, NEW y \in Handlers, x # y, NEW n \in Nat,
               About(x, n)', About(y, n)'
        PROVE  n \in dirty'
    <3>1. CASE x # h /\ y # h
      BY <1>6, <1>7, <2>1, <3>1 DEF CtxInv, Overlaps
    <3>2. CASE x = h \/ y = h
      BY <1>6, <1>7, <2>1, <3>2
    <3> QED
      BY <3>1, <3>2
  <2>2. ASSUME NEW x \in Handlers, hd'[x].msg # 0, hd'[x].new # 0,
               hd'[x].msg \in dirty'
        PROVE  hd'[x].new \in dirty'
    <3>1. x # h /\ hd'[x] = hd[x]
      BY <1>1, <2>2
    <3>2. CASE hd[x].msg \in dirty
      BY <1>6, <2>2, <3>1, <3>2 DEF CtxInv, Overlaps
    <3>3. CASE hd[x].msg = m
      BY <1>4, <1>6, <3>1, <3>3 DEF About
    <3>4. ASSUME NEW y \in Handlers, About(y, m), hd[x].msg = hd[y].new
          PROVE  hd'[x].new \in dirty'
      <4>1. CASE x = y
        BY <1>6, <3>1, <3>4, <4>1
      <4>2. CASE x # y
        <5>1. hd[x].msg \in dirty
          BY <1>4, <2>2, <3>1, <3>4, <4>2 DEF CtxInv, Overlaps, About
        <5> QED
          BY <3>2, <5>1
      <4> QED
        BY <4>1, <4>2
    <3> QED
      BY <1>6, <2>2, <3>1, <3>2, <3>3, <3>4
  <2> QED
    BY <2>1, <2>2 DEF Overlaps
<1>10. Sharing'
  <2>1. \A n, k, o \in Nat :
          Entry(n, o)' /\ Entry(k, o)' /\ n # k => n \in dirty'
    BY <1>3, <1>6 DEF CtxInv, Sharing
  <2>2. ASSUME NEW n \in Nat, NEW o \in Nat, NEW x \in Handlers,
               Entry(n, o), hd'[x].obj = o
        PROVE  hd'[x].msg = n \/ (n \in dirty' /\ AllDirty(x)')
    <3>1. CASE x # h
      BY <1>1, <1>6, <1>8, <2>2, <3>1 DEF CtxInv, Sharing
    <3>2. CASE x = h /\ n # m
      <4>1. o # 0
        BY <2>2 DEF CtxInv, Places
      <4>2. Entry(m, o)
        BY <1>1, <2>2, <3>2, <4>1
      <4>3. n \in dirty /\ m \in dirty
        BY <1>4, <2>2, <3>2, <4>2 DEF CtxInv, Sharing
      <4> QED
        BY <1>6, <1>8, <3>2, <4>3
    <3>3. CASE x = h /\ n = m
      BY <1>1, <3>3
    <3> QED
      BY <3>1, <3>2, <3>3
  <2>3. ASSUME NEW x \in Handlers, x # h, hd[x].obj = q.obj, q.obj # 0
        PROVE  AllDirty(x)' /\ AllDirty(h)'
    <3>1. Entry(m, q.obj)
      BY <2>3
    <3>2. hd[x].msg = m \/ (m \in dirty /\ AllDirty(x))
      BY <1>4, <2>3, <3>1 DEF CtxInv, Sharing
    <3>3. CASE hd[x].msg = m
      <4>1. m \in dirty'
        BY <1>4, <1>6, <3>3 DEF About
      <4> QED
        BY <1>8, <2>3, <3>3, <4>1
    <3>4. CASE m \in dirty /\ AllDirty(x)
      BY <1>6, <1>8, <2>3, <3>4
    <3> QED
      BY <3>2, <3>3, <3>4
  <2>4. ASSUME NEW x \in Handlers, NEW y \in Handlers, x # y,
               hd'[x].obj = hd'[y].obj, hd'[x].obj # 0
        PROVE  AllDirty(x)'
    <3>1. CASE x # h /\ y # h
      BY <1>1, <1>8, <2>4, <3>1 DEF CtxInv, Sharing
    <3>2. CASE x = h \/ y = h
      BY <1>1, <2>3, <2>4, <3>2
    <3> QED
      BY <3>1, <3>2
  <2> QED
    BY <1>3, <2>1, <2>2, <2>4 DEF Sharing
<1>11. ASSUME NEW x \in Handlers, x # h
       PROVE  HandlerRight(x)'
  <2>1. hd'[x] = hd[x]
    BY <1>1, <1>11
  <2>2. \A n \in Nat : Clean(x)' /\ About(x, n) =>
          n \in DOMAIN shown /\ shown'[n] = shown[n]
    BY DEF CtxInv, CtxTypes, Places, About
  <2>3. ASSUME Clean(x)', hd[x].obj # 0
        PROVE  heap'[hd[x].obj] = heap[hd[x].obj]
    <3>1. \E n \in Nat : About(x, n)
      BY <2>3 DEF CtxInv, CtxTypes, HandlerRecords, Stage, About
    <3>2. ~ AllDirty(x)'
      BY <1>7, <1>11, <2>3, <3>1 DEF Clean, AllDirty
    <3>3. hd[x].obj # q.obj
      <4> SUFFICES ASSUME hd[x].obj = q.obj
                   PROVE  FALSE
        OBVIOUS
      <4>1. hd[x].msg = m \/ AllDirty(x)
        BY <1>4, <2>3 DEF CtxInv, Sharing
      <4> QED
        BY <1>8, <1>11, <3>2, <4>1
    <3>4. hd[x].obj \in DOMAIN heap
      BY <1>4, <2>3 DEF CtxInv, CtxTypes
    <3> QED
      BY <3>3, <3>4
  <2> QED
    BY <1>6, <2>1, <2>2, <2>3, HandlerStaysRight
<1>12. ASSUME NEW n \in Nat, NEW o \in Nat, Entry(n, o)
       PROVE  EntryRight(n, o)'
  <2>1. CASE n # m
    <3>1. o \in DOMAIN heap
      BY <1>12 DEF CtxInv, Places, CtxTypes
    <3>2. Moved(n) => Moved(n)'
      BY <1>1, <1>7 DEF Moved
    <3>3. n \notin dirty' => heap'[o] = heap[o]
      <4>1. CASE o = q.obj
        <5>1. o # 0
          BY <1>12 DEF CtxInv, Places
        <5>2. n \in dirty
          BY <1>4, <1>12, <2>1, <4>1, <5>1 DEF CtxInv, Sharing
        <5> QED
          BY <1>6, <5>2
      <4>2. CASE o # q.obj
        BY <3>1, <4>2
      <4> QED
        BY <4>1, <4>2
    <3> QED
      BY <1>6, <1>12, <3>2, <3>3, EntryStaysRight
  <2> QED
    BY <1>12, <2>1
<1> QED
  BY <1>2, <1>3, <1>5, <1>9, <1>10, <1>11, <1>12 DEF CtxInv, ScreenInv

\* Under a message nobody is busy with the context is right.
LEMMA CleanStart ==
  ASSUME CtxInv, NEW m \in Nat \ {0}, NEW o \in Nat, Entry(m, o),
         m \notin Overlap(m)
  PROVE  WellFormed(heap[o]) /\ (OnScreen(m) => Agree(m, o))
<1>1. m \notin dirty /\ ~ Moved(m)
  BY OverlapFacts DEF Moved
<1> QED
  BY <1>1 DEF CtxInv, ScreenInv, EntryRight

\* The buttons that do not touch the context before their first wait.
LEMMA WaitingStart ==
  ASSUME CtxInv, NEW h \in Handlers, NEW m \in DOMAIN shown,
         NEW q \in HandlerRecords, Stage(q), hd' = [hd EXCEPT ![h] = q],
         hd[h].pc = "idle", q.msg = m, q.new = 0,
         q.obj = 0 \/ Entry(m, q.obj), dirty' = Overlap(m),
         UNCHANGED <<max_sessions, shown, msg_ctx, heap>>,
         q.pc \in {"fetch", "delete", "save"}, q.kind # "del" \/ q.pc # "fetch",
         m \notin dirty' =>
           /\ q.pc = "fetch" /\ q.kind = "nav" =>
                /\ q.idx \in DOMAIN heap[q.obj].list
                /\ heap[q.obj].list[q.idx] = q.comic
           /\ q.pc = "save" /\ OnScreen(m) => q.comic = shown[m].comic
  PROVE  CtxInv'
<1>1. /\ hd'[h] = q
      /\ \A x \in Handlers : x # h => hd'[x] = hd[x]
  BY HandlerChanges
<1>2. m \in Nat \ {0} /\ q.obj \in Nat
  BY DEF CtxInv, CtxTypes, HandlerRecords
<1>3. dirty \subseteq dirty'
  BY <1>2, OverlapFacts
<1>4. \A o \in Nat : Entry(m, o) => EntryRight(m, o)'
  <2>1. Moved(m) => Moved(m)'
    BY <1>1 DEF Moved, About
  <2> QED
    BY <1>2, <1>3, <2>1, EntryStaysRight
<1>5. HandlerRight(h)'
  <2> SUFFICES ASSUME Clean(h)'
               PROVE  HandlerRight(h)'
    BY DEF HandlerRight
  <2>1. m \notin dirty'
    BY <1>1, <1>2 DEF Clean, About
  <2>2. q.obj # 0 => WellFormed(heap[q.obj])
    BY <1>2, <2>1, CleanStart
  <2> QED
    BY <1>1, <2>1, <2>2 DEF HandlerRight, OnScreen
<1>6. heap' \in Seq(Contexts)
  BY DEF CtxInv, CtxTypes
<1> QED
  BY <1>4, <1>5, <1>6, PressStep

\* A press of save.
LEMMA SaveStartStep ==
  ASSUME CtxInv, NEW h \in Handlers, NEW m \in DOMAIN shown,
         SaveStart(h, m), UNCHANGED max_sessions
  PROVE  CtxInv'
<1> DEFINE o == get_ctx(m)
           q == [Idle EXCEPT !.pc = "save", !.kind = "save",
                               !.msg = m, !.comic = heap[o].comic]
<1>1. /\ hd[h].pc = "idle" /\ OnScreen(m) /\ Bound(m)
      /\ hd' = [hd EXCEPT ![h] = q] /\ dirty' = Overlap(m)
      /\ UNCHANGED <<shown, heap, msg_ctx>>
  BY DEF SaveStart
<1>2. m \in Nat \ {0}
  BY DEF CtxInv, CtxTypes
<1>3. o \in Nat /\ Entry(m, o)
  BY <1>1, <1>2, BoundEntry
<1> HIDE DEF o
<1>4. heap[o].comic \in Nat
  BY <1>2, <1>3, EntryContext
<1>5. /\ q \in HandlerRecords /\ q.pc = "save" /\ q.kind = "save"
      /\ q.msg = m /\ q.new = 0 /\ q.obj = 0 /\ q.comic = heap[o].comic
  <2>1. << >> \in Seq(Nat)
    OBVIOUS
  <2> QED
    BY <1>2, <1>4, <2>1 DEF HandlerRecords, Idle
<1> HIDE DEF q
<1>6. Stage(q)
  BY <1>2, <1>5 DEF Stage
<1>7. m \notin dirty' => q.comic = shown[m].comic
  BY <1>1, <1>2, <1>3, <1>5, CleanStart DEF Agree
<1> QED
  BY <1>1, <1>5, <1>6, <1>7, WaitingStart

\* A press of delete.
LEMMA DeleteStartStep ==
  ASSUME CtxInv, NEW h \in Handlers, NEW m \in DOMAIN shown,
         DeleteStart(h, m), UNCHANGED max_sessions
  PROVE  CtxInv'
<1> DEFINE o == get_ctx(m)
           q == [Idle EXCEPT !.pc = "delete", !.kind = "del", !.msg = m,
                               !.obj = o, !.comic = heap[o].comic]
<1>1. /\ hd[h].pc = "idle" /\ Bound(m)
      /\ hd' = [hd EXCEPT ![h] = q] /\ dirty' = Overlap(m)
      /\ UNCHANGED <<shown, heap, msg_ctx>>
  BY DEF DeleteStart
<1>2. m \in Nat \ {0}
  BY DEF CtxInv, CtxTypes
<1>3. o \in Nat /\ Entry(m, o)
  BY <1>1, <1>2, BoundEntry
<1> HIDE DEF o
<1>4. heap[o].comic \in Nat /\ o # 0
  BY <1>2, <1>3, EntryContext
<1>5. /\ q \in HandlerRecords /\ q.pc = "delete" /\ q.kind = "del"
      /\ q.msg = m /\ q.new = 0 /\ q.obj = o
  <2>1. << >> \in Seq(Nat)
    OBVIOUS
  <2> QED
    BY <1>2, <1>3, <1>4, <2>1 DEF HandlerRecords, Idle
<1> HIDE DEF q
<1>6. Stage(q)
  BY <1>2, <1>4, <1>5 DEF Stage
<1> QED
  BY <1>1, <1>3, <1>5, <1>6, WaitingStart

\* A press of random.
LEMMA RandomStartStep ==
  ASSUME CtxInv, NEW h \in Handlers, NEW m \in DOMAIN shown,
         RandomStart(h, m), UNCHANGED max_sessions
  PROVE  CtxInv'
<1> DEFINE q == [Idle EXCEPT !.pc = "fetch", !.kind = "random", !.msg = m]
<1>1. /\ hd[h].pc = "idle"
      /\ hd' = [hd EXCEPT ![h] = q] /\ dirty' = Overlap(m)
      /\ UNCHANGED <<shown, heap, msg_ctx>>
  BY DEF RandomStart
<1>2. m \in Nat \ {0}
  BY DEF CtxInv, CtxTypes
<1>3. /\ q \in HandlerRecords /\ q.pc = "fetch" /\ q.kind = "random"
      /\ q.msg = m /\ q.new = 0 /\ q.obj = 0
  <2>1. << >> \in Seq(Nat)
    OBVIOUS
  <2> QED
    BY <1>2, <2>1 DEF HandlerRecords, Idle
<1> HIDE DEF q
<1>4. Stage(q)
  BY <1>2, <1>3 DEF Stage
<1> QED
  BY <1>1, <1>3, <1>4, WaitingStart

\* A press of one of the arrows.
LEMMA NavStartStep ==
  ASSUME CtxInv, NEW h \in Handlers, NEW m \in DOMAIN shown,
         NavStart(h, m), UNCHANGED max_sessions
  PROVE  CtxInv'
<1> DEFINE o == get_ctx(m)
           c == heap[o]
<1>1. /\ hd[h].pc = "idle" /\ Bound(m) /\ dirty' = Overlap(m)
      /\ UNCHANGED <<shown, msg_ctx>>
  BY DEF NavStart
<1>2. m \in Nat \ {0}
  BY DEF CtxInv, CtxTypes
<1>3. o \in Nat /\ Entry(m, o)
  BY <1>1, <1>2, BoundEntry
<1>4. PICK idx \in {c.idx - 1, c.idx + 1} \cap DOMAIN c.list :
        /\ hd' = [hd EXCEPT ![h] =
             [Idle EXCEPT
                !.pc = IF c.mode = "search" THEN "show" ELSE "fetch",
                !.kind = "nav", !.msg = m, !.obj = o,
                !.idx = idx, !.comic = c.list[idx]]]
        /\ heap' = IF c.mode # "search" THEN heap
                   ELSE [heap EXCEPT ![o].idx = idx, ![o].comic = c.list[idx]]
  BY DEF NavStart
<1> DEFINE q == [Idle EXCEPT
                   !.pc = IF c.mode = "search" THEN "show" ELSE "fetch",
                   !.kind = "nav", !.msg = m, !.obj = o,
                   !.idx = idx, !.comic = c.list[idx]]
           d == [c EXCEPT !.idx = idx, !.comic = c.list[idx]]
<1>5. hd' = [hd EXCEPT ![h] = q]
  BY <1>4
<1> HIDE DEF o
<1>6. o \in 1 .. Len(heap) /\ o # 0 /\ heap \in Seq(Contexts)
  BY <1>3 DEF CtxInv, CtxTypes, Places
<1>7. c \in Contexts
  BY <1>6
<1>8. idx \in DOMAIN c.list /\ idx \in Nat \ {0} /\ c.list[idx] \in Nat
  BY <1>7 DEF Contexts
<1>9. /\ d \in Contexts /\ WellFormed(d) /\ d.comic = c.list[idx]
  BY <1>7, <1>8 DEF Contexts, WellFormed
<1>10. /\ q \in HandlerRecords /\ q.kind = "nav" /\ q.msg = m /\ q.new = 0
       /\ q.obj = o /\ q.idx = idx /\ q.comic = c.list[idx]
       /\ q.pc = IF c.mode = "search" THEN "show" ELSE "fetch"
  <2>1. << >> \in Seq(Nat)
    OBVIOUS
  <2> HIDE DEF c
  <2> QED
    BY <1>2, <1>3, <1>8, <2>1 DEF HandlerRecords, Idle
<1>11. c.mode = "search" => heap' = [heap EXCEPT ![o] = d]
  BY <1>4, <1>6
<1> HIDE DEF q, d
<1>12. Stage(q)
  BY <1>2, <1>6, <1>8, <1>10 DEF Stage
<1>13. CASE c.mode # "search"
  <2>1. UNCHANGED heap
    BY <1>4, <1>13
  <2> QED
    BY <1>1, <1>3, <1>5, <1>8, <1>10, <1>12, <1>13, <2>1, WaitingStart
<1>14. CASE c.mode = "search"
  <2>1. /\ heap' \in Seq(Contexts) /\ Len(heap') = Len(heap) /\ heap'[o] = d
        /\ \A i \in DOMAIN heap : i # o => heap'[i] = heap[i]
    BY <1>6, <1>9, <1>11, <1>14
  <2>2. hd'[h] = q
    BY <1>5, <1>10, <1>12, HandlerChanges
  <2>3. HandlerRight(h)'
    BY <1>9, <1>10, <1>14, <2>1, <2>2 DEF HandlerRight
  <2>4. ASSUME NEW i \in Nat, Entry(m, i)
        PROVE  EntryRight(m, i)'
    <3>1. Moved(m)'
      BY <1>2, <1>10, <1>14, <2>2 DEF Moved, About
    <3>2. i \in DOMAIN heap
      BY <2>4 DEF CtxInv, Places, CtxTypes
    <3>3. m \notin dirty' => WellFormed(heap'[i])
      <4>1. m \notin dirty' => WellFormed(heap[i])
        BY <1>1, <1>2, <2>4, CleanStart
      <4> QED
        BY <1>9, <2>1, <3>2, <4>1
    <3> QED
      BY <3>1, <3>3 DEF EntryRight
  <2> QED
    BY <1>1, <1>3, <1>5, <1>10, <1>12, <2>1, <2>3, <2>4, PressStep
<1> QED
  BY <1>13, <1>14

\* The message is bound to the context, and one that it replaces no longer.
LEMMA BindStep ==
  ASSUME CtxInv, NEW h \in Handlers, Bind(h), UNCHANGED max_sessions
  PROVE  CtxInv'
<1> DEFINE kept == IF hd[h].new = hd[h].msg THEN msg_ctx
                   ELSE drop_ctx(msg_ctx, hd[h].msg)
<1>1. /\ hd[h].pc = "bind" /\ Done(h) /\ UNCHANGED <<shown, heap, dirty>>
      /\ msg_ctx' = put_ctx(kept, hd[h].new, hd[h].obj)
  BY DEF Bind
<1>2. PICK n \in Nat, b \in Nat, g \in Nat :
        n = hd[h].new /\ b = hd[h].obj /\ g = hd[h].msg
  BY DEF CtxInv, CtxTypes, HandlerRecords
<1>3. n # 0 /\ b # 0 /\ n <= Len(shown) /\ b <= Len(heap)
  BY <1>1, <1>2 DEF CtxInv, CtxTypes, Stage, Places
<1>4. /\ hd'[h] = Idle /\ hd' \in [Handlers -> HandlerRecords]
      /\ \A x \in Handlers : x # h => hd'[x] = hd[x]
      /\ \A x \in Handlers : Stage(hd'[x])
  BY <1>1, HandlerChanges, IdleHandler DEF Done
<1>5. /\ kept \in Maps /\ OneEntryEach(kept) /\ Len(kept) <= Len(msg_ctx)
      /\ \A i \in DOMAIN kept :
           /\ kept[i][1] # g \/ n = g
           /\ \E j \in DOMAIN msg_ctx : kept[i] = msg_ctx[j]
  <2>1. msg_ctx \in Maps /\ OneEntryEach(msg_ctx) /\ Len(msg_ctx) \in Nat
    BY MapDomain DEF CtxInv, CtxTypes
  <2>2. CASE n = g
    BY <1>2, <2>1, <2>2
  <2>3. CASE n # g
    BY <1>2, <2>1, <2>3, DropFacts
  <2> QED
    BY <2>2, <2>3
<1> HIDE DEF kept
<1>6. max_sessions \in Nat \ {0} /\ Len(kept) <= max_sessions
  BY <1>5, MapDomain DEF CtxInv, CtxTypes
<1>7. /\ msg_ctx' \in Maps /\ OneEntryEach(msg_ctx')
      /\ Len(msg_ctx') <= max_sessions
      /\ \A i \in DOMAIN msg_ctx' :
           \/ msg_ctx'[i] = <<n, b>>
           \/ /\ msg_ctx'[i][1] # n
              /\ \E j \in DOMAIN kept : msg_ctx'[i] = kept[j]
  BY <1>1, <1>2, <1>5, <1>6, PutFacts
<1>8. \A m, o \in Nat : Entry(m, o)' =>
        \/ m = n /\ o = b
        \/ m # n /\ m # g /\ Entry(m, o)
  BY <1>5, <1>7 DEF Entry
<1>9. CtxTypes'
  BY <1>1, <1>4, <1>7 DEF CtxInv, CtxTypes
<1>10. Places'
  <2>1. Len(shown) \in Nat /\ Len(heap) \in Nat
    BY DEF CtxInv, CtxTypes
  <2>2. \A x \in Handlers : /\ hd'[x].msg <= Len(shown)
                            /\ hd'[x].new <= Len(shown)
                            /\ hd'[x].obj <= Len(heap)
    BY <1>4, <2>1, IdleHandler DEF CtxInv, Places
  <2>3. \A m, o \in Nat : Entry(m, o)' =>
          m \in 1 .. Len(shown) /\ o \in 1 .. Len(heap)
    BY <1>3, <1>8, <2>1 DEF CtxInv, Places
  <2> QED
    BY <1>1, <2>2, <2>3 DEF Places
<1>11. /\ \A x \in Handlers, m \in Nat :
            x # h => (About(x, m)' <=> About(x, m))
       /\ \A m \in Nat : ~ About(h, m)'
       /\ \A m \in Nat : About(h, m) => m = n \/ m = g
       /\ About(h, n)
  BY <1>2, <1>3, <1>4, IdleHandler DEF About
<1>12. /\ \A x \in Handlers : AllDirty(x) => AllDirty(x)'
       /\ AllDirty(h) => n \in dirty
  BY <1>1, <1>11 DEF AllDirty
<1>13. Overlaps'
  BY <1>1, <1>4, <1>11, IdleHandler DEF CtxInv, Overlaps
<1>14. Sharing'
  <2>1. \A m \in Nat : m # n /\ m # g /\ Entry(m, b) =>
          m \in dirty /\ n \in dirty
    BY <1>2, <1>12 DEF CtxInv, Sharing
  <2>2. \A l, m, o \in Nat :
          Entry(l, o)' /\ Entry(m, o)' /\ l # m => l \in dirty
    BY <1>8, <2>1 DEF CtxInv, Sharing
  <2>3. ASSUME NEW m \in Nat, NEW o \in Nat, NEW x \in Handlers,
               Entry(m, o)', hd'[x].obj = o
        PROVE  hd'[x].msg = m \/ (m \in dirty /\ AllDirty(x)')
    <3>1. o # 0
      BY <1>3, <1>8, <2>3 DEF CtxInv, Places
    <3>2. x # h /\ hd'[x] = hd[x]
      BY <1>4, <2>3, <3>1, IdleHandler
    <3>3. CASE m = n /\ o = b
      <4>1. AllDirty(x) /\ AllDirty(h)
        BY <1>2, <1>3, <2>3, <3>2, <3>3 DEF CtxInv, Sharing
      <4> QED
        BY <1>12, <3>3, <4>1
    <3>4. CASE Entry(m, o)
      BY <1>12, <2>3, <3>2, <3>4 DEF CtxInv, Sharing
    <3> QED
      BY <1>8, <2>3, <3>3, <3>4
  <2>4. ASSUME NEW x \in Handlers, NEW y \in Handlers, x # y,
               hd'[x].obj = hd'[y].obj, hd'[x].obj # 0
        PROVE  AllDirty(x)'
    <3>1. hd'[x] = hd[x] /\ hd'[y] = hd[y]
      BY <1>4, <2>4, IdleHandler
    <3> QED
      BY <1>12, <2>4, <3>1 DEF CtxInv, Sharing
  <2> QED
    BY <1>1, <2>2, <2>3, <2>4 DEF Sharing
<1>15. ASSUME NEW x \in Handlers
       PROVE  HandlerRight(x)'
  <2>1. CASE x = h
    BY <1>4, <2>1, IdleHandler DEF HandlerRight
  <2>2. CASE x # h
    <3>1. \A m \in Nat : About(x, m) => m \in DOMAIN shown
      BY DEF CtxInv, CtxTypes, Places, About
    <3> QED
      BY <1>1, <1>4, <2>2, <3>1, HandlerStaysRight
  <2> QED
    BY <2>1, <2>2
<1>16. ASSUME NEW m \in Nat, NEW o \in Nat, Entry(m, o)'
       PROVE  EntryRight(m, o)'
  <2>1. CASE m = n /\ o = b
    <3> SUFFICES ASSUME n \notin dirty
                 PROVE  EntryRight(m, o)'
      BY <1>1, <2>1 DEF EntryRight
    <3>1. Clean(h)
      BY <1>2, <1>3, <1>11 DEF CtxInv, Overlaps, Clean, About
    <3>2. /\ WellFormed(heap[b])
          /\ OnScreen(n) => Agree(n, b)
      BY <1>1, <1>2, <1>3, <3>1 DEF CtxInv, ScreenInv, HandlerRight
    <3> QED
      BY <1>1, <2>1, <3>2 DEF EntryRight, Agree, OnScreen
  <2>2. CASE m # n /\ m # g /\ Entry(m, o)
    <3>1. Moved(m) => Moved(m)'
      BY <1>4, <1>11, <2>2 DEF Moved
    <3> QED
      BY <1>1, <2>2, <3>1, EntryStaysRight
  <2> QED
    BY <1>8, <1>16, <2>1, <2>2
<1> QED
  BY <1>9, <1>10, <1>13, <1>14, <1>15, <1>16 DEF CtxInv, ScreenInv

-----------------------------------------------------------------------------
(* The theorems about the contexts.                                        *)

\* The invariant holds at first.
LEMMA CtxInit == Init => CtxInv
<1> SUFFICES ASSUME Init
             PROVE  CtxInv
  OBVIOUS
<1>1. /\ max_sessions \in Nat \ {0} /\ shown = << >> /\ heap = << >>
      /\ msg_ctx = << >> /\ hd = [h \in Handlers |-> Idle]
  BY DEF Init
<1>2. << >> \in Seq(Screens) /\ << >> \in Seq(Contexts) /\ << >> \in Maps
      /\ Len(<< >>) = 0 /\ DOMAIN << >> = {}
  BY DEF Maps
<1>3. \A h \in Handlers : hd[h] = Idle
  BY <1>1
<1>4. \A m, o \in Nat : ~ Entry(m, o)
  BY <1>1, <1>2 DEF Entry
<1>5. CtxTypes
  BY <1>1, <1>2, <1>3, IdleHandler DEF CtxTypes, OneEntryEach
<1>6. Places
  BY <1>1, <1>2, <1>3, <1>4, IdleHandler DEF Places
<1>7. Overlaps
  BY <1>3, IdleHandler DEF Overlaps, About
<1>8. Sharing
  BY <1>3, <1>4, IdleHandler DEF Sharing
<1>9. ScreenInv
  BY <1>3, <1>4, IdleHandler DEF ScreenInv, HandlerRight
<1> QED
  BY <1>5, <1>6, <1>7, <1>8, <1>9 DEF CtxInv

\* A step that changes nothing of the contexts.
LEMMA CtxStutter ==
  ASSUME CtxInv, UNCHANGED vars
  PROVE  CtxInv'
<1>1. UNCHANGED <<max_sessions, shown, heap, msg_ctx, hd, dirty>>
  BY DEF vars
<1>2. \A x \in Handlers, m \in Nat : About(x, m)' <=> About(x, m)
  BY <1>1 DEF About
<1>3. \A m, o \in Nat : Entry(m, o)' <=> Entry(m, o)
  BY <1>1 DEF Entry
<1>4. CtxTypes'
  BY <1>1 DEF CtxInv, CtxTypes
<1>5. Places'
  BY <1>1, <1>3 DEF CtxInv, Places
<1>6. \A x \in Handlers : AllDirty(x)' <=> AllDirty(x)
  BY <1>1, <1>2 DEF AllDirty
<1>7. Overlaps' /\ Sharing'
  BY <1>1, <1>2, <1>3, <1>6 DEF CtxInv, Overlaps, Sharing
<1>8. \A x \in Handlers : HandlerRight(x)'
  <2>1. \A x \in Handlers, m \in Nat : About(x, m) => m \in DOMAIN shown
    BY DEF CtxInv, CtxTypes, Places, About
  <2> QED
    BY <1>1, <2>1, HandlerStaysRight
<1>9. \A m, o \in Nat : Entry(m, o) => EntryRight(m, o)'
  <2>1. \A m \in Nat : Moved(m)' <=> Moved(m)
    BY <1>1, <1>2 DEF Moved
  <2> QED
    BY <1>1, <2>1, EntryStaysRight
<1> QED
  BY <1>3, <1>4, <1>5, <1>7, <1>8, <1>9 DEF CtxInv, ScreenInv

\* Every step preserves the invariant.
LEMMA CtxNext == CtxInv /\ [Next]_vars => CtxInv'
<1> SUFFICES ASSUME CtxInv, [Next]_vars
             PROVE  CtxInv'
  OBVIOUS
<1>1. ASSUME NEW h \in Handlers, Fetched(h), UNCHANGED max_sessions
      PROVE  CtxInv'
  BY <1>1, FetchedKnownStep, FetchedRandomStep
<1>2. CASE Next
  BY <1>1, <1>2, CommandStep, NavStartStep, RandomStartStep, DeleteStartStep,
     SaveStartStep, PaintedStep, DeletedStep, RequestFailsStep, EditStep,
     ReplaceStep, EditFailsStep, BindStep DEF Next
<1>3. CASE UNCHANGED vars
  BY <1>3, CtxStutter
<1> QED
  BY <1>2, <1>3

\* CtxInv: whoever shares a message or a context is dirty, and what a handler
\* has in hand is still true when it comes to use it (callbacks.py:42-88,
\* 96-449, tg_edit.py:4-60).
THEOREM ContextsInvariant == Spec => []CtxInv
  BY CtxInit, CtxNext, PTL DEF Spec

\* ContextsAreSeparate: however many handlers run at once and however many
\* messages there are, no two messages share a context, apart from the dirty
\* ones, and the bound on the contexts holds (msg_ctx.py:11-28,
\* callbacks.py:66-88).
THEOREM MessagesKeepApart == Spec => []ContextsAreSeparate
  BY ContextsInvariant, CtxInvImplies, PTL

\* ScreenMatchesContext: the buttons under a message act on the comic it shows,
\* whatever was edited, replaced, deleted or evicted before, unless presses
\* overlapped or an edit was lost (callbacks.py:42-88, 96-449,
\* tg_edit.py:4-60).
THEOREM ButtonsMeanTheScreen == Spec => []ScreenMatchesContext
  BY ContextsInvariant, CtxInvImplies, PTL

=============================================================================
