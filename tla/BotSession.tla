----------------------------- MODULE BotSession -----------------------------
(***************************************************************************)
(* What the Telegram bot remembers about a user (app/services/session.py): *)
(* the token of the user and a cache of the user's favorites, both in the  *)
(* FSM data of one chat.  The handlers that use them (app/handlers) run as *)
(* tasks of one event loop, which interleave at every request to the api   *)
(* (app/adapters/api/client.py) and nowhere else: the memory storage       *)
(* answers without giving up control.  The names of the specification say  *)
(* Session, so that BotContexts can be extended beside it.                 *)
(***************************************************************************)
EXTENDS Naturals, FiniteSets

CONSTANTS
  Tasks,        \* handlers running at the same time
  Comics,       \* comics the user deals with, all of them in the catalogue
  CacheTTL      \* FAV_CACHE_TTL_SEC, in ticks of the clock

ASSUME SessionAssumption == CacheTTL \in Nat \ {0}

VARIABLES
  favs,         \* the user's rows in the favorites service
  token,        \* data["tokens"]: "none", "live" or "expired"
  entry,        \* data["fav_cache"]: there, ids, and age, the time since "ts"
  task,         \* the handlers
  full,         \* history: the entry came from a list, not from a save
  disturbed     \* history: the entry may differ from favs for a known reason

sessionVars == <<favs, token, entry, task, full, disturbed>>

\* Ages are counted up to the TTL.
NoEntry == [there |-> FALSE, ids |-> {}, age |-> CacheTTL]
NoTask == [pc |-> "idle", kind |-> "none", comic |-> "none", reply |-> {},
           age |-> CacheTTL, stale |-> FALSE]

Lists == {"ensure", "mycomics"}
Changes == {"save", "del"}

SessionInit ==
  /\ favs \in SUBSET Comics
  /\ token = "none"
  /\ entry = NoEntry
  /\ task = [t \in Tasks |-> NoTask]
  /\ full = FALSE /\ disturbed = FALSE

-----------------------------------------------------------------------------
\* The first request: the login, if there is no token.
FirstCall == IF token = "none" THEN "login" ELSE "call"

\* Of the handlers only ensure_fav_ids_map keeps the time it began.
Begin(t, kind, comic) ==
  task' = [task EXCEPT ![t] =
    [NoTask EXCEPT !.pc = FirstCall, !.kind = kind, !.comic = comic,
                   !.age = IF kind = "ensure" THEN 0 ELSE CacheTTL]]

\* Mutant of UsesCache: an entry is good for ever.
UsesCacheForever == entry.ids # {}

\* entry.get("ids") and a recent "ts".
UsesCache == entry.ids # {} /\ entry.age < CacheTTL

\* ensure_fav_ids_map, called by every handler that shows a comic; when the
\* cache will do there is nothing to wait for.
StartEnsure(t) ==
  /\ task[t].pc = "idle" /\ ~ UsesCache
  /\ Begin(t, "ensure", "none")
  /\ UNCHANGED <<favs, token, entry, full, disturbed>>

\* cmd_mycomics lists in any case.
StartMyComics(t) ==
  /\ task[t].pc = "idle"
  /\ Begin(t, "mycomics", "none")
  /\ UNCHANGED <<favs, token, entry, full, disturbed>>

\* on_fav_save, under any message: the cache may have learnt of the comic since
\* the button was painted.
StartSave(t, c) ==
  /\ task[t].pc = "idle"
  /\ Begin(t, "save", c)
  /\ UNCHANGED <<favs, token, entry, full, disturbed>>

\* on_fav_del, under a comic of /mycomics.
StartDelete(t, c) ==
  /\ task[t].pc = "idle"
  /\ Begin(t, "del", c)
  /\ UNCHANGED <<favs, token, entry, full, disturbed>>

-----------------------------------------------------------------------------
TaskDone(t) == task' = [task EXCEPT ![t] = NoTask]

\* get_or_login_token
Login(t) ==
  /\ task[t].pc = "login"
  /\ token' = "live"
  /\ task' = [task EXCEPT ![t].pc = "call"]
  /\ UNCHANGED <<favs, entry, full, disturbed>>

\* httpx.HTTPError: the old entry, or an apology; the cache stays.
ApiFails(t) ==
  /\ task[t].pc \in {"login", "call"}
  /\ TaskDone(t)
  /\ UNCHANGED <<favs, token, entry, full, disturbed>>

\* The api answers 401: an HTTPError for a list, an apology for a change.
Unauthorized(t) ==
  /\ task[t].pc = "call" /\ token = "expired"
  /\ TaskDone(t)
  /\ UNCHANGED <<favs, token, entry, full, disturbed>>

\* favorites_list; /mycomics leaves the cache alone if there are none.
List(t) ==
  /\ task[t].pc = "call" /\ task[t].kind \in Lists /\ token = "live"
  /\ IF task[t].kind = "mycomics" /\ favs = {} THEN TaskDone(t)
     ELSE task' = [task EXCEPT ![t].pc = "write", ![t].reply = favs]
  /\ UNCHANGED <<favs, token, entry, full, disturbed>>

\* favorites_add (204 or 409) and favorites_delete (204 or 404).  Lists that
\* are on their way back are out of date from now on, and the answers of two
\* changes of one comic may come in the wrong order.
Change(t) ==
  /\ task[t].pc = "call" /\ task[t].kind \in Changes /\ token = "live"
  /\ favs' = IF task[t].kind = "save" THEN favs \cup {task[t].comic}
                                      ELSE favs \ {task[t].comic}
  /\ task' = [x \in Tasks |->
       IF x = t THEN [task[t] EXCEPT !.pc = "write"]
       ELSE IF task[x].pc = "write" THEN [task[x] EXCEPT !.stale = TRUE]
       ELSE task[x]]
  /\ disturbed' = (disturbed \/ \E x \in Tasks : task[x].pc = "write"
                                  /\ task[x].comic = task[t].comic)
  /\ UNCHANGED <<token, entry, full>>

\* ... and the answer gets lost.
ChangeLost(t) ==
  /\ task[t].pc = "call" /\ task[t].kind \in Changes /\ token = "live"
  /\ favs' = IF task[t].kind = "save" THEN favs \cup {task[t].comic}
                                      ELSE favs \ {task[t].comic}
  /\ task' = [x \in Tasks |->
       IF x = t THEN NoTask
       ELSE IF task[x].pc = "write" THEN [task[x] EXCEPT !.stale = TRUE]
       ELSE task[x]]
  /\ disturbed' = TRUE
  /\ UNCHANGED <<token, entry, full>>

\* fav_cache[key] = {"ts": now, "ids": ids}, with the time before the request
\* in ensure_fav_ids_map and the time after it in cmd_mycomics.
WriteList(t) ==
  /\ task[t].pc = "write" /\ task[t].kind \in Lists
  /\ entry' = [there |-> TRUE, ids |-> task[t].reply,
               age |-> IF task[t].kind = "ensure" THEN task[t].age ELSE 0]
  /\ full' = TRUE
  /\ disturbed' = (task[t].stale \/ (disturbed /\ \E x \in Tasks :
                     task[x].pc = "write" /\ task[x].kind \in Changes))
  /\ TaskDone(t)
  /\ UNCHANGED <<favs, token>>

\* Mutant of set_saved_in_cache: a deleted comic stays in the cache.
set_saved_only(t) ==
  /\ task[t].pc = "write" /\ task[t].kind \in Changes
  /\ entry' = [there |-> TRUE, age |-> 0,
               ids |-> IF task[t].kind = "save" THEN entry.ids \cup {task[t].comic}
                                                ELSE entry.ids]
  /\ full' = (full /\ entry.there)
  /\ TaskDone(t)
  /\ UNCHANGED <<favs, token, disturbed>>

\* A new entry if there is none, and a new time in any case.
set_saved_in_cache(t) ==
  /\ task[t].pc = "write" /\ task[t].kind \in Changes
  /\ entry' = [there |-> TRUE, age |-> 0,
               ids |-> IF task[t].kind = "save" THEN entry.ids \cup {task[t].comic}
                                                ELSE entry.ids \ {task[t].comic}]
  /\ full' = (full /\ entry.there)
  /\ TaskDone(t)
  /\ UNCHANGED <<favs, token, disturbed>>

-----------------------------------------------------------------------------
Older(age) == IF age < CacheTTL THEN age + 1 ELSE age

\* Time passes.
Tick ==
  /\ entry' = [entry EXCEPT !.age = Older(@)]
  /\ task' = [t \in Tasks |-> [task[t] EXCEPT !.age = Older(@)]]
  /\ UNCHANGED <<favs, token, full, disturbed>>

\* The token's TTL passes.
TokenExpires ==
  /\ token = "live"
  /\ token' = "expired"
  /\ UNCHANGED <<favs, entry, task, full, disturbed>>

\* The same user in another chat, which has a cache of its own.
Elsewhere ==
  /\ favs' \in SUBSET Comics
  /\ task' = [t \in Tasks |-> [task[t] EXCEPT !.stale = task[t].pc = "write"]]
  /\ disturbed' = TRUE
  /\ UNCHANGED <<token, entry, full>>

\* The memory storage does not survive a restart of the bot.
Restart ==
  /\ token' = "none" /\ entry' = NoEntry
  /\ task' = [t \in Tasks |-> NoTask]
  /\ full' = FALSE /\ disturbed' = FALSE
  /\ UNCHANGED favs

Handler(t) ==
  \/ Login(t) \/ Unauthorized(t) \/ List(t) \/ Change(t)
  \/ WriteList(t) \/ set_saved_in_cache(t)

\* The user looks at comics and lists, and what was begun goes on.
Looking(t) == StartEnsure(t) \/ StartMyComics(t) \/ Handler(t)

\* The user presses a button that changes the favorites.
Pressing(t) == \E c \in Comics : StartSave(t, c) \/ StartDelete(t, c)

SessionNext ==
  \/ \E t \in Tasks : Looking(t) \/ Pressing(t) \/ ApiFails(t) \/ ChangeLost(t)
  \/ Tick \/ TokenExpires \/ Elsewhere \/ Restart

SessionSpec == SessionInit /\ [][SessionNext]_sessionVars

\* The event loop runs every task whose answer has come, and time passes.
Fairness ==
  /\ \A t \in Tasks : WF_sessionVars(Handler(t))
  /\ WF_sessionVars(Tick)

LiveSpec == SessionSpec /\ Fairness

-----------------------------------------------------------------------------
(* Properties.                                                             *)

\* Between handlers the cache says what the favorites service says, all of it
\* if it came from a list, except for the known reasons: a change while an
\* older list or the answer to another change of the comic was on its way, a
\* change whose answer got lost, a change from elsewhere.  A list without such
\* a change makes it right again (session.py:27-76).
CacheIsRight ==
  ~ disturbed /\ (\A t \in Tasks : task[t].pc # "write") =>
    /\ entry.ids \subseteq favs
    /\ full => entry.ids = favs

\* From some time on nothing fails and nobody changes the favorites any more.
SettlesDown ==
  <>[][(\E t \in Tasks : Looking(t)) \/ Tick]_sessionVars

\* A cache that has become wrong, by a save that an older list overwrote, by an
\* answer that got lost or by another chat, is not used for ever: once things
\* have settled down, an entry that is young enough to be used is what the
\* favorites service has, no more and no less.  Every save and every delete
\* makes the whole entry young again, so that a user who never stops pressing
\* buttons may go on seeing a wrong one; and an entry that is too old is still
\* what a list falls back on when it fails (session.py:27-76).
CacheHeals == SettlesDown => <>[](UsesCache => entry.ids = favs)
=============================================================================
