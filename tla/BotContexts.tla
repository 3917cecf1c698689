---------------------------- MODULE BotContexts ----------------------------
(***************************************************************************)
(* The messages of the Telegram bot and the contexts behind their buttons: *)
(* the commands that send a comic (app/handlers/commands.py), the buttons  *)
(* under it (app/handlers/callbacks.py), the edit that falls back on a new *)
(* message (app/services/tg_edit.py) and the bounded, ordered map from a   *)
(* message to its context (app/services/msg_ctx.py).                       *)
(*                                                                         *)
(* A context is a Python dict that handlers share by reference and update  *)
(* in place: an object of a heap.  Handlers interleave where they wait for *)
(* the api or for Telegram.  Pages, numbers, search results and favorites  *)
(* are all a list of comics with a position in it.                         *)
(***************************************************************************)
EXTENDS Naturals, SequencesExt

CONSTANTS
  Handlers,     \* handlers running at the same time
  MaxComic,     \* bound on the length of a list
  MaxSessions,  \* bound on max_sessions
  MaxMessages   \* bound on the messages that are sent

ASSUME ContextsAssumption == MaxSessions \in Nat \ {0} /\ MaxComic \in Nat \ {0}

VARIABLES
  max_sessions, \* MAX_SEARCH_SESSIONS of settings.py: any size up to MaxSessions
  shown,        \* the messages, by id: mode, comic (0: deleted) and saved, the
                \* comic under which a save has painted "saved" (0: none)
  heap,         \* the contexts
  msg_ctx,      \* <<message, context>>, in the order of insertion
  hd,           \* the handlers
  dirty         \* history: messages with overlapping handlers or a lost edit

vars == <<max_sessions, shown, heap, msg_ctx, hd, dirty>>

Modes == {"all", "search", "mycomics", "random"}
Idle == [pc |-> "idle", kind |-> "none", msg |-> 0, obj |-> 0, new |-> 0,
         idx |-> 0, comic |-> 0, list |-> << >>]

Init ==
  /\ max_sessions \in 1 .. MaxSessions
  /\ shown = << >> /\ heap = << >> /\ msg_ctx = << >>
  /\ hd = [h \in Handlers |-> Idle]
  /\ dirty = {}

-----------------------------------------------------------------------------
(* The map.                                                                *)

Bound(m) == \E i \in DOMAIN msg_ctx : msg_ctx[i][1] = m
get_ctx(m) == msg_ctx[CHOOSE i \in DOMAIN msg_ctx : msg_ctx[i][1] = m][2]
drop_ctx(map, m) == RemoveFirstMatch(map, LAMBDA e : e[1] = m)

\* A key that is there keeps its place; a new one goes to the end, and the
\* oldest is popped if there are too many.
put_ctx(map, m, o) ==
  IF \E i \in DOMAIN map : map[i][1] = m
    THEN [i \in DOMAIN map |-> IF map[i][1] = m THEN <<m, o>> ELSE map[i]]
    ELSE LET longer == Append(map, <<m, o>>)
         IN  IF Len(longer) > max_sessions THEN Tail(longer) ELSE longer

-----------------------------------------------------------------------------
Ctx(mode, list, idx) ==
  [mode |-> mode, list |-> list, idx |-> idx, comic |-> list[idx]]

OnScreen(m) == m \in DOMAIN shown /\ shown[m].comic # 0

\* Another handler is busy with the message, or about to bind it.
Overlapping(m) == {x \in Handlers : hd[x].pc # "idle" /\ m \in {hd[x].msg, hd[x].new}}
Overlap(m) ==
  IF Overlapping(m) = {} THEN dirty
  ELSE dirty \cup {m} \cup {hd[x].new : x \in Overlapping(m)}

Done(h) == hd' = [hd EXCEPT ![h] = Idle]

\* /comics, /search, /mycomics and /random, from the answer of the api on: the
\* comic is sent, and bound when Telegram has answered.  /comics <id>, whose
\* mode is "by_id", starts anywhere and goes on as /comics does.
Command(h) ==
  /\ hd[h].pc = "idle" /\ Len(shown) < MaxMessages
  /\ \E mode \in Modes, n \in 1 .. MaxComic :
       \E start \in IF mode = "all" THEN 1 .. n ELSE {1} :
       LET ctx == IF mode = "random" THEN Ctx(mode, <<n>>, 1)
                  ELSE Ctx(mode, [i \in 1 .. n |-> i], start)
       IN  /\ heap' = Append(heap, ctx)
           /\ shown' = Append(shown, [mode |-> mode, comic |-> ctx.comic, saved |-> 0])
           /\ hd' = [hd EXCEPT ![h] =
                [Idle EXCEPT !.pc = "bind", !.kind = "command",
                             !.new = Len(shown) + 1, !.obj = Len(heap) + 1]]
  /\ UNCHANGED <<msg_ctx, dirty>>

\* on_nav, up to its first wait: nothing happens without a context or beyond
\* the ends of the list.  The results of a search need not be fetched.
NavStart(h, m) ==
  /\ hd[h].pc = "idle" /\ OnScreen(m) /\ Bound(m)
  /\ LET o == get_ctx(m)
         c == heap[o]
     IN  /\ c.mode # "random"
         /\ \E idx \in {c.idx - 1, c.idx + 1} \cap DOMAIN c.list :
              /\ hd' = [hd EXCEPT ![h] =
                   [Idle EXCEPT !.pc = IF c.mode = "search" THEN "show" ELSE "fetch",
                                !.kind = "nav", !.msg = m, !.obj = o,
                                !.idx = idx, !.comic = c.list[idx]]]
              /\ heap' = IF c.mode # "search" THEN heap
                         ELSE [heap EXCEPT ![o].idx = idx, ![o].comic = c.list[idx]]
  /\ dirty' = Overlap(m)
  /\ UNCHANGED <<shown, msg_ctx>>

\* on_random_next does not look at the context.
RandomStart(h, m) ==
  /\ hd[h].pc = "idle" /\ OnScreen(m) /\ shown[m].mode = "random"
  /\ hd' = [hd EXCEPT ![h] = [Idle EXCEPT !.pc = "fetch", !.kind = "random",
                                          !.msg = m]]
  /\ dirty' = Overlap(m)
  /\ UNCHANGED <<shown, heap, msg_ctx>>

\* on_fav_del, up to the request.
DeleteStart(h, m) ==
  /\ hd[h].pc = "idle" /\ OnScreen(m) /\ Bound(m)
  /\ heap[get_ctx(m)].mode = "mycomics"
  /\ hd' = [hd EXCEPT ![h] = [Idle EXCEPT !.pc = "delete", !.kind = "del",
              !.msg = m, !.obj = get_ctx(m), !.comic = heap[get_ctx(m)].comic]]
  /\ dirty' = Overlap(m)
  /\ UNCHANGED <<shown, heap, msg_ctx>>

\* on_fav_save, up to the request ...
SaveStart(h, m) ==
  /\ hd[h].pc = "idle" /\ OnScreen(m) /\ Bound(m)
  /\ heap[get_ctx(m)].mode # "mycomics"
  /\ hd' = [hd EXCEPT ![h] = [Idle EXCEPT !.pc = "save", !.kind = "save",
              !.msg = m, !.comic = heap[get_ctx(m)].comic]]
  /\ dirty' = Overlap(m)
  /\ UNCHANGED <<shown, heap, msg_ctx>>

\* ... and the buttons it paints, under whatever the message shows by then.
Saved(h) ==
  /\ hd[h].pc = "save" /\ OnScreen(hd[h].msg)
  /\ shown' = [shown EXCEPT ![hd[h].msg].saved = hd[h].comic]
  /\ Done(h)
  /\ UNCHANGED <<heap, msg_ctx, dirty>>

\* Mutant of Deleted: the position is not pulled back from the end.
DeletedNoClip(h) ==
  /\ hd[h].pc = "delete"
  /\ LET c == heap[hd[h].obj]
         list == RemoveFirst(c.list, hd[h].comic)
     IN  IF list = << >>
           THEN /\ msg_ctx' = drop_ctx(msg_ctx, hd[h].msg)
                /\ \/ shown' = [shown EXCEPT ![hd[h].msg].comic = 0]
                   \/ UNCHANGED shown
                /\ Done(h)
           ELSE /\ hd' = [hd EXCEPT ![h].pc = "fetch", ![h].list = list,
                            ![h].idx = c.idx,
                            ![h].comic = list[IF c.idx <= Len(list) THEN c.idx ELSE Len(list)]]
                /\ UNCHANGED <<msg_ctx, shown>>
  /\ UNCHANGED <<heap, dirty>>

\* The api has answered the delete: the list without the comic, and the
\* position within it; nothing is left to show if it was the last one.
Deleted(h) ==
  /\ hd[h].pc = "delete"
  /\ LET c == heap[hd[h].obj]
         list == RemoveFirst(c.list, hd[h].comic)
         idx == IF c.idx <= Len(list) THEN c.idx ELSE Len(list)
     IN  IF list = << >>
           THEN /\ msg_ctx' = drop_ctx(msg_ctx, hd[h].msg)
                /\ \/ shown' = [shown EXCEPT ![hd[h].msg].comic = 0]
                   \/ UNCHANGED shown
                /\ Done(h)
           ELSE /\ hd' = [hd EXCEPT ![h].pc = "fetch", ![h].list = list,
                            ![h].idx = idx, ![h].comic = list[idx]]
                /\ UNCHANGED <<msg_ctx, shown>>
  /\ UNCHANGED <<heap, dirty>>

\* The api has sent the comic: ctx.update(...), or a new context for a random
\* comic.
Fetched(h) ==
  /\ hd[h].pc = "fetch"
  /\ \/ /\ hd[h].kind \in {"nav", "del"}
        /\ heap' = [heap EXCEPT ![hd[h].obj].idx = hd[h].idx,
                                ![hd[h].obj].comic = hd[h].comic,
                                ![hd[h].obj].list =
                                  IF hd[h].kind = "del" THEN hd[h].list ELSE @]
        /\ hd' = [hd EXCEPT ![h].pc = "show", ![h].idx = 0, ![h].list = << >>]
     \/ /\ hd[h].kind = "random" /\ Len(heap) < MaxMessages
        /\ \E n \in 1 .. MaxComic :
             /\ heap' = Append(heap, Ctx("random", <<n>>, 1))
             /\ hd' = [hd EXCEPT ![h].pc = "show", ![h].comic = n,
                                 ![h].obj = Len(heap) + 1]
  /\ UNCHANGED <<shown, msg_ctx, dirty>>

\* A request to the api fails before anything was changed, or Telegram refuses
\* the new buttons of a save.
RequestFails(h) ==
  /\ hd[h].pc \in {"fetch", "delete", "save"}
  /\ Done(h)
  /\ UNCHANGED <<shown, heap, msg_ctx, dirty>>

Shows(h) == [mode |-> heap[hd[h].obj].mode, comic |-> hd[h].comic, saved |-> 0]

\* edit_or_replace_comic: the message is edited ...
Edit(h) ==
  /\ hd[h].pc = "show" /\ OnScreen(hd[h].msg)
  /\ shown' = [shown EXCEPT ![hd[h].msg] = Shows(h)]
  /\ hd' = [hd EXCEPT ![h].pc = "bind", ![h].comic = 0, ![h].new = hd[h].msg]
  /\ UNCHANGED <<heap, msg_ctx, dirty>>

\* ... or deleted, if Telegram agrees, and a new one sent ...
Replace(h) ==
  /\ hd[h].pc = "show" /\ Len(shown) < MaxMessages
  /\ \E left \in {0, shown[hd[h].msg].comic} :
       shown' = Append([shown EXCEPT ![hd[h].msg].comic = left], Shows(h))
  /\ hd' = [hd EXCEPT ![h].pc = "bind", ![h].comic = 0, ![h].new = Len(shown) + 1]
  /\ dirty' = IF hd[h].msg \in dirty THEN dirty \cup {Len(shown) + 1} ELSE dirty
  /\ UNCHANGED <<heap, msg_ctx>>

\* ... or not even that: the handler ends with an exception, its context
\* already updated.
EditFails(h) ==
  /\ hd[h].pc = "show"
  /\ \E left \in {0, shown[hd[h].msg].comic} :
       shown' = [shown EXCEPT ![hd[h].msg].comic = left]
  /\ dirty' = dirty \cup {hd[h].msg}
  /\ Done(h)
  /\ UNCHANGED <<heap, msg_ctx>>

\* Mutant of Bind: the context stays under the old message too.
BindBoth(h) ==
  /\ hd[h].pc = "bind"
  /\ msg_ctx' = put_ctx(msg_ctx, hd[h].new, hd[h].obj)
  /\ Done(h)
  /\ UNCHANGED <<shown, heap, dirty>>

\* Telegram has answered: drop_ctx if the message is new, put_ctx.
Bind(h) ==
  /\ hd[h].pc = "bind"
  /\ LET kept == IF hd[h].new = hd[h].msg THEN msg_ctx
                 ELSE drop_ctx(msg_ctx, hd[h].msg)
     IN  msg_ctx' = put_ctx(kept, hd[h].new, hd[h].obj)
  /\ Done(h)
  /\ UNCHANGED <<shown, heap, dirty>>

Next ==
  /\ \E h \in Handlers :
       \/ Command(h)
       \/ \E m \in DOMAIN shown :
            NavStart(h, m) \/ RandomStart(h, m) \/ DeleteStart(h, m) \/ SaveStart(h, m)
       \/ Saved(h) \/ Deleted(h) \/ Fetched(h) \/ RequestFails(h)
       \/ Edit(h) \/ Replace(h) \/ EditFails(h) \/ Bind(h)
  /\ UNCHANGED max_sessions

Spec == Init /\ [][Next]_vars

-----------------------------------------------------------------------------
(* Properties.                                                             *)

\* "Save" and "delete" act on the comic that is on the screen, and "next" and
\* "previous" move from it: under a message with no handler under way the
\* context names the comic that is shown and its place in the list, and "saved"
\* is painted under the comic that was saved, whatever was edited, replaced,
\* deleted or evicted before.  Overlapping presses under
\* one message, and an edit that failed after the context was updated, are the
\* only exceptions (callbacks.py:42-88, 96-449, tg_edit.py:4-60).
ScreenMatchesContext ==
  \A i \in DOMAIN msg_ctx :
    LET m == msg_ctx[i][1]
        c == heap[msg_ctx[i][2]]
    IN  m \notin dirty /\ OnScreen(m) /\ Overlapping(m) = {} =>
          /\ c.comic = shown[m].comic
          /\ c.idx \in DOMAIN c.list /\ c.list[c.idx] = c.comic
          /\ shown[m].saved \in {0, shown[m].comic}

\* No two messages share a context, so that browsing under one never moves the
\* other, and there are never more contexts than allowed (msg_ctx.py:11-28,
\* callbacks.py:66-88).
ContextsAreSeparate ==
  /\ Len(msg_ctx) <= max_sessions
  /\ \A i, j \in DOMAIN msg_ctx : i # j =>
       /\ msg_ctx[i][1] # msg_ctx[j][1]
       /\ {msg_ctx[i][1], msg_ctx[j][1]} \cap dirty = {} =>
            msg_ctx[i][2] # msg_ctx[j][2]
=============================================================================
