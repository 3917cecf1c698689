--------------------------- MODULE SearchQueries ---------------------------
(***************************************************************************)
(* The queries of the search service that go to the database: Find,        *)
(* GetComicByID, GetAllComics and RandomComic (search/core/service.go),    *)
(* their SQL (search/adapters/db/storage.go) and their gRPC answers        *)
(* (search/adapters/grpc/server.go).  GetAllComics and RandomComic count   *)
(* the table and select from it in two statements, between which the       *)
(* update service goes on.                                                 *)
(*                                                                         *)
(* Queries only read, so one at a time is enough: two do not interact.     *)
(* uint32 arithmetic is done modulo Word.                                  *)
(***************************************************************************)
EXTENDS ComicsTable, Ranking, FiniteSetsExt, SequencesExt

CONSTANTS
  Phrases,      \* the token sequences that words.Norm returns
  Pages,        \* page numbers that are asked for
  Limits,       \* limits that are asked for
  DefaultLimit, \* 10 in the code
  MaxLimit,     \* 100 in the code
  Word          \* 2^32

ASSUME QueryAssumption ==
  /\ \A tokens \in Phrases : IsPhrase(tokens)
  /\ Word \in Nat \ {0}
  /\ Pages \cup Limits \subseteq 0 .. Word - 1
  /\ DefaultLimit \in Nat \ {0} /\ MaxLimit \in Nat
  /\ DefaultLimit <= MaxLimit
  /\ MaxID \in Nat
  /\ Absent \notin Rows

VARIABLE query  \* the query under way, or the last one with its answer

vars == <<tableVars, query>>

NoQuery ==
  [pc |-> "done", kind |-> "none", tokens |-> << >>, page |-> 0, limit |-> 0,
   total |-> 0, code |-> "none", list |-> << >>,
   \* history: the table has not changed since the query began (quiet) or since
   \* its last statement (still), was empty at some moment of it; a statement
   \* of it failed
   quiet |-> TRUE, still |-> TRUE, emptied |-> FALSE, failed |-> FALSE]

Init == TableInit /\ query = NoQuery

-----------------------------------------------------------------------------
(* Orders.                                                                 *)

\* The elements of S that come before x in a strict order.
Preceding(S, before, x) == {y \in S : <<y, x>> \in before}

\* ORDER BY and sort.Slice: the i-th element is the one with i - 1 before it.
InOrder(S, before) ==
  [i \in 1 .. Cardinality(S) |->
     CHOOSE x \in S : Cardinality(Preceding(S, before, x)) = i - 1]

\* ORDER BY id.
SmallerID == {p \in Stored \X Stored : p[1] < p[2]}

-----------------------------------------------------------------------------
(* The SQL.                                                                *)

\* WHERE title && $1 OR alt && $1 OR words && $1
Find(tokens) ==
  {id \in Stored :
     \E i \in DOMAIN tokens :
       tokens[i] \in ToSet(rows[id].title) \cup ToSet(rows[id].alt)
                       \cup ToSet(rows[id].words)}

Count == Cardinality(Stored)

\* ORDER BY id OFFSET offset LIMIT limit
GetAll(offset, limit) ==
  SubSeq(InOrder(Stored, SmallerID), offset + 1, Min({offset + limit, Count}))

-----------------------------------------------------------------------------
(* Ranking.                                                                *)

\* scoredList: the comics with a score, each with its score.
Scored(ids, tokens) ==
  LET all == {[comic |-> id, score |-> scoreComic(rows[id], tokens)] :
                id \in ids}
  IN  {s \in all : s.score > 0}

\* The order of sort.Slice: descending score, ascending id.
Better(scored) ==
  {p \in scored \X scored :
     \/ p[1].score > p[2].score
     \/ p[1].score = p[2].score /\ p[1].comic < p[2].comic}

Ranked(scored) ==
  [i \in 1 .. Cardinality(scored) |->
     InOrder(scored, Better(scored))[i].comic]

\* Mutant of rangComics: the limit cuts before the sort.
rangComicsCutFirst(ids, tokens, limit) ==
  LET scored == Scored(ids, tokens)
      cut == {s \in scored :
                Cardinality({x \in scored : x.comic < s.comic}) < limit}
  IN  [list |-> Ranked(cut), total |-> Cardinality(scored)]

rangComics(ids, tokens, limit) ==
  LET scored == Scored(ids, tokens)
      n == Cardinality(scored)
  IN  [list |-> SubSeq(Ranked(scored), 1, Min({limit, n})), total |-> n]

\* Mutant of byToken: Build forgets the alt texts.
byTokenNoAlt(tok) ==
  {id \in Stored :
     tok # "" /\ tok \in ToSet(rows[id].title) \cup ToSet(rows[id].words)}

\* index.byToken[tok], built from the table as it is now.
byToken(tok) ==
  {id \in Stored :
     tok # "" /\ tok \in ToSet(rows[id].title) \cup ToSet(rows[id].alt)
                           \cup ToSet(rows[id].words)}

DocsForTokens(tokens) == UNION {byToken(tokens[i]) : i \in DOMAIN tokens}

-----------------------------------------------------------------------------
(* The answers of the two searches for one table.                          *)

\* Find drops the total of rangComics; its server answers the list's length.
FindAnswer(tokens, limit) ==
  LET r == rangComics(Find(tokens), tokens, limit)
  IN  [list |-> r.list, total |-> Len(r.list)]

\* IndexedSearch passes the total on.
IndexedAnswer(tokens, limit) == rangComics(DocsForTokens(tokens), tokens, limit)

-----------------------------------------------------------------------------
(* The queries.                                                            *)

Begin(kind) ==
  [NoQuery EXCEPT !.pc = "read", !.kind = kind, !.emptied = (Stored = {})]

Answered(q, code, list, total) ==
  [q EXCEPT !.pc = "done", !.code = code, !.list = list, !.total = total,
            !.tokens = << >>, !.still = TRUE]

OrDefault(limit) == IF limit = 0 THEN DefaultLimit ELSE limit

\* The checks of Find and words.Norm, in this order: an empty phrase, a large
\* limit, an error of words, a phrase of which nothing is left.
FindBegin ==
  /\ query.pc = "done"
  /\ \E limit \in Limits, tokens \in Phrases \cup {<< >>},
        err \in {"nil", "ErrEmptyPhrase", "ErrBadArguments", "ErrUnavailable",
                 "other"} :
       LET q == [Begin("find") EXCEPT !.tokens = tokens,
                                      !.limit = OrDefault(limit)]
           invalid == \/ OrDefault(limit) > MaxLimit
                      \/ err \in {"ErrEmptyPhrase", "ErrBadArguments"}
           broken == err = "other" \/ (err = "nil" /\ tokens = << >>)
       IN  query' = CASE invalid -> Answered(q, "InvalidArgument", << >>, 0)
                      [] ~invalid /\ err = "ErrUnavailable"
                           -> Answered(q, "Unavailable", << >>, 0)
                      [] ~invalid /\ broken
                           -> Answered(q, "Internal", << >>, 0)
                      [] OTHER -> q
  /\ UNCHANGED tableVars

\* db.Find and the ranking.
FindRead ==
  /\ query.pc = "read" /\ query.kind = "find"
  /\ LET a == FindAnswer(query.tokens, query.limit)
     IN  query' = Answered(query, "OK", a.list, a.total)
  /\ UNCHANGED tableVars

\* GetComicByID, one SELECT.
GetComicByID ==
  /\ query.pc = "done"
  /\ \E id \in {0} \cup IDs :
       LET q == Begin("byid")
       IN  query' = CASE id = 0 -> Answered(q, "InvalidArgument", << >>, 0)
                      [] id \in Stored -> Answered(q, "OK", <<id>>, 1)
                      [] OTHER -> Answered(q, "NotFound", << >>, 0)
  /\ UNCHANGED tableVars

\* Mutant of Offset: pages counted from zero.
OffsetFromZero(page, limit) == (page * limit) % Word

\* int((page - 1) * limit) with uint32 operands.
Offset(page, limit) == ((page - 1) * limit) % Word

\* GetAllComics up to and including its Count.
ListCount ==
  /\ query.pc = "done"
  /\ \E p \in Pages, l \in Limits :
       LET q == [Begin("list") EXCEPT !.page = IF p = 0 THEN 1 ELSE p,
                                      !.limit = OrDefault(l)]
       IN  query' =
             CASE q.limit > MaxLimit
                    -> Answered(q, "InvalidArgument", << >>, 0)
               [] q.limit <= MaxLimit /\ Offset(q.page, q.limit) >= Count
                    -> Answered(q, "OK", << >>, Count)
               [] OTHER -> [q EXCEPT !.total = Count]
  /\ UNCHANGED tableVars

\* ... and its GetAll.
ListRead ==
  /\ query.pc = "read" /\ query.kind = "list"
  /\ query' = Answered(query, "OK",
                       GetAll(Offset(query.page, query.limit), query.limit),
                       query.total)
  /\ UNCHANGED tableVars

\* RandomComic up to and including its Count.
RandomCount ==
  /\ query.pc = "done"
  /\ query' = IF Count = 0 THEN Answered(Begin("random"), "Internal", << >>, 0)
                           ELSE [Begin("random") EXCEPT !.total = Count]
  /\ UNCHANGED tableVars

\* Mutant of RandomRead: rand.Intn(total + 1).
RandomReadPastEnd ==
  /\ query.pc = "read" /\ query.kind = "random"
  /\ \E n \in 0 .. query.total :
       LET list == GetAll(n, 1)
       IN  query' = Answered(query, IF list = << >> THEN "Internal" ELSE "OK",
                             list, query.total)
  /\ UNCHANGED tableVars

\* ... and the row at a random offset.
RandomRead ==
  /\ query.pc = "read" /\ query.kind = "random"
  /\ \E n \in 0 .. query.total - 1 :
       LET list == GetAll(n, 1)
       IN  query' = Answered(query, IF list = << >> THEN "Internal" ELSE "OK",
                             list, query.total)
  /\ UNCHANGED tableVars

\* A SELECT fails, the first of the call or the second.
ReadFails ==
  /\ \E q \in IF query.pc = "read" THEN {query}
                ELSE {Begin(kind) : kind \in {"byid", "list", "random"}} :
       query' = [Answered(q, "Internal", << >>, 0) EXCEPT !.failed = TRUE]
  /\ UNCHANGED tableVars

\* The update service goes on meanwhile.
TableStep ==
  /\ TableNext
  /\ query' = [query EXCEPT
       !.quiet = @ /\ rows' = rows,
       !.still = @ /\ rows' = rows,
       !.emptied = @ \/ (query.pc = "read" /\ rows' = EmptyTable)]

Next ==
  \/ FindBegin \/ FindRead \/ GetComicByID
  \/ ListCount \/ ListRead
  \/ RandomCount \/ RandomRead
  \/ ReadFails
  \/ TableStep

Spec == Init /\ [][Next]_vars

-----------------------------------------------------------------------------
(* Properties.                                                             *)

Answers(kind) == query.pc = "done" /\ query.kind = kind

\* A comic that is to be returned before another.
Ahead(a, b, tokens) ==
  LET score(id) == scoreComic(rows[id], tokens)
  IN  score(a) > score(b) \/ (score(a) = score(b) /\ a < b)

\* The comics that have a token of the phrase in a field.
Matching(ids, tokens) == {id \in ids : Covered(rows[id], tokens) # {}}

\* For every table the update service can leave behind, the list that a search
\* through SQL answers is made of the best "limit" of the comics that have a
\* token of the phrase: it is as long as the limit and the matches allow, none
\* that matches is left out while a worse one is returned, and the order is
\* strict (service.go:49-78, 117-154, storage.go:37-45).
TopMatches ==
  \A tokens \in Phrases, limit \in 1 .. MaxLimit :
    LET list == FindAnswer(tokens, limit).list
        matching == Matching(Stored, tokens)
    IN  /\ Len(list) = Min({limit, Cardinality(matching)})
        /\ \A i, j \in 1 .. Len(list) :
             i < j => Ahead(list[i], list[j], tokens)
        /\ \A i \in 1 .. Len(list), id \in matching \ ToSet(list) :
             Ahead(list[i], id, tokens)

\* On one and the same table the search through SQL and the search through the
\* inverted index answer the same list: what Postgres' array overlap selects is
\* what Build and DocsForTokens find.  Their totals differ: that of the indexed
\* search alone counts all the matches, the other one is the length of the list
\* (storage.go:44, index.go:21-80, service.go:76, 112, server.go:49, 79).
SearchesAgree ==
  \A tokens \in Phrases, limit \in 1 .. MaxLimit :
    LET sql == FindAnswer(tokens, limit)
        indexed == IndexedAnswer(tokens, limit)
    IN  /\ sql.list = indexed.list
        /\ indexed.total = Cardinality(Matching(Stored, tokens))
        /\ sql.total = Min({limit, indexed.total})

\* A comic that covers more tokens of the phrase is ranked above one that
\* covers fewer, as long as the phrase has at most 13 tokens: up to there the
\* weights of the fields cannot add up to the 100 of one more token
\* (service.go:157-195).
BreadthFirst ==
  \A tokens \in Phrases : Len(tokens) <= 13 =>
    \A a, b \in Stored : BroaderScoresHigher(rows[a], rows[b], tokens)

\* Whatever happens between Count and GetAll, a page holds exactly the comics
\* with (page-1)*limit to page*limit - 1 smaller ids of the table as its last
\* statement saw it: pages of one table neither overlap nor leave a comic out.
\* The total is that table's too if nobody changed it in between; and unless it
\* was emptied then (or raced), a page that its total announces is not empty.
\* All this as long as the product fits 32 bits (service.go:218-246).
PageIsSlice ==
  Answers("list") /\ query.code = "OK"
    /\ (query.page - 1) * query.limit < Word =>
      LET before(id) == Cardinality({x \in Stored : x < id})
      IN  /\ query.quiet => query.total = Count
          /\ query.still =>
               ToSet(query.list) =
                 {id \in Stored :
                    /\ (query.page - 1) * query.limit <= before(id)
                    /\ before(id) < query.page * query.limit}
          /\ ~ query.emptied /\ ~ raced
                /\ (query.page - 1) * query.limit < query.total =>
               query.list # << >>

\* RandomComic has an answer whenever there are comics: it fails only if a
\* statement failed or the table was empty at some moment of the call, because
\* between Count and GetAll the table only grows unless it is emptied
\* (service.go:249-270).
RandomFailsOnlyOnEmpty ==
  Answers("random") /\ query.code = "Internal" =>
    query.failed \/ query.emptied \/ raced
=============================================================================
