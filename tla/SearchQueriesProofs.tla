------------------------ MODULE SearchQueriesProofs ------------------------
(***************************************************************************)
(* The ranking, for every comic and every phrase; the pages and            *)
(* RandomComic, for every table and whatever the update service does       *)
(* meanwhile; and Norm, for every text, which gives the ranking its        *)
(* phrases.                                                                *)
(***************************************************************************)
EXTENDS SearchQueries, WordsNorm, FiniteSetTheorems, SequenceTheorems,
        WellFoundedInduction, TLAPS

-----------------------------------------------------------------------------
(* The ranking.                                                            *)

\* Each token that a comic covers counts once, and the score is between 101
\* and 109 for each: WeightCover and the weight of one field at least, of all
\* three at most.
LEMMA ScoreBounds ==
  ASSUME NEW c, NEW tokens, IsPhrase(tokens)
  PROVE  LET n == Cardinality(Covered(c, tokens))
         IN  /\ n \in Nat /\ n <= Len(tokens)
             /\ scoreComic(c, tokens) \in Nat
             /\ 101 * n <= scoreComic(c, tokens)
             /\ scoreComic(c, tokens) <= 109 * n
<1> DEFINE T == Matches(c.title, tokens)
           A == Matches(c.alt, tokens)
           W == Matches(c.words, tokens)
           M == MatchesAny(c, tokens)
           C == Covered(c, tokens)
<1>1. /\ IsFiniteSet(DOMAIN tokens)
      /\ Cardinality(DOMAIN tokens) = Len(tokens) /\ Len(tokens) \in Nat
  <2>1. Len(tokens) \in Nat /\ DOMAIN tokens = 1 .. Len(tokens)
    BY DEF IsPhrase
  <2> DEFINE n == Len(tokens)
  <2> HIDE DEF n
  <2>2. n \in Nat => /\ IsFiniteSet(1 .. n)
                     /\ Cardinality(1 .. n) = n
    BY FS_Interval
  <2> QED
    BY <2>1, <2>2 DEF n
<1>2. M = T \cup A \cup W /\ M \subseteq DOMAIN tokens
  BY DEF MatchesAny, Matches
<1>3. IsFiniteSet(M) /\ Cardinality(M) <= Len(tokens)
  BY <1>1, <1>2, FS_Subset
<1>4. /\ IsFiniteSet(T) /\ Cardinality(T) <= Cardinality(M)
      /\ IsFiniteSet(A) /\ Cardinality(A) <= Cardinality(M)
      /\ IsFiniteSet(W) /\ Cardinality(W) <= Cardinality(M)
  BY <1>2, <1>3, FS_Subset
<1>5. /\ Cardinality(T) \in Nat /\ Cardinality(A) \in Nat
      /\ Cardinality(W) \in Nat /\ Cardinality(M) \in Nat
  BY <1>3, <1>4, FS_CardinalityType
<1>6. Cardinality(M) <= Cardinality(T) + Cardinality(A) + Cardinality(W)
  <2> HIDE DEF T, A, W, M
  <2>1. /\ IsFiniteSet(T \cup A)
        /\ Cardinality(T \cup A) =
             Cardinality(T) + Cardinality(A) - Cardinality(T \cap A)
    BY <1>4, FS_Union
  <2>2. Cardinality((T \cup A) \cup W) =
          Cardinality(T \cup A) + Cardinality(W)
            - Cardinality((T \cup A) \cap W)
    BY <1>4, <2>1, FS_Union
  <2>3. /\ Cardinality(T \cap A) \in Nat /\ Cardinality(T \cup A) \in Nat
        /\ Cardinality((T \cup A) \cap W) \in Nat
    BY <1>4, <2>1, FS_Intersection, FS_CardinalityType
  <2> QED
    BY <1>2, <1>5, <2>1, <2>2, <2>3
<1>7. Cardinality(C) = Cardinality(M)
  <2> DEFINE f == [i \in M |-> tokens[i]]
  <2>1. C = {tokens[i] : i \in M}
    BY DEF Covered
  <2>2. \A i, j \in M : tokens[i] = tokens[j] => i = j
    BY <1>2 DEF IsPhrase
  <2> HIDE DEF C, M
  <2>3. f \in Surjection(M, C)
    BY <2>1 DEF Surjection
  <2>4. f \in Injection(M, C)
    BY <2>1, <2>2 DEF Injection, IsInjective
  <2> HIDE DEF f
  <2> QED
    BY <1>3, <2>3, <2>4, FS_Surjection
<1>8. CASE C = {}
  <2>1. Cardinality(C) = 0 /\ scoreComic(c, tokens) = 0
    BY <1>8, FS_EmptySet DEF scoreComic
  <2> QED
    BY <1>1, <2>1
<1>9. CASE C # {}
  <2>1. scoreComic(c, tokens) =
          Cardinality(C) * 100 + Cardinality(T) * 5 + Cardinality(A) * 3
            + Cardinality(W) * 1
    BY <1>9, WeightsAssumption DEF scoreComic
  <2> DEFINE x == scoreComic(c, tokens)
             n == Cardinality(C)
  <2>2. n \in Nat /\ n <= Len(tokens)
    BY <1>3, <1>5, <1>7
  <2>3. x \in Nat /\ 101 * n <= x /\ x <= 109 * n
    <3> HIDE DEF C, T, A, W, M, x
    <3>1. x = Cardinality(C) * 100 + Cardinality(T) * 5 + Cardinality(A) * 3
                + Cardinality(W)
      BY <1>5, <2>1 DEF x
    <3> QED
      BY <1>4, <1>5, <1>6, <1>7, <3>1
  <2> HIDE DEF C
  <2> QED
    BY <2>2, <2>3 DEF C
<1> QED
  BY <1>8, <1>9

\* BroaderScoresHigher: a comic that covers more tokens of the phrase wins,
\* for every pair of comics and every phrase of at most 13 tokens; with 14
\* tokens the weights of the fields can outweigh one of them
\* (service.go:157-195).
THEOREM BroaderWins ==
  ASSUME NEW a, NEW b, NEW tokens, IsPhrase(tokens), Len(tokens) <= 13
  PROVE  BroaderScoresHigher(a, b, tokens)
<1> DEFINE m == Cardinality(Covered(a, tokens))
           n == Cardinality(Covered(b, tokens))
           x == scoreComic(a, tokens)
           y == scoreComic(b, tokens)
<1>1. m \in Nat /\ m <= Len(tokens) /\ x \in Nat /\ 101 * m <= x
  BY ScoreBounds
<1>2. n \in Nat /\ y \in Nat /\ y <= 109 * n
  BY ScoreBounds
<1>3. Len(tokens) \in Nat
  BY DEF IsPhrase
<1> HIDE DEF m, n, x, y
<1>4. m > n => x > y
  BY <1>1, <1>2, <1>3
<1> QED
  BY <1>4 DEF BroaderScoresHigher, m, n, x, y

\* BreadthFirst, in every state of the search service.
THEOREM RankedByBreadth == Spec => []BreadthFirst
<1>1. BreadthFirst
  BY BroaderWins, QueryAssumption DEF BreadthFirst
<1> QED
  BY <1>1, PTL

-----------------------------------------------------------------------------
(* Sorting.                                                                *)

StrictOrder(S, before) ==
  /\ \A x \in S : <<x, x>> \notin before
  /\ \A x, y \in S : x # y => <<x, y>> \in before \/ <<y, x>> \in before
  /\ \A x, y, z \in S :
       <<x, y>> \in before /\ <<y, z>> \in before => <<x, z>> \in before

\* In a finite strict order no two elements have the same number of elements
\* before them, so each number below the size is that of exactly one element.
LEMMA OnePlaceEach ==
  ASSUME NEW S, IsFiniteSet(S), NEW before, StrictOrder(S, before)
  PROVE  LET n == Cardinality(S)
             At(x) == Cardinality(Preceding(S, before, x))
         IN  /\ n \in Nat
             /\ \A x \in S : At(x) \in 0 .. n - 1
             /\ \A x, y \in S : <<x, y>> \in before => At(x) < At(y)
             /\ \A i \in 1 .. n : \E x \in S : At(x) = i - 1
<1> DEFINE n == Cardinality(S)
           P(x) == Preceding(S, before, x)
           At(x) == Cardinality(P(x))
<1>1. n \in Nat
  BY FS_CardinalityType
<1>2. ASSUME NEW x \in S
      PROVE  IsFiniteSet(P(x)) /\ At(x) \in Nat /\ At(x) < n
  <2>1. P(x) \subseteq S /\ x \notin P(x)
    BY DEF Preceding, StrictOrder
  <2> HIDE DEF P
  <2>2. IsFiniteSet(P(x)) /\ At(x) <= n /\ At(x) # n
    BY <2>1, FS_Subset
  <2>3. At(x) \in Nat
    BY <2>2, FS_CardinalityType
  <2> QED
    BY <1>1, <2>2, <2>3
<1>3. ASSUME NEW x \in S, NEW y \in S, <<x, y>> \in before
      PROVE  At(x) < At(y)
  <2>1. P(x) \subseteq P(y) /\ x \in P(y) /\ x \notin P(x)
    BY <1>3 DEF Preceding, StrictOrder
  <2>2. IsFiniteSet(P(y))
    BY <1>2
  <2> HIDE DEF P
  <2>3. At(x) <= At(y) /\ At(x) # At(y)
    BY <2>1, <2>2, FS_Subset
  <2> QED
    BY <1>2, <2>3
<1>4. \A x, y \in S : At(x) = At(y) => x = y
  <2> SUFFICES ASSUME NEW x \in S, NEW y \in S, At(x) = At(y), x # y
               PROVE  FALSE
    OBVIOUS
  <2>1. <<x, y>> \in before \/ <<y, x>> \in before
    BY DEF StrictOrder
  <2>2. At(x) < At(y) \/ At(y) < At(x)
    BY <1>3, <2>1
  <2>3. At(x) \in Nat /\ At(y) \in Nat
    BY <1>2
  <2> HIDE DEF At
  <2> QED
    BY <2>2, <2>3
<1>5. \A i \in 1 .. n : \E x \in S : At(x) = i - 1
  <2> DEFINE f == [x \in S |-> At(x) + 1]
  <2>1. ASSUME NEW x \in S
        PROVE  At(x) + 1 \in 1 .. n
    <3> HIDE DEF At, n
    <3> QED
      BY <1>1, <1>2
  <2>2. f \in [S -> 1 .. n]
    <3> HIDE DEF At, n
    <3> QED
      BY <2>1
  <2>3. \A x, y \in S : f[x] = f[y] => x = y
    <3> HIDE DEF At, n
    <3> QED
      BY <1>2, <1>4
  <2>4. f \in Injection(S, 1 .. n)
    <3> HIDE DEF f, n
    <3> QED
      BY <2>2, <2>3 DEF Injection, IsInjective
  <2>5. IsFiniteSet(1 .. n) /\ Cardinality(1 .. n) = n
    <3> HIDE DEF n
    <3> QED
      BY <1>1, FS_Interval
  <2>6. f \in Surjection(S, 1 .. n)
    <3> HIDE DEF f
    <3> QED
      BY <2>4, <2>5, FS_Injection
  <2>7. \A i \in 1 .. n : \E x \in S : f[x] = i
    <3> HIDE DEF f, n
    <3> QED
      BY <2>6 DEF Surjection
  <2> SUFFICES ASSUME NEW i \in 1 .. n
               PROVE  \E x \in S : At(x) = i - 1
    OBVIOUS
  <2>8. PICK x \in S : f[x] = i
    BY <2>7
  <2>9. At(x) = i - 1
    <3> HIDE DEF At, n
    <3> QED
      BY <1>1, <1>2, <2>8
  <2> QED
    BY <2>9
<1>6. \A x \in S : At(x) \in 0 .. n - 1
  <2> SUFFICES ASSUME NEW x \in S
               PROVE  At(x) \in 0 .. n - 1
    OBVIOUS
  <2>1. At(x) \in Nat /\ At(x) < n
    BY <1>2
  <2> HIDE DEF At, n
  <2> QED
    BY <1>1, <2>1
<1> QED
  BY <1>1, <1>3, <1>5, <1>6

\* So InOrder is a permutation of the set, in the order, and the place of an
\* element tells how many come before it.
LEMMA Sorts ==
  ASSUME NEW S, IsFiniteSet(S), NEW before, StrictOrder(S, before)
  PROVE  LET n == Cardinality(S)
             s == InOrder(S, before)
         IN  /\ n \in Nat
             /\ s \in [1 .. n -> S]
             /\ \A i \in 1 .. n :
                  Cardinality(Preceding(S, before, s[i])) = i - 1
             /\ \A i, j \in 1 .. n : i < j => <<s[i], s[j]>> \in before
             /\ \A x \in S : \E i \in 1 .. n : s[i] = x
<1> DEFINE n == Cardinality(S)
           s == InOrder(S, before)
           At(x) == Cardinality(Preceding(S, before, x))
<1>1. /\ n \in Nat
      /\ \A x \in S : At(x) \in 0 .. n - 1
      /\ \A x, y \in S : <<x, y>> \in before => At(x) < At(y)
      /\ \A i \in 1 .. n : \E x \in S : At(x) = i - 1
  BY OnePlaceEach
<1>2. s = [i \in 1 .. n |-> CHOOSE x \in S : At(x) = i - 1]
  BY DEF InOrder
<1> HIDE DEF n, s, At
<1>3. ASSUME NEW i \in 1 .. n
      PROVE  s[i] \in S /\ At(s[i]) = i - 1
  BY <1>1, <1>2
<1>4. s \in [1 .. n -> S]
  BY <1>2, <1>3
<1>5. ASSUME NEW i \in 1 .. n, NEW j \in 1 .. n, i < j
      PROVE  <<s[i], s[j]>> \in before
  <2>1. s[i] \in S /\ At(s[i]) = i - 1 /\ s[j] \in S /\ At(s[j]) = j - 1
    BY <1>3
  <2>2. ~ (At(s[j]) < At(s[i])) /\ s[i] # s[j]
    BY <1>1, <1>5, <2>1
  <2> QED
    BY <1>1, <2>1, <2>2 DEF StrictOrder
<1>6. ASSUME NEW x \in S
      PROVE  \E i \in 1 .. n : s[i] = x
  <2> DEFINE i == At(x) + 1
  <2>1. At(x) \in 0 .. n - 1
    BY <1>1
  <2>2. i \in 1 .. n /\ At(x) = i - 1
    BY <1>1, <2>1
  <2> HIDE DEF i
  <2>3. s[i] \in S /\ At(s[i]) = At(x)
    BY <1>3, <2>2
  <2>4. At(x) \in Nat
    BY <2>1, <1>1
  <2>5. ASSUME NEW y \in S, At(y) = At(x)
        PROVE  y = x
    <3>1. ~ (At(x) < At(y)) /\ ~ (At(y) < At(x))
      BY <2>4, <2>5
    <3>2. <<x, y>> \notin before /\ <<y, x>> \notin before
      BY <1>1, <3>1
    <3> QED
      BY <3>2 DEF StrictOrder
  <2> QED
    BY <2>2, <2>3, <2>5
<1> QED
  BY <1>1, <1>3, <1>4, <1>5, <1>6 DEF n, s, At

\* SubSeq of a function that is written as one.
LEMMA Slice ==
  ASSUME NEW X, NEW n \in Nat, NEW s \in [1 .. n -> X],
         NEW a \in Nat \ {0}, NEW b \in Nat, b <= n
  PROVE  /\ s \in Seq(X) /\ Len(s) = n
         /\ SubSeq(s, a, b) \in Seq(X)
         /\ Len(SubSeq(s, a, b)) = IF a <= b THEN b - a + 1 ELSE 0
         /\ \A i \in 1 .. b - a + 1 : SubSeq(s, a, b)[i] = s[a + i - 1]
<1>1. s \in Seq(X) /\ Len(s) = n
  OBVIOUS
<1>2. CASE a <= b
  BY <1>1, <1>2, SubSeqProperties
<1>3. CASE ~ (a <= b)
  BY <1>1, <1>3, SubSeqProperties
<1> QED
  BY <1>1, <1>2, <1>3

\* The cut of a list: the smaller of its length and the limit.
LEMMA MinOfTwo ==
  ASSUME NEW a \in Nat, NEW b \in Nat
  PROVE  Min({a, b}) = IF a <= b THEN a ELSE b
<1> DEFINE m == IF a <= b THEN a ELSE b
<1>1. m \in {a, b} /\ \A y \in {a, b} : m <= y
  OBVIOUS
<1>2. \A x \in {a, b} : (\A y \in {a, b} : x <= y) => x = m
  OBVIOUS
<1> QED
  BY <1>1, <1>2 DEF Min

\* The table's ids.
LEMMA StoredIDs ==
  /\ IsFiniteSet(Stored) /\ Stored \subseteq IDs /\ IDs \subseteq Nat
  /\ Cardinality(Stored) \in Nat
<1>1. IDs \subseteq Nat /\ IsFiniteSet(IDs)
  BY QueryAssumption, FS_Interval DEF IDs
<1>2. Stored \subseteq IDs
  BY DEF Stored
<1>3. IsFiniteSet(Stored)
  BY <1>1, <1>2, FS_Subset
<1> QED
  BY <1>1, <1>2, <1>3, FS_CardinalityType

-----------------------------------------------------------------------------
(* Search.                                                                 *)


\* Exactly the comics that cover a token have a score.
LEMMA ScoreTells ==
  ASSUME NEW c, NEW tokens, IsPhrase(tokens)
  PROVE  /\ scoreComic(c, tokens) \in Nat
         /\ scoreComic(c, tokens) > 0 <=> Covered(c, tokens) # {}
<1> DEFINE C == Covered(c, tokens)
           n == Cardinality(C)
           x == scoreComic(c, tokens)
<1>1. n \in Nat /\ x \in Nat /\ 101 * n <= x
  BY ScoreBounds
<1>2. C = {} => x = 0
  BY DEF scoreComic
<1>3. C # {} => n # 0
  <2>1. IsFiniteSet(DOMAIN tokens)
    <3>1. Len(tokens) \in Nat /\ DOMAIN tokens = 1 .. Len(tokens)
      BY DEF IsPhrase
    <3> QED
      BY <3>1, FS_Interval
  <2>2. IsFiniteSet(MatchesAny(c, tokens))
    <3>1. MatchesAny(c, tokens) \subseteq DOMAIN tokens
      BY DEF MatchesAny, Matches
    <3> QED
      BY <2>1, <3>1, FS_Subset
  <2>3. IsFiniteSet(C)
    <3> DEFINE M == MatchesAny(c, tokens)
               f == [i \in M |-> tokens[i]]
    <3>1. C = {tokens[i] : i \in M}
      BY DEF Covered
    <3> HIDE DEF C, M
    <3>2. f \in Surjection(M, C)
      BY <3>1 DEF Surjection
    <3> QED
      BY <2>2, <3>2, FS_Surjection DEF M
  <2> HIDE DEF C
  <2> QED
    BY <2>3, FS_EmptySet
<1> HIDE DEF C, n, x
<1>4. x \in Nat /\ (x > 0 <=> C # {})
  BY <1>1, <1>2, <1>3
<1> QED
  BY <1>4 DEF C, x

\* The list that is sorted: one entry for each match, in a strict order.
LEMMA ScoredList ==
  ASSUME NEW ids \in SUBSET Stored, NEW tokens, IsPhrase(tokens)
  PROVE  LET scored == Scored(ids, tokens)
             matching == Matching(ids, tokens)
         IN  /\ scored = {[comic |-> id,
                            score |-> scoreComic(rows[id], tokens)] :
                             id \in matching}
             /\ IsFiniteSet(scored)
             /\ Cardinality(scored) = Cardinality(matching)
             /\ StrictOrder(scored, Better(scored))
<1> DEFINE scored == Scored(ids, tokens)
           matching == Matching(ids, tokens)
           Entry(id) == [comic |-> id, score |-> scoreComic(rows[id], tokens)]
<1>1. scored = {Entry(id) : id \in matching}
  BY ScoreTells DEF Scored, Matching
<1>2. matching \subseteq Nat /\ IsFiniteSet(matching)
  BY StoredIDs, FS_Subset DEF Matching
<1>3. \A id \in matching : Entry(id).comic = id /\ Entry(id).score \in Nat
  BY ScoreTells
<1>4. IsFiniteSet(scored) /\ Cardinality(scored) = Cardinality(matching)
  <2> DEFINE f == [id \in matching |-> Entry(id)]
  <2> HIDE DEF scored, matching, Entry
  <2>1. f \in Surjection(matching, scored)
    BY <1>1 DEF Surjection
  <2>2. f \in Injection(matching, scored)
    BY <1>1, <1>3 DEF Injection, IsInjective
  <2> HIDE DEF f
  <2> QED
    BY <1>2, <2>1, <2>2, FS_Surjection
<1>5. \A x \in scored : x.comic \in Nat /\ x.score \in Nat
  <2> HIDE DEF scored, matching, Entry
  <2> QED
    BY <1>1, <1>2, <1>3
<1>6. \A x, y \in scored : x.comic = y.comic => x = y
  <2> HIDE DEF scored, matching, Entry
  <2> QED
    BY <1>1, <1>3
<1>7. \A x, y \in scored :
        <<x, y>> \in Better(scored) <=>
          \/ x.score > y.score
          \/ x.score = y.score /\ x.comic < y.comic
  BY DEF Better
<1>8. StrictOrder(scored, Better(scored))
  <2> HIDE DEF scored
  <2> QED
    BY <1>5, <1>6, <1>7 DEF StrictOrder
<1> QED
  BY <1>1, <1>4, <1>8

\* Sorted, the list names every match once and in the right order.
LEMMA RankedList ==
  ASSUME NEW ids \in SUBSET Stored, NEW tokens, IsPhrase(tokens)
  PROVE  LET matching == Matching(ids, tokens)
             n == Cardinality(matching)
             s == Ranked(Scored(ids, tokens))
         IN  /\ n \in Nat
             /\ Cardinality(Scored(ids, tokens)) = n
             /\ s \in [1 .. n -> matching]
             /\ \A i, j \in 1 .. n : i < j => Ahead(s[i], s[j], tokens)
             /\ \A id \in matching : \E i \in 1 .. n : s[i] = id
<1> DEFINE scored == Scored(ids, tokens)
           matching == Matching(ids, tokens)
           n == Cardinality(matching)
           Entry(id) == [comic |-> id, score |-> scoreComic(rows[id], tokens)]
           t == InOrder(scored, Better(scored))
           s == Ranked(scored)
<1>1. /\ scored = {Entry(id) : id \in matching}
      /\ IsFiniteSet(scored)
      /\ Cardinality(scored) = n
      /\ StrictOrder(scored, Better(scored))
  BY ScoredList
<1>2. \A id \in matching : /\ Entry(id).comic = id
                           /\ Entry(id).score = scoreComic(rows[id], tokens)
  OBVIOUS
<1>3. /\ n \in Nat
      /\ t \in [1 .. n -> scored]
      /\ \A i, j \in 1 .. n : i < j => <<t[i], t[j]>> \in Better(scored)
      /\ \A x \in scored : \E i \in 1 .. n : t[i] = x
  <2> DEFINE m == Cardinality(scored)
  <2>0. IsFiniteSet(scored) /\ StrictOrder(scored, Better(scored))
    BY <1>1
  <2> HIDE DEF scored, Entry, n
  <2>1. /\ m \in Nat
        /\ t \in [1 .. m -> scored]
        /\ \A i, j \in 1 .. m : i < j => <<t[i], t[j]>> \in Better(scored)
        /\ \A x \in scored : \E i \in 1 .. m : t[i] = x
    BY <2>0, Sorts
  <2>2. m = n
    BY <1>1
  <2> HIDE DEF m, t
  <2> QED
    BY <2>1, <2>2
<1>4. s = [i \in 1 .. n |-> t[i].comic]
  BY <1>1 DEF Ranked
<1>5. \A a, b \in matching :
        <<Entry(a), Entry(b)>> \in Better(scored) => Ahead(a, b, tokens)
  BY DEF Better, Ahead
<1>6. ASSUME NEW i \in 1 .. n
      PROVE  s[i] \in matching /\ t[i] = Entry(s[i])
  <2> HIDE DEF scored, matching, Entry, t, s, n
  <2>1. t[i] \in scored
    BY <1>3
  <2>2. PICK id \in matching : t[i] = Entry(id)
    BY <1>1, <2>1
  <2>3. s[i] = id
    BY <1>2, <1>4, <2>2
  <2> QED
    BY <2>2, <2>3
<1>7. s \in [1 .. n -> matching]
  <2> HIDE DEF matching, t, s, n
  <2> QED
    BY <1>4, <1>6
<1>8. ASSUME NEW i \in 1 .. n, NEW j \in 1 .. n, i < j
      PROVE  Ahead(s[i], s[j], tokens)
  <2> HIDE DEF scored, matching, Entry, t, s, n
  <2>1. <<t[i], t[j]>> \in Better(scored)
    BY <1>3, <1>8
  <2> QED
    BY <1>5, <1>6, <2>1
<1>9. ASSUME NEW id \in matching
      PROVE  \E i \in 1 .. n : s[i] = id
  <2> HIDE DEF scored, matching, Entry, t, s, n
  <2>1. PICK i \in 1 .. n : t[i] = Entry(id)
    BY <1>1, <1>3
  <2>2. s[i] = id
    BY <1>2, <1>4, <2>1
  <2> QED
    BY <2>2
<1> QED
  BY <1>1, <1>3, <1>7, <1>8, <1>9

\* Both ways to the candidates find every comic that has a token.
LEMMA Candidates ==
  ASSUME NEW tokens, IsPhrase(tokens)
  PROVE  /\ Find(tokens) \subseteq Stored
         /\ Find(tokens) = DocsForTokens(tokens)
         /\ Matching(Find(tokens), tokens) = Matching(Stored, tokens)
<1>1. Find(tokens) \subseteq Stored
  BY DEF Find
<1>2. \A i \in DOMAIN tokens : tokens[i] # ""
  BY DEF IsPhrase
<1>3. Find(tokens) = DocsForTokens(tokens)
  <2>1. ASSUME NEW id \in Find(tokens)
        PROVE  id \in DocsForTokens(tokens)
    <3>1. PICK i \in DOMAIN tokens : id \in byToken(tokens[i])
      BY <1>2 DEF Find, byToken
    <3> QED
      BY <3>1 DEF DocsForTokens
  <2>2. ASSUME NEW id \in DocsForTokens(tokens)
        PROVE  id \in Find(tokens)
    <3>1. PICK i \in DOMAIN tokens : id \in byToken(tokens[i])
      BY DEF DocsForTokens
    <3> QED
      BY <3>1 DEF Find, byToken
  <2> QED
    BY <2>1, <2>2
<1>4. ASSUME NEW id \in Stored, Covered(rows[id], tokens) # {}
      PROVE  id \in Find(tokens)
  <2>1. PICK i \in MatchesAny(rows[id], tokens) : TRUE
    BY <1>4 DEF Covered
  <2>2. /\ i \in DOMAIN tokens
        /\ \/ tokens[i] \in ToSet(rows[id].title)
           \/ tokens[i] \in ToSet(rows[id].alt)
           \/ tokens[i] \in ToSet(rows[id].words)
    BY <2>1 DEF MatchesAny, Matches, makeSet, ToSet
  <2> QED
    BY <2>2 DEF Find
<1> QED
  BY <1>1, <1>3, <1>4 DEF Matching

\* What a search returns.
LEMMA Search ==
  ASSUME NEW tokens, IsPhrase(tokens), NEW limit \in Nat
  PROVE  LET r == rangComics(Find(tokens), tokens, limit)
             n == Cardinality(Matching(Stored, tokens))
             s == Ranked(Scored(Find(tokens), tokens))
             k == Min({limit, n})
         IN  /\ n \in Nat /\ k \in Nat /\ k <= n
             /\ r.total = n
             /\ r.list \in Seq(Matching(Stored, tokens))
             /\ Len(r.list) = k
             /\ \A i \in 1 .. k : r.list[i] = s[i]
<1> DEFINE scored == Scored(Find(tokens), tokens)
           matching == Matching(Stored, tokens)
           n == Cardinality(matching)
           s == Ranked(scored)
           k == Min({limit, n})
           r == rangComics(Find(tokens), tokens, limit)
<1>1. /\ n \in Nat /\ Cardinality(scored) = n
      /\ s \in [1 .. n -> matching]
  BY RankedList, Candidates
<1>2. k = IF limit <= n THEN limit ELSE n
  <2> HIDE DEF n
  <2> QED
    BY <1>1, MinOfTwo
<1>3. k \in Nat /\ k <= n
  <2> HIDE DEF n, k
  <2> QED
    BY <1>1, <1>2
<1>4. r.list = SubSeq(s, 1, k) /\ r.total = n
  BY <1>1 DEF rangComics
<1>5. /\ SubSeq(s, 1, k) \in Seq(matching)
      /\ Len(SubSeq(s, 1, k)) = k
      /\ \A i \in 1 .. k : SubSeq(s, 1, k)[i] = s[i]
  <2> HIDE DEF s, k, n, matching
  <2> QED
    BY <1>1, <1>3, Slice
<1> HIDE DEF r, s, k, n, matching
<1> QED
  BY <1>1, <1>3, <1>4, <1>5 DEF r, s, k, n, matching

\* TopMatches, on every table: the list that a search through SQL answers leaves
\* out no match that is better than one in it, holds as many as the limit and
\* the matches allow, and is in a strict order (service.go:49-78, 117-154).
THEOREM BestAreReturned == Spec => []TopMatches
<1>1. TopMatches
  <2> SUFFICES
        ASSUME NEW tokens \in Phrases, NEW limit \in 1 .. MaxLimit
        PROVE  LET list == FindAnswer(tokens, limit).list
                   matching == Matching(Stored, tokens)
               IN  /\ Len(list) = Min({limit, Cardinality(matching)})
                   /\ \A i, j \in 1 .. Len(list) :
                        i < j => Ahead(list[i], list[j], tokens)
                   /\ \A i \in 1 .. Len(list),
                         id \in matching \ ToSet(list) :
                        Ahead(list[i], id, tokens)
    BY DEF TopMatches
  <2> DEFINE r == rangComics(Find(tokens), tokens, limit)
             matching == Matching(Stored, tokens)
             n == Cardinality(matching)
             s == Ranked(Scored(Find(tokens), tokens))
             k == Min({limit, n})
  <2>1. IsPhrase(tokens) /\ limit \in Nat
    BY QueryAssumption
  <2>2. /\ n \in Nat /\ k \in Nat /\ k <= n
        /\ r.list \in Seq(matching)
        /\ Len(r.list) = k
        /\ \A i \in 1 .. k : r.list[i] = s[i]
    BY <2>1, Search
  <2>3. /\ \A i, j \in 1 .. n : i < j => Ahead(s[i], s[j], tokens)
        /\ \A id \in matching : \E i \in 1 .. n : s[i] = id
    BY <2>1, RankedList, Candidates
  <2>4. FindAnswer(tokens, limit).list = r.list
    BY DEF FindAnswer
  <2>5. Len(r.list) = Min({limit, Cardinality(Matching(Stored, tokens))})
    BY <2>2
  <2> HIDE DEF r, matching, n, s, k
  <2>6. ASSUME NEW i \in 1 .. Len(r.list), NEW j \in 1 .. Len(r.list), i < j
        PROVE  Ahead(r.list[i], r.list[j], tokens)
    <3>1. i \in 1 .. n /\ j \in 1 .. n /\ r.list[i] = s[i] /\ r.list[j] = s[j]
      BY <2>2
    <3> QED
      BY <2>3, <2>6, <3>1
  <2>7. ASSUME NEW i \in 1 .. Len(r.list),
               NEW id \in matching \ ToSet(r.list)
        PROVE  Ahead(r.list[i], id, tokens)
    <3>1. PICK j \in 1 .. n : s[j] = id
      BY <2>3
    <3>2. j \notin 1 .. k
      <4> SUFFICES ASSUME j \in 1 .. k
                   PROVE  FALSE
        OBVIOUS
      <4>1. j \in DOMAIN r.list /\ r.list[j] = id
        BY <2>2, <3>1
      <4> QED
        BY <4>1 DEF ToSet
    <3>3. i \in 1 .. n /\ i < j /\ r.list[i] = s[i]
      BY <2>2, <3>2
    <3> QED
      BY <2>3, <3>1, <3>3
  <2> QED
    BY <2>4, <2>5, <2>6, <2>7 DEF matching
<1> QED
  BY <1>1, PTL

\* SearchesAgree, on every table: the rows that array overlap selects are the
\* documents that the inverted index has for the phrase, so that both searches
\* answer one list, of which only the indexed search's total counts what the
\* limit left out (storage.go:44, index.go:21-80, service.go:76, 112).
THEOREM BothSearchesAgree == Spec => []SearchesAgree
<1>1. SearchesAgree
  <2> SUFFICES ASSUME NEW tokens \in Phrases, NEW limit \in 1 .. MaxLimit
               PROVE  LET sql == FindAnswer(tokens, limit)
                          indexed == IndexedAnswer(tokens, limit)
                          n == Cardinality(Matching(Stored, tokens))
                      IN  /\ sql.list = indexed.list
                          /\ indexed.total = n
                          /\ sql.total = Min({limit, indexed.total})
    BY DEF SearchesAgree
  <2> DEFINE r == rangComics(Find(tokens), tokens, limit)
             n == Cardinality(Matching(Stored, tokens))
  <2>1. IsPhrase(tokens) /\ limit \in Nat
    BY QueryAssumption
  <2>2. r.total = n /\ Len(r.list) = Min({limit, n})
    BY <2>1, Search
  <2>3. IndexedAnswer(tokens, limit) = r
    BY <2>1, Candidates DEF IndexedAnswer
  <2>4. /\ FindAnswer(tokens, limit).list = r.list
        /\ FindAnswer(tokens, limit).total = Len(r.list)
    BY DEF FindAnswer
  <2> HIDE DEF r, n
  <2> QED
    BY <2>2, <2>3, <2>4 DEF n
<1> QED
  BY <1>1, PTL

-----------------------------------------------------------------------------
(* Pages.                                                                  *)

Before(id) == Cardinality({x \in Stored : x < id})

\* The ids with at least "from" and fewer than "to" smaller ones.
Ids(from, to) == {id \in Stored : from <= Before(id) /\ Before(id) < to}

\* ORDER BY id puts an id behind exactly the smaller ones.
LEMMA ById ==
  LET s == InOrder(Stored, SmallerID)
  IN  /\ Count \in Nat
      /\ s \in [1 .. Count -> Stored]
      /\ \A i \in 1 .. Count : Before(s[i]) = i - 1
      /\ \A id \in Stored : \E i \in 1 .. Count : s[i] = id
<1>1. IsFiniteSet(Stored) /\ Stored \subseteq Nat
  BY StoredIDs
<1>2. \A x, y \in Stored : <<x, y>> \in SmallerID <=> x < y
  BY DEF SmallerID
<1> DEFINE S == Stored
           B == SmallerID
           s == InOrder(S, B)
           n == Cardinality(S)
<1>3. \A x \in S : Preceding(S, B, x) = {y \in S : y < x}
  BY <1>2 DEF Preceding
<1> HIDE DEF S, B
<1>4. StrictOrder(S, B)
  BY <1>1, <1>2 DEF StrictOrder, S, B
<1>5. /\ n \in Nat
      /\ s \in [1 .. n -> S]
      /\ \A i \in 1 .. n : Cardinality(Preceding(S, B, s[i])) = i - 1
      /\ \A x \in S : \E i \in 1 .. n : s[i] = x
  <2>1. IsFiniteSet(S)
    BY <1>1 DEF S
  <2> QED
    BY <1>4, <2>1, Sorts
<1> HIDE DEF s, n
<1>6. \A i \in 1 .. n : Cardinality({y \in S : y < s[i]}) = i - 1
  BY <1>3, <1>5
<1> QED
  BY <1>5, <1>6 DEF Before, Count, S, B, s, n

\* GetAll returns the ids with the right number of smaller ones.
LEMMA PageOf ==
  ASSUME NEW from \in Nat, NEW limit \in Nat \ {0}
  PROVE  /\ from < Count =>
              /\ GetAll(from, limit) \in Seq(IDs)
              /\ GetAll(from, limit) # << >>
              /\ ToSet(GetAll(from, limit)) = Ids(from, from + limit)
         /\ from >= Count =>
              GetAll(from, limit) = << >> /\ Ids(from, from + limit) = {}
<1> DEFINE s == InOrder(Stored, SmallerID)
           n == Count
           k == Min({from + limit, n})
           list == GetAll(from, limit)
<1>1. /\ n \in Nat
      /\ s \in [1 .. n -> Stored]
      /\ \A i \in 1 .. n : Before(s[i]) = i - 1
      /\ \A id \in Stored : \E i \in 1 .. n : s[i] = id
  BY ById
<1>2. list = SubSeq(s, from + 1, k)
  BY DEF GetAll
<1>3. k = IF from + limit <= n THEN from + limit ELSE n
  <2> HIDE DEF n
  <2> QED
    BY <1>1, MinOfTwo
<1> HIDE DEF s, n, k, list
<1>4. ASSUME from < n
      PROVE  /\ list \in Seq(IDs) /\ list # << >>
             /\ ToSet(list) = Ids(from, from + limit)
  <2>1. k \in Nat /\ from + 1 <= k /\ k <= n /\ k <= from + limit
    BY <1>1, <1>3, <1>4
  <2>2. /\ list \in Seq(Stored) /\ Len(list) = k - from
        /\ \A i \in 1 .. k - from : list[i] = s[from + i]
    <3>1. s \in [1 .. n -> Stored] /\ from + 1 \in Nat \ {0}
      BY <1>1
    <3>2. ASSUME NEW b \in Nat, b = from + 1
          PROVE  LET l == SubSeq(s, b, k)
                 IN  /\ l \in Seq(Stored)
                     /\ Len(l) = IF b <= k THEN k - b + 1 ELSE 0
                     /\ \A i \in 1 .. k - b + 1 : l[i] = s[b + i - 1]
      <4>1. b \in Nat \ {0}
        BY <3>2
      <4> QED
        BY <1>1, <2>1, <4>1, Slice
    <3>3. /\ list \in Seq(Stored)
          /\ Len(list) = IF from + 1 <= k THEN k - (from + 1) + 1 ELSE 0
          /\ \A i \in 1 .. k - (from + 1) + 1 : list[i] = s[(from + 1) + i - 1]
      BY <1>2, <3>1, <3>2
    <3>4. k - (from + 1) + 1 = k - from
      BY <2>1
    <3>5. \A i \in 1 .. k - from : (from + 1) + i - 1 = from + i
      BY <2>1
    <3> QED
      BY <2>1, <3>3, <3>4, <3>5
  <2>3. list \in Seq(IDs) /\ list # << >>
    <3>1. list \in Seq(IDs)
      BY <2>2, StoredIDs, SeqMonotonic
    <3>2. list # << >>
      BY <2>1, <2>2
    <3> QED
      BY <3>1, <3>2
  <2>4. DOMAIN list = 1 .. k - from
    BY <2>2
  <2>5. ASSUME NEW i \in DOMAIN list
        PROVE  list[i] \in Ids(from, from + limit)
    <3>1. i \in 1 .. k - from
      BY <2>4
    <3>2. /\ from + i \in 1 .. n
          /\ from <= from + i - 1 /\ from + i - 1 < from + limit
      <4>1. n \in Nat
        BY <1>1
      <4> QED
        BY <2>1, <3>1, <4>1
    <3>3. Before(list[i]) = from + i - 1 /\ list[i] \in Stored
      BY <1>1, <2>2, <3>1, <3>2
    <3> QED
      BY <3>2, <3>3 DEF Ids
  <2>6. ASSUME NEW id \in Ids(from, from + limit)
        PROVE  \E i \in DOMAIN list : list[i] = id
    <3>1. id \in Stored /\ from <= Before(id) /\ Before(id) < from + limit
      BY DEF Ids
    <3>2. PICK j \in 1 .. n : s[j] = id
      BY <1>1, <3>1
    <3>3. Before(id) = j - 1
      BY <1>1, <3>2
    <3>4. j - from \in 1 .. k - from
      BY <1>1, <1>3, <2>1, <3>1, <3>3
    <3>5. list[j - from] = id
      BY <1>1, <2>2, <3>2, <3>4
    <3> QED
      BY <2>4, <3>4, <3>5
  <2> QED
    BY <2>3, <2>5, <2>6 DEF ToSet
<1>6. ASSUME from >= n
      PROVE  list = << >>
  <2>1. k = n /\ k \in Int /\ from + 1 \in Int /\ k < from + 1
    BY <1>1, <1>3, <1>6
  <2> QED
    BY <1>2, <2>1, SubSeqEmpty
<1>5. ASSUME from >= n
      PROVE  Ids(from, from + limit) = {}
  <2> SUFFICES ASSUME NEW id \in Ids(from, from + limit)
               PROVE  FALSE
    OBVIOUS
  <2>1. id \in Stored /\ from <= Before(id)
    BY DEF Ids
  <2>2. PICK j \in 1 .. n : s[j] = id
    BY <1>1, <2>1
  <2>3. Before(id) = j - 1
    BY <1>1, <2>2
  <2> QED
    BY <1>1, <1>5, <2>1, <2>3
<1> QED
  BY <1>4, <1>5, <1>6 DEF n, list

\* The offset of a page, where the product fits.
LEMMA OffsetFits ==
  ASSUME NEW page \in Nat \ {0}, NEW limit \in Nat
  PROVE  /\ (page - 1) * limit \in Nat
         /\ page * limit = (page - 1) * limit + limit
         /\ Offset(page, limit) \in Nat
         /\ (page - 1) * limit < Word =>
              Offset(page, limit) = (page - 1) * limit
<1>1. (page - 1) * limit \in Nat
  OBVIOUS
<1>2. page * limit = (page - 1) * limit + limit
  OBVIOUS
<1>3. ASSUME NEW p \in Nat
      PROVE  p % Word \in Nat /\ (p < Word => p % Word = p)
  BY QueryAssumption
<1> QED
  BY <1>1, <1>2, <1>3 DEF Offset

-----------------------------------------------------------------------------
(* Queries under way.                                                      *)

Kinds == {"none", "find", "byid", "list", "random"}
Codes == {"none", "OK", "InvalidArgument", "NotFound", "Unavailable",
          "Internal"}
Queries ==
  [pc : {"read", "done"}, kind : Kinds, tokens : Phrases \cup {<< >>},
   page : Nat, limit : Nat, total : Nat, code : Codes, list : Seq(IDs),
   quiet : BOOLEAN, still : BOOLEAN, emptied : BOOLEAN, failed : BOOLEAN]

TableOK ==
  /\ rows \in [IDs -> Rows \cup {Absent}]
  /\ raced \in BOOLEAN

\* The total of a page: that of the table if nobody changed it, and no larger
\* unless it was emptied or raced.
TotalRight(q) ==
  /\ q.quiet => q.total = Count
  /\ q.pc = "read" /\ ~ q.emptied /\ ~ raced => q.total <= Count

\* A page: between its two statements it has a total that it does not exceed;
\* then the answer is the slice.
PageRight(q) ==
  q.kind = "list" =>
    /\ q.pc = "read" =>
         /\ q.page # 0 /\ q.limit # 0 /\ Offset(q.page, q.limit) < q.total
         /\ TotalRight(q)
    /\ /\ q.pc = "done" /\ q.code = "OK"
       /\ (q.page - 1) * q.limit < Word
       => /\ TotalRight(q)
          /\ q.still =>
               ToSet(q.list) = Ids((q.page - 1) * q.limit, q.page * q.limit)
          /\ ~ q.emptied /\ ~ raced /\ (q.page - 1) * q.limit < q.total =>
               q.list # << >>

\* RandomComic: the count it read is at most the number of rows, unless the
\* table was emptied or raced; and then the row at a smaller offset exists.
RandomRight(q) ==
  q.kind = "random" /\ ~ q.emptied /\ ~ raced =>
    /\ q.pc = "read" => q.total \in 1 .. Count
    /\ q.pc = "done" /\ q.code = "Internal" => q.failed

QueryInv ==
  /\ TableOK
  /\ query \in Queries
  /\ PageRight(query)
  /\ RandomRight(query)

\* The invariant contains both properties.
LEMMA QueryInvImplies == QueryInv => PageIsSlice /\ RandomFailsOnlyOnEmpty
<1> SUFFICES ASSUME QueryInv
             PROVE  PageIsSlice /\ RandomFailsOnlyOnEmpty
  OBVIOUS
<1>1. PageIsSlice
  BY DEF QueryInv, PageRight, TotalRight, PageIsSlice, Answers, Ids, Before
<1>2. RandomFailsOnlyOnEmpty
  BY DEF QueryInv, RandomRight, RandomFailsOnlyOnEmpty, Answers, TableOK,
         Queries
<1> QED
  BY <1>1, <1>2

\* Before the first call.
LEMMA NoQueryFacts ==
  /\ NoQuery \in Queries
  /\ NoQuery.pc = "done" /\ NoQuery.kind = "none" /\ NoQuery.quiet = TRUE
  /\ NoQuery.failed = FALSE
  BY DEF NoQuery, Queries, Kinds, Codes

\* A call that has just begun has seen nothing, failed at nothing and missed
\* no change.
LEMMA BeginFacts ==
  ASSUME NEW kind \in Kinds
  PROVE  /\ Begin(kind) \in Queries
         /\ Begin(kind).pc = "read" /\ Begin(kind).kind = kind
         /\ Begin(kind).quiet = TRUE /\ Begin(kind).failed = FALSE
         /\ Begin(kind).emptied = (Stored = {})
<1>1. (Stored = {}) \in BOOLEAN
  OBVIOUS
<1>2. NoQuery \in Queries /\ NoQuery.quiet = TRUE /\ NoQuery.failed = FALSE
  BY NoQueryFacts
<1> QED
  BY <1>1, <1>2 DEF Begin, Queries

\* An answer keeps what the query asked and what happened meanwhile.
LEMMA AnsweredFacts ==
  ASSUME NEW q \in Queries, NEW code \in Codes, NEW list \in Seq(IDs),
         NEW total \in Nat
  PROVE  LET a == Answered(q, code, list, total)
         IN  /\ a \in Queries
             /\ a.pc = "done" /\ a.kind = q.kind /\ a.code = code
             /\ a.list = list /\ a.total = total
             /\ a.page = q.page /\ a.limit = q.limit
             /\ a.quiet = q.quiet /\ a.emptied = q.emptied
             /\ a.failed = q.failed
  BY DEF Answered, Queries

\* Queries of the other two kinds are right whatever they answer.
LEMMA OtherKinds ==
  ASSUME NEW q \in Queries, q.kind \notin {"list", "random"}
  PROVE  PageRight(q) /\ RandomRight(q)
  BY DEF PageRight, RandomRight

\* An answer that is not OK is right for a page, and for RandomComic when its
\* statement failed.
LEMMA FailedAnswers ==
  ASSUME NEW q \in Queries, q.pc = "done", q.code # "OK",
         q.kind = "random" /\ q.code = "Internal" => q.failed \/ q.emptied
  PROVE  PageRight(q) /\ RandomRight(q)
  BY DEF PageRight, RandomRight

\* It is enough to look at the query when the table does not change.
LEMMA SameTable ==
  ASSUME TableOK, UNCHANGED tableVars, query' \in Queries,
         PageRight(query'), RandomRight(query')
  PROVE  QueryInv'
<1>1. Stored' = Stored /\ raced' = raced /\ rows' = rows
  BY DEF Stored, tableVars
<1>2. Count' = Count
  BY <1>1 DEF Count
<1>3. \A from, to : Ids(from, to)' = Ids(from, to)
  BY <1>1 DEF Ids, Before
<1>4. PageRight(query)'
  BY <1>1, <1>2, <1>3 DEF PageRight, TotalRight
<1>5. RandomRight(query)'
  BY <1>1, <1>2 DEF RandomRight
<1>6. TableOK'
  BY <1>1 DEF TableOK
<1> QED
  BY <1>4, <1>5, <1>6 DEF QueryInv, Queries

\* The limit that a page is cut with is never zero.
LEMMA Limit ==
  ASSUME NEW l \in Limits
  PROVE  OrDefault(l) \in Nat \ {0}
<1>1. l \in Nat
  BY QueryAssumption
<1> QED
  BY <1>1, QueryAssumption DEF OrDefault

\* The list of an answer without comics.
LEMMA EmptyList == << >> \in Seq(IDs)
  OBVIOUS

\* AnsweredFacts for an answer without comics.
LEMMA EmptyAnswer ==
  ASSUME NEW q \in Queries, NEW code \in Codes
  PROVE  LET a == Answered(q, code, << >>, 0)
         IN  /\ a \in Queries
             /\ a.pc = "done" /\ a.kind = q.kind /\ a.code = code
             /\ a.list = << >> /\ a.total = 0
             /\ a.emptied = q.emptied /\ a.failed = q.failed
<1>1. PICK e \in Seq(IDs) : e = << >>
  BY EmptyList
<1>2. PICK n \in Nat : n = 0
  OBVIOUS
<1>3. LET a == Answered(q, code, e, n)
      IN  /\ a \in Queries
          /\ a.pc = "done" /\ a.kind = q.kind /\ a.code = code
          /\ a.list = e /\ a.total = n
          /\ a.emptied = q.emptied /\ a.failed = q.failed
  BY AnsweredFacts
<1> QED
  BY <1>1, <1>2, <1>3

\* A search that begins: a bad argument ends it, an empty phrase too.
LEMMA FindBeginStep ==
  ASSUME QueryInv, FindBegin
  PROVE  QueryInv'
<1>1. UNCHANGED tableVars /\ TableOK
  BY DEF FindBegin, QueryInv
<1>2. PICK limit \in Limits, tokens \in Phrases \cup {<< >>} :
        LET q == [Begin("find") EXCEPT !.tokens = tokens,
                                       !.limit = OrDefault(limit)]
        IN  \/ \E code \in {"InvalidArgument", "Unavailable", "Internal"} :
                 query' = Answered(q, code, << >>, 0)
            \/ query' = q
  BY DEF FindBegin
<1> DEFINE q == [Begin("find") EXCEPT !.tokens = tokens,
                                      !.limit = OrDefault(limit)]
<1>3. q \in Queries /\ q.kind = "find"
  <2>1. "find" \in Kinds
    BY DEF Kinds
  <2>2. Begin("find") \in Queries /\ Begin("find").kind = "find"
    BY <2>1, BeginFacts
  <2>3. OrDefault(limit) \in Nat
    BY Limit
  <2> QED
    BY <2>2, <2>3 DEF Queries
<1> HIDE DEF q
<1>4. query' \in Queries /\ query'.kind = "find"
  <2>1. CASE query' = q
    BY <1>3, <2>1
  <2>2. ASSUME NEW code \in {"InvalidArgument", "Unavailable", "Internal"},
               query' = Answered(q, code, << >>, 0)
        PROVE  query' \in Queries /\ query'.kind = "find"
    <3>1. code \in Codes
      BY DEF Codes
    <3> QED
      BY <1>3, <2>2, <3>1, EmptyAnswer
  <2> QED
    BY <1>2, <2>1, <2>2 DEF q
<1> QED
  BY <1>1, <1>4, OtherKinds, SameTable

\* Find and IndexedSearch touch no page and no random comic.
LEMMA FindReadStep ==
  ASSUME QueryInv, FindRead
  PROVE  QueryInv'
<1>1. UNCHANGED tableVars /\ TableOK /\ query \in Queries
  BY DEF FindRead, QueryInv
<1> DEFINE r == rangComics(Find(query.tokens), query.tokens, query.limit)
<1>2. query.kind = "find" /\ query' = Answered(query, "OK", r.list, Len(r.list))
  BY DEF FindRead, FindAnswer
<1>3. IsPhrase(query.tokens) /\ query.limit \in Nat
  <2>1. query.tokens \in Phrases \cup {<< >>} /\ query.limit \in Nat
    BY <1>1 DEF Queries
  <2>2. IsPhrase(<< >>)
    BY DEF IsPhrase
  <2> QED
    BY <2>1, <2>2, QueryAssumption
<1>4. r.list \in Seq(IDs) /\ Len(r.list) \in Nat
  <2> DEFINE m == Matching(Stored, query.tokens)
  <2>1. r.list \in Seq(m)
    BY <1>3, Search
  <2>2. m \subseteq IDs
    BY StoredIDs DEF Matching
  <2> HIDE DEF r, m
  <2>3. r.list \in Seq(IDs)
    BY <2>1, <2>2, SeqMonotonic
  <2> QED
    BY <2>3
<1> HIDE DEF r
<1>5. query' \in Queries /\ query'.kind = "find"
  <2>1. "OK" \in Codes
    BY DEF Codes
  <2> DEFINE l == r.list
             n == Len(l)
  <2>2. l \in Seq(IDs) /\ n \in Nat
    BY <1>4
  <2> HIDE DEF l, n
  <2>3. /\ Answered(query, "OK", l, n) \in Queries
        /\ Answered(query, "OK", l, n).kind = query.kind
    BY <1>1, <2>1, <2>2, AnsweredFacts
  <2> QED
    BY <1>2, <2>3 DEF l, n
<1> QED
  BY <1>1, <1>5, OtherKinds, SameTable

\* GetComicByID touches no page and no random comic.
LEMMA GetComicByIDStep ==
  ASSUME QueryInv, GetComicByID
  PROVE  QueryInv'
<1>1. UNCHANGED tableVars /\ TableOK
  BY DEF GetComicByID, QueryInv
<1> DEFINE q == Begin("byid")
<1>2. q \in Queries /\ q.kind = "byid"
  BY BeginFacts DEF Kinds
<1>3. \E code \in Codes, list \in Seq(IDs), total \in Nat :
        query' = Answered(q, code, list, total)
  <2>1. PICK id \in {0} \cup IDs :
          \/ query' = Answered(q, "InvalidArgument", << >>, 0)
          \/ id \in Stored /\ query' = Answered(q, "OK", <<id>>, 1)
          \/ query' = Answered(q, "NotFound", << >>, 0)
    BY DEF GetComicByID
  <2>2. \A x \in Stored : <<x>> \in Seq(IDs)
    BY StoredIDs
  <2>3. {"InvalidArgument", "NotFound", "OK"} \subseteq Codes
    BY DEF Codes
  <2> HIDE DEF q
  <2> QED
    BY <2>1, <2>2, <2>3, EmptyList
<1> HIDE DEF q
<1>4. query' \in Queries /\ query'.kind = "byid"
  BY <1>2, <1>3, AnsweredFacts
<1> QED
  BY <1>1, <1>4, OtherKinds, SameTable

\* A statement that fails is an excuse for RandomComic and ends a page.
LEMMA ReadFailsStep ==
  ASSUME QueryInv, ReadFails
  PROVE  QueryInv'
<1>1. UNCHANGED tableVars /\ TableOK /\ query \in Queries
  BY DEF ReadFails, QueryInv
<1>2. PICK q \in Queries :
        query' = [Answered(q, "Internal", << >>, 0) EXCEPT !.failed = TRUE]
  <2>1. \A kind \in {"byid", "list", "random"} : Begin(kind) \in Queries
    BY BeginFacts DEF Kinds
  <2> QED
    BY <1>1, <2>1 DEF ReadFails
<1> DEFINE a == Answered(q, "Internal", << >>, 0)
<1>3. a \in Queries /\ a.pc = "done" /\ a.code = "Internal"
  BY EmptyAnswer DEF Codes
<1> HIDE DEF a
<1>4. query' = [a EXCEPT !.failed = TRUE]
  BY <1>2 DEF a
<1>5. /\ query' \in Queries /\ query'.pc = "done"
      /\ query'.code = "Internal" /\ query'.failed = TRUE
  BY <1>3, <1>4 DEF Queries
<1> QED
  BY <1>1, <1>5, FailedAnswers, SameTable

\* The count of a page, true of the table at this moment.
LEMMA ListCountStep ==
  ASSUME QueryInv, ListCount
  PROVE  QueryInv'
<1>1. UNCHANGED tableVars /\ TableOK
  BY DEF ListCount, QueryInv
<1>2. PICK p \in Pages, l \in Limits :
        LET q == [Begin("list") EXCEPT !.page = IF p = 0 THEN 1 ELSE p,
                                       !.limit = OrDefault(l)]
        IN  \/ query' = Answered(q, "InvalidArgument", << >>, 0)
            \/ /\ Offset(q.page, q.limit) >= Count
               /\ query' = Answered(q, "OK", << >>, Count)
            \/ /\ ~ (q.limit > MaxLimit)
               /\ ~ (q.limit <= MaxLimit /\ Offset(q.page, q.limit) >= Count)
               /\ query' = [q EXCEPT !.total = Count]
  BY DEF ListCount
<1> DEFINE page == IF p = 0 THEN 1 ELSE p
           limit == OrDefault(l)
           q == [Begin("list") EXCEPT !.page = page, !.limit = limit]
<1>3. page \in Nat \ {0} /\ limit \in Nat \ {0}
  <2>1. p \in Nat
    BY QueryAssumption
  <2> QED
    BY <2>1, Limit
<1> HIDE DEF page, limit
<1>4. /\ q \in Queries /\ q.kind = "list" /\ q.pc = "read"
      /\ q.page = page /\ q.limit = limit /\ q.quiet = TRUE
  <2>1. /\ Begin("list") \in Queries /\ Begin("list").kind = "list"
        /\ Begin("list").pc = "read" /\ Begin("list").quiet = TRUE
    BY BeginFacts DEF Kinds
  <2> QED
    BY <1>3, <2>1 DEF Queries
<1>5. \/ query' = Answered(q, "InvalidArgument", << >>, 0)
      \/ /\ Offset(page, limit) >= Count
         /\ query' = Answered(q, "OK", << >>, Count)
      \/ /\ ~ (limit > MaxLimit)
         /\ ~ (limit <= MaxLimit /\ Offset(page, limit) >= Count)
         /\ query' = [q EXCEPT !.total = Count]
  BY <1>2, <1>4 DEF page, limit
<1> HIDE DEF q
<1>6. Count \in Nat
  BY ById
<1>7. /\ (page - 1) * limit \in Nat
      /\ page * limit = (page - 1) * limit + limit
      /\ Offset(page, limit) \in Nat
      /\ (page - 1) * limit < Word =>
           Offset(page, limit) = (page - 1) * limit
  BY <1>3, OffsetFits
<1>8. CASE query' = Answered(q, "InvalidArgument", << >>, 0)
  <2>1. /\ query' \in Queries /\ query'.pc = "done" /\ query'.kind = "list"
        /\ query'.code = "InvalidArgument"
    BY <1>4, <1>8, EmptyAnswer DEF Codes
  <2> QED
    BY <1>1, <2>1, FailedAnswers, SameTable
<1>9. CASE /\ Offset(page, limit) >= Count
           /\ query' = Answered(q, "OK", << >>, Count)
  <2>1. /\ query' \in Queries /\ query'.pc = "done" /\ query'.kind = "list"
        /\ query'.page = page /\ query'.limit = limit
        /\ query'.total = Count /\ query'.list = << >>
    <3>1. PICK e \in Seq(IDs) : e = << >>
      BY EmptyList
    <3>2. "OK" \in Codes
      BY DEF Codes
    <3>3. LET a == Answered(q, "OK", e, Count)
          IN  /\ a \in Queries /\ a.pc = "done" /\ a.kind = q.kind
              /\ a.page = q.page /\ a.limit = q.limit
              /\ a.total = Count /\ a.list = e
      BY <1>4, <1>6, <3>2, AnsweredFacts
    <3> QED
      BY <1>4, <1>9, <3>1, <3>3
  <2>2. ToSet(query'.list) = {}
    BY <2>1 DEF ToSet
  <2>3. ASSUME (page - 1) * limit < Word
        PROVE  Ids((page - 1) * limit, page * limit) = {}
    <3> DEFINE from == (page - 1) * limit
    <3>1. from \in Nat /\ from >= Count /\ page * limit = from + limit
      BY <1>7, <1>9, <2>3
    <3> HIDE DEF from
    <3> QED
      BY <1>3, <3>1, PageOf DEF from
  <2>4. ASSUME (page - 1) * limit < Word
        PROVE  ~ ((page - 1) * limit < Count)
    <3> DEFINE from == (page - 1) * limit
    <3>1. from \in Nat /\ from >= Count
      BY <1>7, <1>9, <2>4
    <3> HIDE DEF from
    <3>2. ~ (from < Count)
      BY <1>6, <3>1
    <3> QED
      BY <3>2 DEF from
  <2>5. PageRight(query')
    BY <2>1, <2>2, <2>3, <2>4 DEF PageRight, TotalRight
  <2>6. RandomRight(query')
    BY <2>1 DEF RandomRight
  <2> QED
    BY <1>1, <2>1, <2>5, <2>6, SameTable
<1>10. CASE /\ ~ (limit > MaxLimit)
            /\ ~ (limit <= MaxLimit /\ Offset(page, limit) >= Count)
            /\ query' = [q EXCEPT !.total = Count]
  <2>1. Offset(page, limit) < Count
    BY <1>3, <1>6, <1>7, <1>10, QueryAssumption
  <2>2. /\ query' \in Queries /\ query'.pc = "read" /\ query'.kind = "list"
        /\ query'.page = page /\ query'.limit = limit
        /\ query'.total = Count
    BY <1>4, <1>6, <1>10 DEF Queries
  <2>3. PageRight(query')
    BY <1>3, <1>6, <2>1, <2>2 DEF PageRight, TotalRight
  <2>4. RandomRight(query')
    BY <2>2 DEF RandomRight
  <2> QED
    BY <1>1, <2>2, <2>3, <2>4, SameTable
<1> QED
  BY <1>5, <1>8, <1>9, <1>10

\* The rows of a page: still those of the count, unless the table changed.
LEMMA ListReadStep ==
  ASSUME QueryInv, ListRead
  PROVE  QueryInv'
<1>1. UNCHANGED tableVars /\ TableOK /\ query \in Queries /\ PageRight(query)
  BY DEF ListRead, QueryInv
<1> DEFINE page == query.page
           limit == query.limit
           total == query.total
           from == Offset(page, limit)
           list == GetAll(from, limit)
<1>2. /\ query.pc = "read" /\ query.kind = "list"
      /\ query' = Answered(query, "OK", list, total)
  BY DEF ListRead
<1>3. page \in Nat \ {0} /\ limit \in Nat \ {0} /\ total \in Nat
  BY <1>1, <1>2 DEF PageRight, Queries
<1>4. /\ from < total
      /\ query.quiet => total = Count
      /\ ~ query.emptied /\ ~ raced => total <= Count
  BY <1>1, <1>2 DEF PageRight, TotalRight
<1>5. /\ (page - 1) * limit \in Nat
      /\ page * limit = (page - 1) * limit + limit
      /\ from \in Nat
      /\ (page - 1) * limit < Word => from = (page - 1) * limit
  <2> HIDE DEF page, limit
  <2> QED
    BY <1>3, OffsetFits
<1>6. Count \in Nat
  BY ById
<1> HIDE DEF page, limit, total, from, list
<1>7. /\ from < Count => /\ list \in Seq(IDs) /\ list # << >>
                         /\ ToSet(list) = Ids(from, from + limit)
      /\ from >= Count => list = << >> /\ Ids(from, from + limit) = {}
  BY <1>3, <1>5, PageOf DEF list
<1>8. list \in Seq(IDs)
  <2>1. from < Count \/ from >= Count
    BY <1>5, <1>6
  <2>2. list = << >> => list \in Seq(IDs)
    BY EmptyList
  <2> QED
    BY <1>7, <2>1, <2>2
<1>9. /\ query' \in Queries /\ query'.pc = "done" /\ query'.kind = "list"
      /\ query'.page = page /\ query'.limit = limit
      /\ query'.quiet = query.quiet /\ query'.emptied = query.emptied
      /\ query'.total = total /\ query'.list = list
  <2>1. "OK" \in Codes
    BY DEF Codes
  <2>2. LET a == Answered(query, "OK", list, total)
        IN  /\ a \in Queries /\ a.pc = "done" /\ a.kind = query.kind
            /\ a.page = query.page /\ a.limit = query.limit
            /\ a.quiet = query.quiet /\ a.emptied = query.emptied
            /\ a.total = total /\ a.list = list
    BY <1>1, <1>3, <1>8, <2>1, AnsweredFacts
  <2> QED
    BY <1>2, <2>2 DEF page, limit
<1>10. PageRight(query')
  <2>1. query'.quiet => query'.total = Count
    BY <1>4, <1>9
  <2>2. ASSUME (page - 1) * limit < Word
        PROVE  ToSet(list) = Ids((page - 1) * limit, page * limit)
    <3>1. from = (page - 1) * limit /\ from + limit = page * limit
      BY <1>5, <2>2
    <3>2. ToSet(list) = Ids(from, from + limit)
      <4>1. from < Count \/ from >= Count
        BY <1>5, <1>6
      <4>2. list = << >> => ToSet(list) = {}
        BY DEF ToSet
      <4> QED
        BY <1>7, <4>1, <4>2
    <3> QED
      BY <3>1, <3>2
  <2>3. ASSUME ~ query.emptied, ~ raced
        PROVE  list # << >>
    <3>1. from < Count
      BY <1>3, <1>4, <1>5, <1>6, <2>3
    <3> QED
      BY <1>7, <3>1
  <2> QED
    BY <1>9, <2>1, <2>2, <2>3 DEF PageRight, TotalRight
<1>11. RandomRight(query')
  BY <1>9 DEF RandomRight
<1> QED
  BY <1>1, <1>9, <1>10, <1>11, SameTable

\* The count of RandomComic.
LEMMA RandomCountStep ==
  ASSUME QueryInv, RandomCount
  PROVE  QueryInv'
<1>1. UNCHANGED tableVars /\ TableOK
  BY DEF RandomCount, QueryInv
<1> DEFINE q == Begin("random")
<1>2. /\ q \in Queries /\ q.kind = "random" /\ q.pc = "read"
      /\ q.emptied = (Stored = {})
  BY BeginFacts DEF Kinds
<1>3. Count \in Nat /\ (Count = 0 => Stored = {})
  BY StoredIDs, FS_EmptySet DEF Count
<1>4. \/ Count = 0 /\ query' = Answered(q, "Internal", << >>, 0)
      \/ Count # 0 /\ query' = [q EXCEPT !.total = Count]
  BY DEF RandomCount
<1> HIDE DEF q
<1>5. CASE Count = 0 /\ query' = Answered(q, "Internal", << >>, 0)
  <2>1. /\ query' \in Queries /\ query'.pc = "done"
        /\ query'.code = "Internal" /\ query'.emptied = q.emptied
    BY <1>2, <1>5, EmptyAnswer DEF Codes
  <2>2. q.emptied
    BY <1>2, <1>3, <1>5
  <2> QED
    BY <1>1, <2>1, <2>2, FailedAnswers, SameTable
<1>6. CASE Count # 0 /\ query' = [q EXCEPT !.total = Count]
  <2>1. /\ query' \in Queries /\ query'.pc = "read" /\ query'.kind = "random"
        /\ query'.total = Count
    BY <1>2, <1>3, <1>6 DEF Queries
  <2>2. Count \in 1 .. Count
    BY <1>3, <1>6
  <2>3. PageRight(query') /\ RandomRight(query')
    BY <2>1, <2>2 DEF PageRight, RandomRight
  <2> QED
    BY <1>1, <2>1, <2>3, SameTable
<1> QED
  BY <1>4, <1>5, <1>6

\* The row of RandomComic: the offset is below the count, and the table has not
\* shrunk since unless it was emptied or raced.
LEMMA RandomReadStep ==
  ASSUME QueryInv, RandomRead
  PROVE  QueryInv'
<1>1. UNCHANGED tableVars /\ TableOK /\ query \in Queries /\ RandomRight(query)
  BY DEF RandomRead, QueryInv
<1>2. query.pc = "read" /\ query.kind = "random" /\ query.total \in Nat
  BY <1>1 DEF RandomRead, Queries
<1>3. PICK n \in 0 .. query.total - 1 :
        query' = Answered(query,
                          IF GetAll(n, 1) = << >> THEN "Internal" ELSE "OK",
                          GetAll(n, 1), query.total)
  BY DEF RandomRead
<1> DEFINE list == GetAll(n, 1)
           code == IF list = << >> THEN "Internal" ELSE "OK"
           total == query.total
<1>4. n \in Nat /\ n < query.total
  BY <1>2
<1>5. Count \in Nat
  BY ById
<1>6. /\ n < Count => list \in Seq(IDs) /\ list # << >>
      /\ n >= Count => list = << >>
  <2>1. PICK one \in Nat \ {0} : one = 1
    OBVIOUS
  <2>2. /\ n < Count => GetAll(n, one) \in Seq(IDs) /\ GetAll(n, one) # << >>
        /\ n >= Count => GetAll(n, one) = << >>
    BY <1>4, PageOf
  <2> QED
    BY <2>1, <2>2
<1>7. code \in Codes
  BY DEF Codes
<1> HIDE DEF list
<1>8. list \in Seq(IDs)
  <2>1. n < Count \/ n >= Count
    BY <1>4, <1>5
  <2>2. list = << >> => list \in Seq(IDs)
    BY EmptyList
  <2> QED
    BY <1>6, <2>1, <2>2
<1>9. /\ query' \in Queries /\ query'.pc = "done" /\ query'.kind = "random"
      /\ query'.code = code /\ query'.emptied = query.emptied
  <2> HIDE DEF code, total
  <2>1. query' = Answered(query, code, list, total)
    BY <1>3 DEF code, list, total
  <2>2. total \in Nat
    BY <1>2 DEF total
  <2>3. LET a == Answered(query, code, list, total)
        IN  /\ a \in Queries /\ a.pc = "done" /\ a.kind = query.kind
            /\ a.code = code /\ a.emptied = query.emptied
    BY <1>1, <1>7, <1>8, <2>2, AnsweredFacts
  <2> QED
    BY <1>2, <2>1, <2>3
<1>10. ~ query.emptied /\ ~ raced => code = "OK"
  <2> SUFFICES ASSUME ~ query.emptied, ~ raced
               PROVE  code = "OK"
    OBVIOUS
  <2>1. query.total \in 1 .. Count
    BY <1>1, <1>2 DEF RandomRight
  <2>2. n < Count
    BY <1>2, <1>4, <1>5, <2>1
  <2> QED
    BY <1>6, <2>2
<1> HIDE DEF code
<1>11. PageRight(query') /\ RandomRight(query')
  BY <1>9, <1>10 DEF PageRight, RandomRight
<1> QED
  BY <1>1, <1>9, <1>11, SameTable

\* While no given-up statement takes effect and the table is not emptied, no
\* row goes away.
LEMMA TableGrows ==
  ASSUME TableOK, TableNext
  PROVE  /\ TableOK'
         /\ ~ raced' => /\ ~ raced
                        /\ rows' = EmptyTable \/ Stored \subseteq Stored'
<1>1. CASE \E r \in Updates \cup Drops : Acquire(r)
  BY <1>1 DEF Acquire, TableOK, Stored
<1>2. CASE Release
  BY <1>2 DEF Release, TableOK, Stored
<1>3. ASSUME NEW id \in IDs, NEW r \in Rows, AddRow(id, r)
      PROVE  /\ TableOK' /\ raced' = raced
             /\ Stored \subseteq Stored'
  <2>1. rows' = [rows EXCEPT ![id] = r] /\ raced' = raced
    BY <1>3 DEF AddRow
  <2>2. \A x \in IDs : rows'[x] = IF x = id THEN r ELSE rows[x]
    BY <2>1 DEF TableOK
  <2>3. r # Absent
    BY QueryAssumption
  <2>4. Stored \subseteq Stored'
    BY <2>2, <2>3 DEF Stored
  <2>5. TableOK'
    BY <2>1 DEF TableOK
  <2> QED
    BY <2>1, <2>4, <2>5
<1>4. CASE Truncate
  BY <1>4 DEF Truncate, TableOK, EmptyTable
<1>5. CASE LateStatement
  BY <1>5 DEF LateStatement, TableOK, EmptyTable
<1>6. CASE Publish
  BY <1>6 DEF Publish, TableOK, Stored
<1> QED
  BY <1>1, <1>2, <1>3, <1>4, <1>5, <1>6 DEF TableNext

\* The update service between two statements.
LEMMA TableStepStep ==
  ASSUME QueryInv, TableStep
  PROVE  QueryInv'
<1>1. TableOK /\ query \in Queries /\ PageRight(query) /\ RandomRight(query)
  BY DEF QueryInv
<1>2. /\ TableOK'
      /\ ~ raced' => /\ ~ raced
                     /\ rows' = EmptyTable \/ Stored \subseteq Stored'
  BY <1>1, TableGrows DEF TableStep
<1> DEFINE quiet == query.quiet /\ rows' = rows
           still == query.still /\ rows' = rows
           emptied == query.emptied \/ (query.pc = "read" /\ rows' = EmptyTable)
<1>3. query' = [query EXCEPT !.quiet = quiet, !.still = still,
                             !.emptied = emptied]
  BY DEF TableStep
<1>4. quiet \in BOOLEAN /\ still \in BOOLEAN /\ emptied \in BOOLEAN
  BY <1>1 DEF Queries
<1> HIDE DEF quiet, still, emptied
<1>5. /\ query' \in Queries
      /\ query'.pc = query.pc /\ query'.kind = query.kind
      /\ query'.page = query.page /\ query'.limit = query.limit
      /\ query'.total = query.total /\ query'.list = query.list
      /\ query'.code = query.code /\ query'.failed = query.failed
      /\ query'.quiet = quiet /\ query'.still = still
      /\ query'.emptied = emptied
  BY <1>1, <1>3, <1>4 DEF Queries
<1>6. ASSUME query.pc = "read", ~ query'.emptied, ~ raced'
      PROVE  /\ ~ query.emptied /\ ~ raced
             /\ Count \in Nat /\ Count' \in Nat /\ Count <= Count'
  <2>1. ~ query.emptied /\ ~ raced /\ Stored \subseteq Stored'
    BY <1>2, <1>5, <1>6 DEF emptied
  <2>2. /\ IsFiniteSet(Stored') /\ Count' \in Nat /\ Count \in Nat
    <3>1. Stored' \subseteq IDs
      BY DEF Stored
    <3>2. IsFiniteSet(IDs)
      BY QueryAssumption, FS_Interval DEF IDs
    <3>3. IsFiniteSet(Stored')
      BY <3>1, <3>2, FS_Subset
    <3> QED
      BY <3>3, StoredIDs, FS_CardinalityType DEF Count
  <2>3. Count <= Count'
    BY <2>1, <2>2, FS_Subset DEF Count
  <2> QED
    BY <2>1, <2>2, <2>3
<1>7. PageRight(query)'
  <2>1. CASE rows' = rows
    <3>1. Stored' = Stored
      BY <2>1 DEF Stored
    <3>2. Count' = Count
      BY <3>1 DEF Count
    <3>3. \A from, to : Ids(from, to)' = Ids(from, to)
      BY <3>1 DEF Ids, Before
    <3>4. /\ quiet => query.quiet
          /\ still => query.still
          /\ ~ emptied => ~ query.emptied
          /\ ~ raced' => ~ raced
      BY <1>2 DEF quiet, still, emptied
    <3> QED
      BY <1>1, <1>5, <3>2, <3>3, <3>4 DEF PageRight, TotalRight
  <2>2. CASE rows' # rows
    <3>1. ~ query'.quiet /\ ~ query'.still
      BY <1>5, <2>2 DEF quiet, still
    <3>2. /\ ~ emptied => ~ query.emptied
          /\ ~ raced' => ~ raced
      BY <1>2 DEF emptied
    <3>3. CASE query.pc = "read"
      <4>1. query.kind = "list" => query.total \in Nat /\ query'.pc = "read"
        BY <1>1, <1>5, <3>3 DEF Queries
      <4> QED
        BY <1>1, <1>5, <1>6, <3>1, <3>3, <4>1 DEF PageRight, TotalRight
    <3>4. CASE query.pc # "read"
      BY <1>1, <1>5, <3>1, <3>2, <3>4 DEF PageRight, TotalRight
    <3> QED
      BY <3>3, <3>4
  <2> QED
    BY <2>1, <2>2
<1>8. RandomRight(query)'
  <2> SUFFICES ASSUME query'.kind = "random", ~ query'.emptied, ~ raced'
               PROVE  /\ query'.pc = "read" => query'.total \in 1 .. Count'
                      /\ query'.pc = "done" /\ query'.code = "Internal" =>
                           query'.failed
    BY DEF RandomRight
  <2>1. ~ query.emptied /\ ~ raced /\ (query.pc = "read" => rows' # EmptyTable)
    BY <1>2, <1>5 DEF emptied
  <2>2. /\ query.pc = "read" => query.total \in 1 .. Count
        /\ query.pc = "done" /\ query.code = "Internal" => query.failed
    BY <1>1, <1>5, <2>1 DEF RandomRight
  <2>3. ASSUME query.pc = "read"
        PROVE  query.total \in 1 .. Count'
    <3>1. Count \in Nat /\ Count' \in Nat /\ Count <= Count'
      BY <1>6, <2>3
    <3> QED
      BY <2>2, <2>3, <3>1
  <2> QED
    BY <1>5, <2>2, <2>3
<1> QED
  BY <1>2, <1>5, <1>7, <1>8 DEF QueryInv, Queries

\* The invariant holds at first.
LEMMA QueryInit == Init => QueryInv
<1> SUFFICES ASSUME Init
             PROVE  QueryInv
  OBVIOUS
<1>1. TableOK /\ query = NoQuery
  BY DEF Init, TableInit, TableOK
<1> QED
  BY <1>1, NoQueryFacts, OtherKinds DEF QueryInv

\* Every step of a query and of the update service preserves it.
LEMMA QueryNext == QueryInv /\ [Next]_vars => QueryInv'
<1> SUFFICES ASSUME QueryInv, [Next]_vars
             PROVE  QueryInv'
  OBVIOUS
<1>1. CASE UNCHANGED vars
  <2>1. UNCHANGED tableVars /\ query' = query
    BY <1>1 DEF vars
  <2> QED
    BY <2>1, SameTable DEF QueryInv
<1>2. CASE Next
  BY <1>2, FindBeginStep, FindReadStep, GetComicByIDStep, ListCountStep,
     ListReadStep, RandomCountStep, RandomReadStep, ReadFailsStep,
     TableStepStep DEF Next
<1> QED
  BY <1>1, <1>2

\* Between any two statements of a query, whatever the update service does, the
\* count and the offset it holds are still those of the table, or it is on
\* record that the table changed.
THEOREM QueryInvariant == Spec => []QueryInv
  BY QueryInit, QueryNext, PTL DEF Spec

\* PageIsSlice: a page is exactly its slice of the ids, whatever happens between
\* its two statements, with the right total if nothing does, and not empty if
\* its total announces it and the table was not emptied, for every table, page
\* and limit whose product fits (service.go:218-246).
THEOREM PagesAreSlices == Spec => []PageIsSlice
<1>1. QueryInv => PageIsSlice
  BY QueryInvImplies
<1> QED
  BY <1>1, QueryInvariant, PTL

\* RandomFailsOnlyOnEmpty: RandomComic answers unless a statement failed, the
\* table was empty, or a given-up statement took effect (service.go:249-270).
THEOREM RandomAnswers == Spec => []RandomFailsOnlyOnEmpty
<1>1. QueryInv => RandomFailsOnlyOnEmpty
  BY QueryInvImplies
<1> QED
  BY <1>1, QueryInvariant, PTL

-----------------------------------------------------------------------------
(* Norm.  FoldLeft is a recursive function over the sets of positions; it  *)
(* exists and runs through the words one by one.                           *)

\* A set of numbers that is not empty has a least one.
LEMMA Least ==
  ASSUME NEW I \in SUBSET Nat, I # {}
  PROVE  \E m \in I : \A k \in I : m <= k
<1>1. \A k, m \in Nat : <<k, m>> \in OpToRel(<, Nat) <=> k < m
  <2>1. OpToRel(<, Nat) = {p \in Nat \X Nat : p[1] < p[2]}
    BY Zenon DEF OpToRel
  <2> QED
    BY <2>1
<1>2. \E m \in I : \A k \in I : ~ (<<k, m>> \in OpToRel(<, Nat))
  BY NatLessThanWellFounded, WFMin
<1>3. PICK m \in I : \A k \in I : ~ (k < m)
  BY <1>1, <1>2
<1> QED
  BY <1>3

\* Induction, for a set of numbers.
LEMMA Counting ==
  ASSUME NEW S, 0 \in S, \A n \in Nat : n \in S => n + 1 \in S
  PROVE  Nat \subseteq S
<1> DEFINE I == Nat \ S
<1>1. SUFFICES ASSUME I # {} PROVE FALSE
  OBVIOUS
<1>2. PICK m \in I : \A k \in I : m <= k
  <2>1. I \in SUBSET Nat
    OBVIOUS
  <2> HIDE DEF I
  <2> QED
    BY <1>1, <2>1, Least
<1>3. m # 0 /\ m - 1 \in Nat /\ m - 1 \notin I
  BY <1>2
<1> QED
  BY <1>3

\* Max is where FoldLeft goes on.
LEMMA MaxOf ==
  ASSUME NEW k \in Nat, NEW s \in SUBSET (1 .. k), k \in s
  PROVE  Max(s) = k
<1>1. \A y \in s : k >= y
  OBVIOUS
<1>2. \A x \in s : (\A y \in s : x >= y) => x = k
  OBVIOUS
<1>3. Max(s) \in s /\ \A y \in s : Max(s) >= y
  BY <1>1 DEF Max
<1> QED
  BY <1>2, <1>3

\* The loop, turn by turn: what FoldLeft computes.
LEMMA NormRuns ==
  ASSUME NEW W, NEW words \in Seq(W)
  PROVE  \E run : /\ run[0] = << >>
                  /\ \A i \in 1 .. Len(words) :
                       run[i] = NormTurn(run[i - 1], words[i])
                  /\ Norm(words) = run[Len(words)]
<1> DEFINE n == Len(words)
           Body(g, s) == IF s = {} THEN << >>
                         ELSE NormTurn(g[s \ {Max(s)}], words[Max(s)])
           Solves(g, k) == g = [s \in SUBSET (1 .. k) |-> Body(g, s)]
           K == {k \in Nat : \E g : Solves(g, k)}
           iter == CHOOSE g : Solves(g, n)
<1>0. n \in Nat /\ DOMAIN words = 1 .. n
  OBVIOUS
<1>1. Norm(words) = iter[1 .. n]
  BY <1>0 DEF Norm, FoldLeft, MapThenFoldSet
<1>2. \A k \in Nat : \A s \in SUBSET (1 .. k) : k \in s => Max(s) = k
  BY MaxOf
<1>3. 0 \in K
  <2> DEFINE g == [s \in SUBSET (1 .. 0) |-> << >>]
  <2>1. \A s \in SUBSET (1 .. 0) : s = {}
    OBVIOUS
  <2>2. Solves(g, 0)
    BY <2>1
  <2> HIDE DEF g, Solves
  <2> QED
    BY <2>2
<1>4. ASSUME NEW k \in Nat, k \in K
      PROVE  k + 1 \in K
  <2>1. PICK g : Solves(g, k)
    BY <1>4
  <2> DEFINE h == [s \in SUBSET (1 .. k + 1) |->
                     IF s \subseteq 1 .. k THEN g[s]
                     ELSE NormTurn(g[s \ {k + 1}], words[k + 1])]
  <2>2. ASSUME NEW s \in SUBSET (1 .. k + 1), s \subseteq 1 .. k
        PROVE  h[s] = Body(h, s)
    <3>1. h[s] = Body(g, s)
      BY <2>1, <2>2
    <3>2. s \ {Max(s)} \in SUBSET (1 .. k) /\ s \ {Max(s)} \in SUBSET (1 .. k + 1)
      BY <2>2
    <3>3. h[s \ {Max(s)}] = g[s \ {Max(s)}]
      BY <3>2
    <3> HIDE DEF h
    <3> QED
      BY <3>1, <3>3
  <2>3. ASSUME NEW s \in SUBSET (1 .. k + 1), ~ (s \subseteq 1 .. k)
        PROVE  h[s] = Body(h, s)
    <3>1. k + 1 \in s /\ k + 1 \in Nat
      BY <2>3
    <3>2. Max(s) = k + 1 /\ s # {}
      BY <1>2, <3>1
    <3>3. s \ {k + 1} \in SUBSET (1 .. k) /\ s \ {k + 1} \in SUBSET (1 .. k + 1)
      OBVIOUS
    <3>4. h[s \ {k + 1}] = g[s \ {k + 1}]
      BY <3>3
    <3>5. h[s] = NormTurn(g[s \ {k + 1}], words[k + 1])
      BY <2>3
    <3> HIDE DEF h
    <3> QED
      BY <3>2, <3>4, <3>5
  <2>4. Solves(h, k + 1)
    <3>1. \A s \in SUBSET (1 .. k + 1) : h[s] = Body(h, s)
      BY <2>2, <2>3
    <3>2. h = [s \in SUBSET (1 .. k + 1) |-> h[s]]
      OBVIOUS
    <3> HIDE DEF h, Body
    <3> QED
      BY <3>1, <3>2
  <2> HIDE DEF h, Solves
  <2> QED
    BY <2>4
<1>5. \E g : Solves(g, n)
  <2> HIDE DEF Solves
  <2>1. Nat \subseteq K
    <3> HIDE DEF K
    <3> QED
      BY <1>3, <1>4, Counting
  <2> QED
    BY <1>0, <2>1
<1>6. iter = [s \in SUBSET (1 .. n) |-> Body(iter, s)]
  <2>1. Solves(iter, n)
    <3> HIDE DEF Solves
    <3> QED
      BY <1>5
  <2> QED
    BY <2>1
<1> HIDE DEF iter, n
<1> DEFINE run == [i \in 0 .. n |-> iter[1 .. i]]
<1>7. run[0] = << >>
  <2>1. 1 .. 0 = {} /\ {} \in SUBSET (1 .. n) /\ 0 \in 0 .. n
    BY <1>0
  <2> QED
    BY <1>6, <2>1
<1>8. ASSUME NEW i \in 1 .. n
      PROVE  run[i] = NormTurn(run[i - 1], words[i])
  <2>1. /\ 1 .. i \in SUBSET (1 .. n) /\ i \in 1 .. i /\ i \in 0 .. n
        /\ i - 1 \in 0 .. n
    BY <1>0
  <2>2. (1 .. i) \ {i} = 1 .. (i - 1)
    BY <1>0
  <2>3. Max(1 .. i) = i
    BY <1>0, <1>2, <2>1
  <2>4. iter[1 .. i] = NormTurn(iter[1 .. (i - 1)], words[i])
    BY <1>6, <2>1, <2>2, <2>3
  <2> QED
    BY <2>1, <2>4
<1>9. Norm(words) = run[n]
  BY <1>0, <1>1
<1> HIDE DEF run
<1> QED
  BY <1>7, <1>8, <1>9 DEF n
-----------------------------------------------------------------------------
(* What the loop has after each turn.                                      *)

\* The positions of the words that are not dropped, and where a token comes
\* from.
Kept(words) == {i \in DOMAIN words : ~ Dropped(words[i])}
First(words, tok) ==
  CHOOSE i \in Kept(words) :
    Form(words[i]) = tok /\ \A j \in Kept(words) : Form(words[j]) = tok => i <= j

\* A token comes from somewhere.
LEMMA FirstFacts ==
  ASSUME NEW W, NEW words \in Seq(W), NEW i \in Kept(words)
  PROVE  LET f == First(words, Form(words[i]))
         IN  /\ f \in Kept(words) /\ f \in Nat /\ f <= i
             /\ Form(words[f]) = Form(words[i])
<1> DEFINE I == {j \in Kept(words) : Form(words[j]) = Form(words[i])}
<1>1. I \in SUBSET Nat /\ i \in I
  BY DEF Kept
<1>2. \E m \in I : \A k \in I : m <= k
  <2> HIDE DEF I
  <2> QED
    BY <1>1, Least
<1>3. \E m \in Kept(words) :
        /\ Form(words[m]) = Form(words[i])
        /\ \A j \in Kept(words) : Form(words[j]) = Form(words[i]) => m <= j
  BY <1>2
<1>4. Kept(words) \subseteq Nat
  BY <1>1 DEF Kept
<1> QED
  BY <1>3, <1>4 DEF First

\* A form that none of the words before has is first where it stands.
LEMMA FirstNew ==
  ASSUME NEW W, NEW words \in Seq(W), NEW i \in Kept(words),
         \A j \in Kept(words) : j < i => Form(words[j]) # Form(words[i])
  PROVE  First(words, Form(words[i])) = i
<1>1. Kept(words) \subseteq Nat
  BY DEF Kept
<1> QED
  BY <1>1, FirstFacts

\* Norm returns the forms of the words that are kept, in the order in which
\* they first occur.
LEMMA NormFacts ==
  ASSUME NEW W, NEW words \in Seq(W)
  PROVE  LET out == Norm(words)
         IN  /\ out \in Seq({Form(words[i]) : i \in Kept(words)})
             /\ ToSet(out) = {Form(words[i]) : i \in Kept(words)}
             /\ \A a, b \in DOMAIN out :
                  a < b => First(words, out[a]) < First(words, out[b])
<1> DEFINE n == Len(words)
           T == {Form(words[j]) : j \in Kept(words)}
           Upto(i) == {j \in Kept(words) : j <= i}
           At(tok) == First(words, tok)
<1>0. n \in Nat /\ DOMAIN words = 1 .. n
  OBVIOUS
<1>1. PICK run : /\ run[0] = << >>
                 /\ \A i \in 1 .. n : run[i] = NormTurn(run[i - 1], words[i])
                 /\ Norm(words) = run[n]
  BY NormRuns
<1> DEFINE Good(i) == /\ run[i] \in Seq(T)
                      /\ ToSet(run[i]) = {Form(words[j]) : j \in Upto(i)}
                      /\ \A a \in DOMAIN run[i] : At(run[i][a]) \in 0 .. i
                      /\ \A a, b \in DOMAIN run[i] :
                           a < b => At(run[i][a]) < At(run[i][b])
           G == {i \in Nat : i <= n => Good(i)}
<1>2. 0 \in G
  <2>1. Upto(0) = {}
    BY <1>0 DEF Kept
  <2>2. run[0] \in Seq(T) /\ DOMAIN run[0] = {} /\ ToSet(run[0]) = {}
    BY <1>1 DEF ToSet
  <2>3. ToSet(run[0]) = {Form(words[j]) : j \in Upto(0)}
    BY <2>1, <2>2
  <2>4. Good(0)
    <3> HIDE DEF T, Upto, At
    <3> QED
      BY <2>2, <2>3
  <2> QED
    BY <2>4
<1>3. ASSUME NEW i \in Nat, i \in G
      PROVE  i + 1 \in G
  <2> SUFFICES ASSUME i + 1 <= n
               PROVE  Good(i + 1)
    OBVIOUS
  <2> DEFINE w == words[i + 1]
             s == run[i]
  <2>1. Good(i) /\ i + 1 \in 1 .. n
    BY <1>0, <1>3
  <2>2. run[i + 1] = NormTurn(s, w)
    BY <1>1, <2>1
  <2>3. CASE Dropped(w)
    <3>1. Upto(i + 1) = Upto(i)
      BY <1>0, <2>3 DEF Kept
    <3>2. run[i + 1] = run[i]
      BY <2>2, <2>3 DEF NormTurn
    <3> QED
      BY <2>1, <3>1, <3>2
  <2>4. CASE ~ Dropped(w)
    <3>1. i + 1 \in Kept(words) /\ Upto(i + 1) = Upto(i) \cup {i + 1}
      BY <1>0, <2>1, <2>4 DEF Kept
    <3>2. {Form(words[j]) : j \in Upto(i + 1)} = ToSet(s) \cup {Form(w)}
      BY <2>1, <3>1
    <3>3. CASE Form(w) \in ToSet(s)
      <4>1. run[i + 1] = s
        BY <2>2, <3>3 DEF NormTurn
      <4>2. ToSet(run[i + 1]) = {Form(words[j]) : j \in Upto(i + 1)}
        BY <3>2, <3>3, <4>1
      <4> HIDE DEF T, At, Upto
      <4>3. \A a \in DOMAIN run[i + 1] : At(run[i + 1][a]) \in 0 .. i + 1
        BY <2>1, <4>1
      <4> QED
        BY <2>1, <4>1, <4>2, <4>3
    <3>4. CASE Form(w) \notin ToSet(s)
      <4>1. run[i + 1] = Append(s, Form(w))
        BY <2>2, <2>4, <3>4 DEF NormTurn
      <4>2. At(Form(w)) = i + 1
        <5>1. \A j \in Kept(words) : j < i + 1 => Form(words[j]) # Form(w)
          BY <1>0, <2>1, <3>4 DEF Kept
        <5> QED
          BY <3>1, <5>1, FirstNew
      <4> DEFINE t == Append(s, Form(w))
      <4>3. Form(w) \in T /\ s \in Seq(T) /\ Len(s) \in Nat /\ DOMAIN s = 1 .. Len(s)
        BY <2>1, <3>1
      <4>4. /\ t \in Seq(T) /\ DOMAIN t = 1 .. Len(s) + 1
            /\ \A a \in 1 .. Len(s) : t[a] = s[a]
            /\ t[Len(s) + 1] = Form(w)
        <5> HIDE DEF T, w, s
        <5> QED
          BY <4>3
      <4>5. ToSet(t) = ToSet(s) \cup {Form(w)}
        <5> HIDE DEF w, s, t
        <5> QED
          BY <4>3, <4>4 DEF ToSet
      <4>6. \A a \in 1 .. Len(s) : At(s[a]) \in 0 .. i
        BY <2>1, <4>3
      <4>7. \A a, b \in 1 .. Len(s) : a < b => At(s[a]) < At(s[b])
        BY <2>1, <4>3
      <4> HIDE DEF T, w, s, t, At, Upto
      <4>8. \A a \in DOMAIN t : At(t[a]) \in 0 .. i + 1
        BY <4>2, <4>3, <4>4, <4>6
      <4>9. \A a, b \in DOMAIN t : a < b => At(t[a]) < At(t[b])
        <5> SUFFICES ASSUME NEW a \in 1 .. Len(s) + 1, NEW b \in 1 .. Len(s) + 1,
                            a < b
                     PROVE  At(t[a]) < At(t[b])
          BY <4>4
        <5>1. a \in 1 .. Len(s) /\ t[a] = s[a]
          BY <4>3, <4>4
        <5>2. CASE b = Len(s) + 1
          BY <4>2, <4>4, <4>6, <5>1, <5>2
        <5>3. CASE b # Len(s) + 1
          BY <4>3, <4>4, <4>7, <5>1, <5>3
        <5> QED
          BY <5>2, <5>3
      <4> QED
        BY <3>2, <4>1, <4>4, <4>5, <4>8, <4>9 DEF t
    <3> QED
      BY <3>3, <3>4
  <2> QED
    BY <2>3, <2>4
<1>4. Good(n)
  <2> HIDE DEF Good
  <2>1. Nat \subseteq G
    <3> HIDE DEF G
    <3> QED
      BY <1>2, <1>3, Counting
  <2> QED
    BY <1>0, <2>1
<1>5. Upto(n) = Kept(words)
  BY <1>0 DEF Kept
<1> QED
  BY <1>1, <1>4, <1>5

-----------------------------------------------------------------------------
(* The worker and the search.                                              *)

\* What was normalised is what Norm returns, and no field is lost before its
\* turn.
NormInv ==
  /\ text \in [ToSet(Fields) -> Texts] /\ at \in 1 .. 4
  /\ row = [f \in ToSet(Fields) |-> row[f]]
  /\ lost \subseteq {Fields[i] : i \in 1 .. at - 1}
  /\ \A i \in 1 .. at - 1 :
       row[Fields[i]] = IF Fields[i] \in lost THEN << >>
                        ELSE Norm(text[Fields[i]])
  /\ reply.code = "OK" =>
       reply.phrase \in Searched /\ reply.tokens = Norm(reply.phrase)

\* The three fields of a comic, in the order in which a worker takes them.
LEMMA FieldFacts ==
  /\ Len(Fields) = 3 /\ DOMAIN Fields = 1 .. 3
  /\ \A i \in 1 .. 3 : Fields[i] \in ToSet(Fields)
  /\ \A i, j \in 1 .. 3 : Fields[i] = Fields[j] => i = j
<1>1. /\ Len(Fields) = 3 /\ DOMAIN Fields = 1 .. 3
      /\ Fields[1] = "title" /\ Fields[2] = "alt" /\ Fields[3] = "words"
  BY DEF Fields
<1>2. \A i \in 1 .. 3 : i = 1 \/ i = 2 \/ i = 3
  OBVIOUS
<1>3. \A i \in 1 .. 3 : Fields[i] \in ToSet(Fields)
  BY <1>1 DEF ToSet
<1> QED
  BY <1>1, <1>2, <1>3

\* An answer with the code OK is what Norm returns.
LEMMA ServerFacts ==
  ASSUME NEW words, NEW r \in {NormServer(words), NoAnswer}
  PROVE  /\ r.code = "OK" => r.tokens = Norm(words)
         /\ NormClient(r.code) = "nil" => r.code = "OK"
<1>1. CASE r = NoAnswer
  BY <1>1 DEF NoAnswer, NormClient
<1>2. CASE r = NormServer(words) /\ Len(words) > maxPhraseLen
  BY <1>2 DEF NormServer, NormClient
<1>3. CASE r = NormServer(words) /\ ~ (Len(words) > maxPhraseLen)
  BY <1>3 DEF NormServer, NormClient
<1> QED
  BY <1>1, <1>2, <1>3

\* Each normalisation keeps the invariant.
LEMMA NormStep == NormInv /\ [NormNext]_normVars => NormInv'
<1> SUFFICES ASSUME NormInv, [NormNext]_normVars
             PROVE  NormInv'
  OBVIOUS
<1>1. CASE WorkerNorm
  <2> DEFINE f == Fields[at]
  <2>1. PICK r \in {NormServer(text[f]), NoAnswer} :
          LET failed == NormClient(r.code) # "nil"
          IN  /\ row' = [row EXCEPT ![f] = IF failed THEN << >> ELSE r.tokens]
              /\ lost' = IF failed THEN lost \cup {f} ELSE lost
    BY <1>1 DEF WorkerNorm
  <2>2. at \in 1 .. 3 /\ at' = at + 1 /\ UNCHANGED <<text, reply>>
    BY <1>1, FieldFacts DEF WorkerNorm, NormInv
  <2>3. f \in ToSet(Fields) /\ \A i \in 1 .. at - 1 : Fields[i] # f
    BY <2>2, FieldFacts
  <2>4. f \notin lost
    BY <2>3 DEF NormInv
  <2>5. row'[f] = IF f \in lost' THEN << >> ELSE Norm(text[f])
    <3>1. row'[f] = IF NormClient(r.code) # "nil" THEN << >> ELSE r.tokens
      BY <2>1, <2>3 DEF NormInv
    <3> QED
      BY <2>1, <2>4, <3>1, ServerFacts
  <2>6. \A i \in 1 .. at - 1 :
          /\ row'[Fields[i]] = row[Fields[i]]
          /\ Fields[i] \in lost' <=> Fields[i] \in lost
    BY <2>1, <2>2, <2>3, FieldFacts DEF NormInv
  <2>7. row' = [g \in ToSet(Fields) |-> row'[g]]
    BY <2>1 DEF NormInv
  <2>8. lost' \subseteq {Fields[i] : i \in 1 .. at' - 1}
    <3>1. \A i \in 1 .. at - 1 : i \in 1 .. at' - 1
      BY <2>2
    <3>2. at \in 1 .. at' - 1
      BY <2>2
    <3> QED
      BY <2>1, <3>1, <3>2 DEF NormInv
  <2>9. \A i \in 1 .. at' - 1 :
          row'[Fields[i]] = IF Fields[i] \in lost' THEN << >>
                            ELSE Norm(text[Fields[i]])
    <3> SUFFICES ASSUME NEW i \in 1 .. at' - 1
                 PROVE  row'[Fields[i]] = IF Fields[i] \in lost' THEN << >>
                                          ELSE Norm(text[Fields[i]])
      OBVIOUS
    <3>1. CASE i = at
      BY <2>5, <3>1
    <3>2. CASE i # at
      <4>1. i \in 1 .. at - 1
        BY <2>2, <3>2
      <4> QED
        BY <2>6, <4>1 DEF NormInv
    <3> QED
      BY <3>1, <3>2
  <2>10. at' \in 1 .. 4
    BY <2>2
  <2> QED
    BY <2>2, <2>7, <2>8, <2>9, <2>10 DEF NormInv
<1>2. CASE SearchNorm
  <2>1. PICK phrase \in Searched : \E r \in {NormServer(phrase), NoAnswer} :
          reply' = [phrase |-> phrase, code |-> r.code, tokens |-> r.tokens]
    BY <1>2 DEF SearchNorm
  <2>2. PICK r \in {NormServer(phrase), NoAnswer} :
          reply' = [phrase |-> phrase, code |-> r.code, tokens |-> r.tokens]
    BY <2>1
  <2>3. reply'.code = "OK" =>
          reply'.phrase \in Searched /\ reply'.tokens = Norm(reply'.phrase)
    BY <2>2, ServerFacts
  <2> QED
    BY <1>2, <2>3 DEF SearchNorm, NormInv
<1>3. CASE UNCHANGED normVars
  BY <1>3 DEF normVars, NormInv
<1> QED
  BY <1>1, <1>2, <1>3 DEF NormNext

\* What is normalised is normalised by Norm, in every state.
THEOREM NormInvariant == NormSpec => []NormInv
<1>1. NormInit => NormInv
  <2> SUFFICES ASSUME NormInit PROVE NormInv
    OBVIOUS
  <2>1. reply.code # "OK" /\ 1 .. at - 1 = {} /\ at \in 1 .. 4
    BY DEF NormInit
  <2> QED
    BY <2>1 DEF NormInit, NormInv
<1> QED
  BY <1>1, NormStep, PTL DEF NormSpec

\* A phrase has words, and so has a text.
LEMMA AreTexts ==
  /\ \A t \in Texts : t \in Seq(Words)
  /\ \A t \in Searched : t \in Seq(Words)
  BY NormAssumption DEF Words

\* Whatever the words, the stop words and the stemmer are, the tokens of a
\* phrase are the forms of its words that are kept, each once, in the order
\* in which they first occur.
THEOREM TokensInOrder == NormSpec => []FirstOccurrences
<1>1. NormInv => FirstOccurrences
  <2> SUFFICES ASSUME NormInv, reply.code = "OK"
               PROVE  FirstOccurrences
    BY DEF FirstOccurrences
  <2> DEFINE words == reply.phrase
             out == reply.tokens
             kept == {i \in DOMAIN words :
                        words[i] \in Digits \/ words[i] \notin StopWords}
             first(tok) == CHOOSE i \in kept :
                             /\ Form(words[i]) = tok
                             /\ \A j \in kept : Form(words[j]) = tok => i <= j
  <2>1. words \in Seq(Words) /\ out = Norm(words)
    BY AreTexts DEF NormInv
  <2>2. kept = Kept(words)
    BY DEF Kept, Dropped
  <2>3. \A tok : first(tok) = First(words, tok)
    BY <2>2 DEF First
  <2> HIDE DEF words, out
  <2>4. /\ ToSet(out) = {Form(words[i]) : i \in Kept(words)}
        /\ \A a, b \in DOMAIN out :
             a < b => First(words, out[a]) < First(words, out[b])
    BY <2>1, NormFacts
  <2> HIDE DEF kept, first
  <2>5. /\ ToSet(out) = {Form(words[i]) : i \in kept}
        /\ \A a, b \in DOMAIN out : a < b => first(out[a]) < first(out[b])
    BY <2>2, <2>3, <2>4
  <2> QED
    BY <2>5 DEF FirstOccurrences, words, out, kept, first
<1> QED
  BY <1>1, NormInvariant, PTL

\* A comic is found by its own words: the two sides normalise alike, whatever
\* the order and the number of the words on each.
THEOREM FoundByItsOwnWords == NormSpec => []OwnWordsFind
<1>1. NormInv => OwnWordsFind
  <2> SUFFICES ASSUME NormInv, NEW i \in 1 .. at - 1
               PROVE  IF Fields[i] \in lost THEN row[Fields[i]] = << >>
                      ELSE reply.code = "OK" /\
                             ToSet(reply.phrase) \subseteq ToSet(text[Fields[i]])
                           => ToSet(reply.tokens) \subseteq ToSet(row[Fields[i]])
    BY DEF OwnWordsFind
  <2>1. CASE Fields[i] \in lost
    BY <2>1 DEF NormInv
  <2>2. CASE Fields[i] \notin lost
    <3> SUFFICES ASSUME reply.code = "OK",
                        ToSet(reply.phrase) \subseteq ToSet(text[Fields[i]])
                 PROVE  ToSet(reply.tokens) \subseteq ToSet(row[Fields[i]])
      BY <2>2
    <3> DEFINE p == reply.phrase
               t == text[Fields[i]]
    <3>1. /\ reply.tokens = Norm(p) /\ row[Fields[i]] = Norm(t)
          /\ p \in Seq(Words) /\ t \in Seq(Words)
      <4>1. i \in 1 .. 3
        BY DEF NormInv
      <4>2. t \in Texts
        BY <4>1, FieldFacts DEF NormInv
      <4> QED
        BY <2>2, <4>2, AreTexts DEF NormInv
    <3>2. ToSet(p) \subseteq ToSet(t)
      OBVIOUS
    <3> HIDE DEF p, t
    <3>3. /\ ToSet(Norm(p)) = {Form(p[j]) : j \in Kept(p)}
          /\ ToSet(Norm(t)) = {Form(t[j]) : j \in Kept(t)}
      BY <3>1, NormFacts
    <3>4. \A j \in Kept(p) : \E k \in Kept(t) : t[k] = p[j]
      BY <3>2 DEF Kept, ToSet
    <3> QED
      BY <3>1, <3>3, <3>4
  <2> QED
    BY <2>1, <2>2
<1> QED
  BY <1>1, NormInvariant, PTL

\* What a sequence is, for one that is known by a definition.
LEMMA SequenceOf ==
  ASSUME NEW T, NEW out \in Seq(T)
  PROVE  /\ Len(out) \in Nat /\ DOMAIN out = 1 .. Len(out)
         /\ \A a \in DOMAIN out : out[a] \in T
OBVIOUS

\* A sequence along which a measure of its elements grows has none twice.
LEMMA GrowingOnce ==
  ASSUME NEW T, NEW out \in Seq(T), NEW f \in [T -> Nat],
         \A a, b \in DOMAIN out : a < b => f[out[a]] < f[out[b]]
  PROVE  \A a, b \in DOMAIN out : out[a] = out[b] => a = b
<1> SUFFICES ASSUME NEW a \in DOMAIN out, NEW b \in DOMAIN out,
                    out[a] = out[b], a # b
             PROVE  FALSE
  OBVIOUS
<1>1. a \in Nat /\ b \in Nat /\ out[a] \in T
  OBVIOUS
<1>2. f[out[a]] \in Nat
  BY <1>1
<1>3. a < b \/ b < a
  BY <1>1
<1>4. f[out[a]] < f[out[a]]
  BY <1>3
<1> QED
  BY <1>2, <1>4

\* What QueryAssumption asks of the phrases the search service ranks by is what
\* Norm returns: no token twice and, of words that are not empty, none empty.
THEOREM NormGivesPhrases ==
  ASSUME NEW words \in Seq(Words), \A i \in DOMAIN words : words[i] # ""
  PROVE  IsPhrase(Norm(words))
<1> DEFINE out == Norm(words)
           T == {Form(words[i]) : i \in Kept(words)}
           f == [tok \in T |-> First(words, tok)]
<1>1. out \in Seq(T)
  BY NormFacts
<1>2. \A a, b \in DOMAIN out : a < b => First(words, out[a]) < First(words, out[b])
  BY NormFacts
<1>3. \A tok \in T : tok # "" /\ First(words, tok) \in Nat
  BY FirstFacts DEF Kept, Form
<1>4. f \in [T -> Nat]
  BY <1>3
<1>5. \A tok \in T : f[tok] = First(words, tok)
  OBVIOUS
<1> SUFFICES ASSUME NEW o, o = out
             PROVE  IsPhrase(o)
  OBVIOUS
<1> HIDE DEF out, T, f
<1>6. o \in Seq(T)
  BY <1>1
<1>7. /\ Len(o) \in Nat /\ DOMAIN o = 1 .. Len(o)
      /\ \A a \in DOMAIN o : o[a] \in T
  BY <1>6, SequenceOf
<1>8. \A a, b \in DOMAIN o : a < b => f[o[a]] < f[o[b]]
  BY <1>2, <1>5, <1>7
<1>9. \A a, b \in DOMAIN o : o[a] = o[b] => a = b
  BY <1>4, <1>6, <1>8, GrowingOnce
<1> QED
  BY <1>3, <1>7, <1>9 DEF IsPhrase
=============================================================================
