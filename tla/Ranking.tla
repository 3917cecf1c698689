------------------------------ MODULE Ranking ------------------------------
(***************************************************************************)
(* The score of a comic for a phrase (search/core/service.go).  A comic is *)
(* a record of three sequences of tokens, a phrase the sequence of tokens  *)
(* that the words service made of it.                                      *)
(***************************************************************************)
EXTENDS Naturals, Sequences, FiniteSets

CONSTANTS
  WeightTitle, WeightAlt, WeightWords,  \* 5, 3, 1 in the code
  WeightCover                           \* 100 in the code

ASSUME WeightsAssumption ==
  /\ WeightTitle = 5 /\ WeightAlt = 3 /\ WeightWords = 1
  /\ WeightCover = 100

makeSet(arr) == {arr[i] : i \in DOMAIN arr} \ {""}

\* The positions of the phrase whose token is in a field.
Matches(field, tokens) ==
  LET set == makeSet(field) IN {i \in DOMAIN tokens : tokens[i] \in set}

MatchesAny(c, tokens) ==
  Matches(c.title, tokens) \cup Matches(c.alt, tokens)
    \cup Matches(c.words, tokens)

\* The different tokens of the phrase that the comic has in any field.
Covered(c, tokens) == {tokens[i] : i \in MatchesAny(c, tokens)}

\* Mutant of scoreComic: the title's weight is not far below a token's.
scoreComicHeavyTitle(c, tokens) ==
  IF Covered(c, tokens) = {} THEN 0
  ELSE Cardinality(Covered(c, tokens)) * WeightCover
       + Cardinality(Matches(c.title, tokens)) * WeightTitle * 25
       + Cardinality(Matches(c.alt, tokens)) * WeightAlt
       + Cardinality(Matches(c.words, tokens)) * WeightWords

scoreComic(c, tokens) ==
  IF Covered(c, tokens) = {} THEN 0
  ELSE Cardinality(Covered(c, tokens)) * WeightCover
       + Cardinality(Matches(c.title, tokens)) * WeightTitle
       + Cardinality(Matches(c.alt, tokens)) * WeightAlt
       + Cardinality(Matches(c.words, tokens)) * WeightWords

\* What words.Norm returns: no token twice, none empty.
IsPhrase(tokens) ==
  /\ Len(tokens) \in Nat /\ DOMAIN tokens = 1 .. Len(tokens)
  /\ \A i, j \in DOMAIN tokens : tokens[i] = tokens[j] => i = j
  /\ \A i \in DOMAIN tokens : tokens[i] # ""

\* A comic that has more of the phrase's tokens scores higher, whichever
\* fields they are in.
BroaderScoresHigher(a, b, tokens) ==
  Cardinality(Covered(a, tokens)) > Cardinality(Covered(b, tokens)) =>
    scoreComic(a, tokens) > scoreComic(b, tokens)
=============================================================================
