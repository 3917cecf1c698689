----------------------------- MODULE WordsNorm -----------------------------
(***************************************************************************)
(* The normalisation of texts (words/words/words.go, words/main.go) and    *)
(* its two users: a worker of the update service normalises the three      *)
(* texts of a comic before it stores it, the search service normalises the *)
(* phrase it looks for.  A comic is found by its own words only because    *)
(* both sides get the same tokens.                                         *)
(*                                                                         *)
(* A text is the sequence of the lower-case words in it, its size their    *)
(* number; the stemmer and the list of stop words are a library.           *)
(***************************************************************************)
EXTENDS Naturals, SequencesExt

CONSTANTS
  Texts,         \* the texts of comics
  Searched,      \* the phrases that are looked for
  Digits,        \* words of digits only
  StopWords,     \* english.IsStopWord
  Stem,          \* snowball.Stem by word; "" for an error or an empty stem
  maxPhraseLen   \* 4096 bytes in the code

ASSUME NormAssumption == Texts \cup Searched \subseteq Seq(DOMAIN Stem)

VARIABLES
  text,          \* the comic as xkcd.com has it
  at,            \* the next field of the worker; "stored" once it is done
  row,           \* what the worker has of the row
  lost,          \* history: fields whose Norm failed
  reply          \* the phrase that was normalised, with its result

normVars == <<text, at, row, lost, reply>>

Fields == <<"title", "alt", "words">>
Words == DOMAIN Stem

NormInit ==
  /\ text \in [ToSet(Fields) -> Texts]
  /\ at = 1
  /\ row = [f \in ToSet(Fields) |-> << >>]
  /\ lost = {}
  /\ reply = [phrase |-> << >>, code |-> "none", tokens |-> << >>]

-----------------------------------------------------------------------------
\* Digits stay as they are, other words are stemmed if they can be.
Form(w) == IF w \in Digits \/ Stem[w] = "" THEN w ELSE Stem[w]

Dropped(w) == w \notin Digits /\ w \in StopWords

\* Mutant of Norm: no set of the tokens seen so far.
NormAll(words) ==
  FoldLeft(LAMBDA out, w : IF Dropped(w) THEN out ELSE Append(out, Form(w)),
           << >>, words)

\* One turn of the loop, with out as its own set of the tokens seen.
NormTurn(out, w) ==
  IF Dropped(w) \/ Form(w) \in ToSet(out) THEN out ELSE Append(out, Form(w))

\* The loop over the words of the text.
Norm(words) == FoldLeft(NormTurn, << >>, words)

\* Mutant of NormServer: a long text is cut.
NormServerCuts(words) ==
  [code |-> "OK",
   tokens |-> Norm(SubSeq(words, 1, IF Len(words) > maxPhraseLen
                                      THEN maxPhraseLen ELSE Len(words)))]

NormServer(words) ==
  IF Len(words) > maxPhraseLen
    THEN [code |-> "ResourceExhausted", tokens |-> << >>]
    ELSE [code |-> "OK", tokens |-> Norm(words)]

\* The service cannot be reached, or not in time.
NoAnswer == [code |-> "Unavailable", tokens |-> << >>]

\* The clients of both services.
NormClient(code) ==
  CASE code = "OK" -> "nil"
    [] code = "ResourceExhausted" -> "ErrBadArguments"
    [] code = "Unavailable" -> "ErrUnavailable"

\* A worker normalises one field after another; one that fails is stored empty.
WorkerNorm ==
  /\ at <= Len(Fields)
  /\ \E r \in {NormServer(text[Fields[at]]), NoAnswer} :
       LET failed == NormClient(r.code) # "nil"
       IN  /\ row' = [row EXCEPT ![Fields[at]] = IF failed THEN << >> ELSE r.tokens]
           /\ lost' = IF failed THEN lost \cup {Fields[at]} ELSE lost
  /\ at' = at + 1
  /\ UNCHANGED <<text, reply>>

\* Find and IndexedSearch normalise the phrase; Norm keeps nothing from one
\* call to the next, so one phrase is enough.
SearchNorm ==
  /\ reply.code = "none"
  /\ \E phrase \in Searched : \E r \in {NormServer(phrase), NoAnswer} :
       reply' = [phrase |-> phrase, code |-> r.code, tokens |-> r.tokens]
  /\ UNCHANGED <<text, at, row, lost>>

NormNext == WorkerNorm \/ SearchNorm

NormSpec == NormInit /\ [][NormNext]_normVars

-----------------------------------------------------------------------------
(* Properties.                                                             *)

\* The tokens of a phrase are the forms of its words that are no stop words,
\* each once, in the order in which they first occur: what README.md:338-340
\* asks for and what the ranking relies on (words.go:13-61).
FirstOccurrences ==
  reply.code = "OK" =>
    LET words == reply.phrase
        out == reply.tokens
        kept == {i \in DOMAIN words : words[i] \in Digits \/ words[i] \notin StopWords}
        first(tok) == CHOOSE i \in kept :
                        Form(words[i]) = tok /\ \A j \in kept : Form(words[j]) = tok => i <= j
    IN  /\ ToSet(out) = {Form(words[i]) : i \in kept}
        /\ \A a, b \in DOMAIN out : a < b => first(out[a]) < first(out[b])

\* A comic is found by its own words: every token of a phrase made of words of
\* a field is in the row, unless the Norm of that field failed, and a field
\* whose Norm failed is empty: the comic cannot be found by it, and Update,
\* which skips what is stored, never repairs it (service.go:107-134,
\* words.go:13-61).
OwnWordsFind ==
  \A i \in 1 .. at - 1 :
    LET f == Fields[i]
    IN  IF f \in lost THEN row[f] = << >>
        ELSE reply.code = "OK" /\ ToSet(reply.phrase) \subseteq ToSet(text[f])
               => ToSet(reply.tokens) \subseteq ToSet(row[f])
=============================================================================
