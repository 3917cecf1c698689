---------------------------- MODULE MCWordsNorm ----------------------------
(* Constants of WordsNorm for TLC: a stop word, a digit, two words with one *)
(* stem, a word that is its own stem, one whose stem is a stop word and one *)
(* without a stem.                                                          *)
EXTENDS WordsNorm

StemTable ==
  [w \in {"the", "7", "runs", "running", "run", "wills", "s"} |->
     CASE w \in {"runs", "running", "run"} -> "run"
       [] w = "wills" -> "will"
       [] w = "s" -> ""
       [] OTHER -> w]

SomeTexts == {<< >>, <<"runs", "the", "7", "runs">>, <<"wills", "running">>,
              <<"s", "7", "7", "wills", "running">>}

SomePhrases == UNION {[1 .. n -> DOMAIN StemTable] : n \in 0 .. 3}
=============================================================================
