--------------------------- MODULE MCUpdateStats ---------------------------
(* Constants of UpdateStats for TLC.                                        *)
EXTENDS UpdateStats, TLC

\* An empty text and two texts that share a word.
Texts == {{}, {"cpu"}, {"cpu", "nerd"}}
=============================================================================
