--------------------------- MODULE MCSearchIndex ---------------------------
(* Constants of SearchIndex for TLC.                                        *)
EXTENDS SearchIndex, TLC

\* Empty, two comics stored, dropped, stored again: the words service failed
\* for some texts, so comic 1 lost a token it had and comic 2 has others.
Contents ==
  0 :> << >> @@
  1 :> (1 :> {"linux", "cpu"} @@ 2 :> {"cpu"}) @@
  2 :> << >> @@
  3 :> (1 :> {"cpu"} @@ 2 :> {"linux"} @@ 3 :> {"cpu"})

TokenSets == {{"linux", "cpu"}}
=============================================================================
