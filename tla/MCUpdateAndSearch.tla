------------------------- MODULE MCUpdateAndSearch -------------------------
(* Constants of UpdateAndSearch for TLC.                                    *)
EXTENDS UpdateAndSearch
=============================================================================
