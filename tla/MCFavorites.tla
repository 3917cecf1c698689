---------------------------- MODULE MCFavorites ----------------------------
(* Constants of Favorites for TLC.                                          *)
EXTENDS Favorites, TLC

Symmetric == Permutations(Users) \cup Permutations(Calls)
=============================================================================
