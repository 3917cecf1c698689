--------------------------- MODULE MCAuthAccounts ---------------------------
(* Constants of AuthAccounts for TLC.                                        *)
EXTENDS AuthAccounts, TLC

\* Calls of one kind, addresses, ids, passwords and profiles are
\* interchangeable.
Symmetry ==
  Permutations(Registers) \cup Permutations(Telegrams) \cup
  Permutations(Emails) \cup Permutations(TgIDs) \cup
  Permutations(Passwords) \cup Permutations(Profiles)
=============================================================================
