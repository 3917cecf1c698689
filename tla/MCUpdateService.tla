-------------------------- MODULE MCUpdateService --------------------------
(* Constants of UpdateService and UpdateTable for TLC.                      *)
EXTENDS UpdateTable
=============================================================================
