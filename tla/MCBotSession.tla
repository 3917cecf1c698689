---------------------------- MODULE MCBotSession ----------------------------
(* Constants of BotSession for TLC.                                         *)
EXTENDS BotSession
=============================================================================
