--------------------------- MODULE MCBotContexts ---------------------------
(* Constants of BotContexts for TLC.                                        *)
EXTENDS BotContexts, TLC

Symmetric == Permutations(Handlers)
=============================================================================
