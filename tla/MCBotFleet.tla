----------------------------- MODULE MCBotFleet -----------------------------
(* TLC instance of BotFleet. *)
EXTENDS BotFleet
=============================================================================
