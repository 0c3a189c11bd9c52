------------------------- MODULE MCEngineLockstep -------------------------
(* TLC instances of EngineLockstep. *)
EXTENDS EngineLockstep
============================================================================
