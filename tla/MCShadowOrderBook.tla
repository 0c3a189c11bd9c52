------------------------- MODULE MCShadowOrderBook -------------------------
(* TLC instances of ShadowOrderBook. *)
EXTENDS ShadowOrderBook, TLC

IdSymmetry == Permutations(Ids)
============================================================================
