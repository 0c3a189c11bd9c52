------------------------ MODULE MCTelemetryIngester ------------------------
(* TLC instances of TelemetryIngester. *)
EXTENDS TelemetryIngester, TLC

PartitionSymmetry == Permutations(Partitions)
============================================================================
