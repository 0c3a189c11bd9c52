----------------------- MODULE MCSandboxOrchestrator -----------------------
EXTENDS SandboxOrchestrator, TLC

CONSTANTS a, b, d, t1, t2

\* The FNV-32a hashes of a and b collide; that of d differs.
CollidingNames == (a :> t1) @@ (b :> t1) @@ (d :> t2)
OwnNames == (a :> t1) @@ (d :> t2)

CallSymmetry == Permutations(Calls)
============================================================================
