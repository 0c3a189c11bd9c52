--------------------------- MODULE MCLeaderboard ---------------------------
EXTENDS Leaderboard

Run(s, p50, p99, ok) == [id |-> s, p50 |-> p50, p99 |-> p99, ok |-> ok]

(* Equal scores with different p99 (a, b) and two runs that failed        *)
(* outright: an exact tie.                                                 *)
MCRuns == {Run("a", 200, 400, 4), Run("a", 0, 0, 0), Run("b", 100, 200, 4), Run("c", 0, 0, 0)}

============================================================================
