------------------------ MODULE AtLeastOnceDelivery ------------------------
(***************************************************************************)
(* What the telemetry ingester promises the rest of the system: records    *)
(* are published to the partitions of a topic, delivered in any order and  *)
(* possibly again, and acknowledged, per partition, up to an offset below  *)
(* which every valid record has been delivered.  There is no process here, *)
(* no batch, no crash.                                                     *)
(***************************************************************************)
EXTENDS Naturals, Sequences

CONSTANT Partitions

VARIABLES
    log,        \* log[p]: what was published to partition p
    delivered,  \* the records delivered so far
    acked       \* acked[p]: everything valid below it has been delivered

absVars == <<log, delivered, acked>>

Valid == UNION {{[part |-> p, off |-> i - 1] : i \in {j \in 1..Len(log[p]) : log[p][j] = "valid"}}
                : p \in Partitions}

AbsInit ==
    /\ log = [p \in Partitions |-> <<>>]
    /\ delivered = {}
    /\ acked = [p \in Partitions |-> 0]

Publish ==
    /\ \E p \in Partitions, payload \in {"valid", "invalid"} :
            log' = [log EXCEPT ![p] = Append(@, payload)]
    /\ UNCHANGED <<delivered, acked>>

Deliver ==
    /\ delivered \subseteq delivered'
    /\ delivered' \subseteq Valid
    /\ UNCHANGED <<log, acked>>

Acknowledge ==
    /\ \A p \in Partitions : acked[p] <= acked'[p] /\ acked'[p] <= Len(log[p])
    /\ \A r \in Valid : r.off < acked'[r.part] => r \in delivered
    /\ UNCHANGED <<log, delivered>>

AbsNext == Publish \/ Deliver \/ Acknowledge

AbsSpec == AbsInit /\ [][AbsNext]_absVars
============================================================================
