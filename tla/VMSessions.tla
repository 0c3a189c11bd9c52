----------------------------- MODULE VMSessions -----------------------------
(***************************************************************************)
(* What the sandbox orchestrator promises its clients: at most one session *)
(* per submission, and an address no other session has from before the VM  *)
(* starts until after it was told to stop.  How addresses are chosen, the  *)
(* host resources, the VMM processes and the RPC handlers are left out.    *)
(***************************************************************************)
EXTENDS Naturals

CONSTANTS VMIDs, Addresses

VARIABLE sessions    \* sessions[id]: phase of the session of id, and its address

Phases == {"none", "starting", "running", "stopping"}
NoSession == [phase |-> "none", ip |-> 0]
InUse == {sessions[i].ip : i \in {j \in VMIDs : sessions[j].phase # "none"}}

SessionsInit == sessions = [i \in VMIDs |-> NoSession]

(* An address nobody holds is reserved before the VM is built. *)
Reserve(id) ==
    /\ sessions[id].phase = "none"
    /\ \E a \in Addresses \ InUse : sessions' = [sessions EXCEPT ![id] = [phase |-> "starting", ip |-> a]]

Move(id, from, to) ==
    /\ sessions[id].phase = from
    /\ sessions' = [sessions EXCEPT ![id].phase = to]

Started(id) == Move(id, "starting", "running")
Stopped(id) == Move(id, "running", "stopping")

(* The session ends: its start failed, or its VM was told to stop. *)
Release(id) ==
    /\ sessions[id].phase \in {"starting", "stopping"}
    /\ sessions' = [sessions EXCEPT ![id] = NoSession]

(* The orchestrator shuts down and ends every session. *)
ReleaseAll ==
    /\ \A i \in VMIDs : sessions[i].phase \in {"none", "running"}
    /\ sessions' = [i \in VMIDs |-> NoSession]

(* A request that is refused changes no session, and most steps of the     *)
(* handlers in between do not.                                             *)
NoChange == UNCHANGED sessions

SessionsNext ==
    \/ NoChange
    \/ \E id \in VMIDs : Reserve(id) \/ Started(id) \/ Stopped(id) \/ Release(id)
    \/ ReleaseAll

SessionsSpec == SessionsInit /\ [][SessionsNext]_sessions
=============================================================================
