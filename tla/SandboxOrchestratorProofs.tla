--------------------- MODULE SandboxOrchestratorProofs ---------------------
(***************************************************************************)
(* Proofs about SandboxOrchestrator, for any ids, handlers, addresses and  *)
(* interface names (colliding ones included) and any number of spawns,     *)
(* crashes and restarts.                                                   *)
(***************************************************************************)
EXTENDS SandboxOrchestrator, WellFoundedInduction, TLAPS

----------------------------------------------------------------------------
(* The inductive invariant                                                 *)

Busy(c) == ~At(c, "idle")
Spawning(c) == call[c].op \in SpawnOps
Stopping(c) == At(c, "stop") \/ At(c, "unregister")
HasTap(c) == call[c].op \in {"image", "boot", "booting", "register", "untap", "deltap"}
Booting(c) == call[c].op \in {"booting", "register"}
BeforeStart(c) == call[c].op \in {"tap", "image", "boot"}

(* Who works on which entry.  A tentative entry is a spawn's, and only     *)
(* that spawn's; a running one is changed by the teardown of its own       *)
(* serial; no serial and no address is used twice.                         *)
EntriesHaveIP == \A i \in VMIDs : vmRegistry[i] = NoVM \/ vmRegistry[i].ip # 0

TentativeOwned ==
    \A i \in VMIDs : Exists(i) /\ vmRegistry[i].machine = 0 =>
        \E c \in Calls : Spawning(c) /\ call[c].id = i

MachineOwned ==
    \A i \in VMIDs : vmRegistry[i].machine # 0 =>
        /\ vmRegistry[i].machine <= spawns
        /\ \A c \in Calls : Busy(c) /\ call[c].serial = vmRegistry[i].machine =>
              Stopping(c) /\ call[c].id = i

EntriesDistinct ==
    \A i, j \in VMIDs : Exists(i) /\ Exists(j) /\ i # j =>
        /\ vmRegistry[i].ip # vmRegistry[j].ip
        /\ vmRegistry[i].machine # 0 => vmRegistry[i].machine # vmRegistry[j].machine

CallsMatchEntries ==
    \A c \in Calls :
        /\ Busy(c) => call[c].serial \in 1..spawns
        /\ Spawning(c) => /\ vmRegistry[call[c].id].ip = call[c].ip /\ call[c].ip # 0
                          /\ vmRegistry[call[c].id].machine = 0
        /\ Stopping(c) => vmRegistry[call[c].id].machine = call[c].serial

CallsDistinct ==
    \A c, d \in Calls : Busy(c) /\ Busy(d) /\ c # d =>
        /\ call[c].serial # call[d].serial
        /\ Spawning(c) /\ Spawning(d) => call[c].id # call[d].id

HandlerInv ==
    /\ EntriesHaveIP /\ TentativeOwned /\ MachineOwned /\ EntriesDistinct
    /\ CallsMatchEntries /\ CallsDistinct

(* The interface of a spawn between SetupTapInterface and its undoing, and *)
(* of a VM until its teardown deletes it, is the one that spawn made.      *)
TapInv ==
    /\ \A c \in Calls : HasTap(c) => tap[tapNameForVM[call[c].id]] = call[c].serial
    /\ RunningVMHasItsTap

(* A lease is handed out when its spawn returns and used once. *)
LeaseInv ==
    /\ \A l \in leases : l.serial \in 1..spawns /\ \A c \in Calls : Busy(c) => call[c].serial # l.serial
    /\ \A k, l \in leases : k.serial = l.serial => k = l

Ownership == HandlerInv /\ TapInv /\ LeaseInv

(* Before any crash or restart a lease is on a VM that the registry holds, *)
(* until the shutdown.                                                     *)
FirstLife == crashes = 0 /\ restarts = 0
FirstLifeInv ==
    /\ ~misused /\ phase # "dead"
    /\ phase = "stopped" => \A c \in Calls : At(c, "idle")
    /\ phase # "stopped" => \A l \in leases : vmRegistry[l.id].machine = l.serial

(* When no cleanup fails either, what is on the host has its owner. *)
TapsOwned ==
    \A n \in TapNames : tap[n] # 0 =>
        \/ \E i \in VMIDs : tapNameForVM[i] = n /\ vmRegistry[i].machine = tap[n]
        \/ \E c \in Calls : HasTap(c) /\ tapNameForVM[call[c].id] = n /\ call[c].serial = tap[n]

(* The Firecracker processes, and the goroutines that will fork one.  Each *)
(* spawn starts at most one; those that somebody still wants belong to the *)
(* handler that boots them, or to the entry of a running VM.               *)
OneVMMPerSpawn ==
    /\ \A m \in machines \cup starts : m.serial \in 1..spawns
    /\ \A m, n \in machines : m.serial = n.serial => m = n
    /\ \A u, v \in starts : u.serial = v.serial => u = v
    /\ \A m \in machines, vm \in starts : m.serial # vm.serial
    /\ \A c \in Calls : BeforeStart(c) => \A m \in machines \cup starts : m.serial # call[c].serial

StartsOwned ==
    \A vm \in starts : vm.serial \notin abandoned =>
        \E c \in Calls : /\ At(c, "booting")
                         /\ call[c].serial = vm.serial /\ call[c].id = vm.id /\ call[c].ip = vm.ip

MachinesOwned ==
    \A m \in machines : Wanted(m) =>
        /\ vmRegistry[m.id].ip = m.ip
        /\ \/ vmRegistry[m.id].machine = m.serial
           \/ \E c \in Calls : Booting(c) /\ call[c].serial = m.serial /\ call[c].id = m.id

(* The process of a VM whose teardown is past StopVMM got the signal. *)
StoppedTold ==
    \A c \in Calls : At(c, "unregister") => \A m \in machines : Wanted(m) => m.serial # call[c].serial

VMMInv == OneVMMPerSpawn /\ StartsOwned /\ MachinesOwned /\ StoppedTold

HostInv == TapsOwned /\ VMMInv /\ ShutdownLeavesNothing

Inv ==
    /\ TypeOK
    /\ ~misused => Ownership
    /\ FirstLife => FirstLifeInv
    /\ FirstLife /\ ~CleanupCanFail => HostInv

----------------------------------------------------------------------------
(* What a step does to the handlers                                        *)

USE DEF At, Busy, Spawning, Stopping, HasTap, Booting, BeforeStart, vmms, SpawnOps, TeardownOps, Exists

Ops == SpawnOps \cup TeardownOps \cup {"idle"}
CallRec == [op: Ops, id: VMIDs, ip: Addresses \cup {0}, serial: Serials]
VMRec == [ip: Addresses \cup {0}, machine: Serials]
VMMRec == [serial: Serials, id: VMIDs, ip: Addresses \cup {0}]

(* TypeOK by parts. *)
LEMMA TypeParts ==
    TypeOK => /\ vmRegistry \in [VMIDs -> VMRec]
              /\ call \in [Calls -> CallRec]
              /\ tap \in [TapNames -> Serials] /\ disk \in [VMIDs -> Serials]
              /\ machines \subseteq VMMRec /\ starts \subseteq VMMRec
              /\ signalled \subseteq Serials /\ abandoned \subseteq Serials /\ spared \subseteq Serials
              /\ leases \subseteq [id: VMIDs, serial: Serials]
              /\ spawns \in Serials
BY DEF TypeOK, CallRec, VMRec, VMMRec, Ops

(* A handler goes on: nothing of it but its place in the code changes. *)
LEMMA GotoShape ==
    ASSUME TypeOK, NEW c \in Calls, NEW op \in Ops, Goto(c, op)
    PROVE  /\ call' \in [Calls -> CallRec]
           /\ \A d \in Calls :
                 /\ call'[d].op = IF d = c THEN op ELSE call[d].op
                 /\ call'[d].id = call[d].id /\ call'[d].ip = call[d].ip
                 /\ call'[d].serial = call[d].serial
<1>1. call \in [Calls -> CallRec]
  BY TypeParts
<1>2. call' = [call EXCEPT ![c] = [call[c] EXCEPT !.op = op]]
  BY DEF Goto
<1>3. [call[c] EXCEPT !.op = op] \in CallRec
  BY <1>1 DEF CallRec
<1> QED BY <1>1, <1>2, <1>3 DEF CallRec

(* A goroutine without an RPC. *)
LEMMA IdleType == Idle \in CallRec /\ Idle.op = "idle"
<1>1. (CHOOSE i \in VMIDs : TRUE) \in VMIDs
  BY VMIDsAssumption
<1> QED BY <1>1, OrchestratorBounds DEF Idle, CallRec, Ops, Serials

(* A handler returns. *)
LEMMA ReturnShape ==
    ASSUME TypeOK, NEW c \in Calls, Return(c)
    PROVE  /\ call' \in [Calls -> CallRec]
           /\ call'[c].op = "idle"
           /\ \A d \in Calls \ {c} : call'[d] = call[d]
<1>1. call \in [Calls -> CallRec]
  BY TypeParts
<1> QED BY <1>1, IdleType DEF Return

(* Everything a handler's record mentions exists. *)
LEMMA CallTypes ==
    ASSUME TypeOK, NEW c \in Calls
    PROVE  /\ call[c].id \in VMIDs /\ call[c].ip \in Addresses \cup {0} /\ call[c].serial \in Serials
           /\ tapNameForVM[call[c].id] \in TapNames
BY TypeParts, TapNameAssumption DEF CallRec

(* No entry: no address and no machine. *)
LEMMA NoVMFacts == NoVM \in VMRec /\ NoVM.ip = 0 /\ NoVM.machine = 0
BY OrchestratorBounds DEF NoVM, VMRec, Serials

(* A handler's serial is one that was given out; 0 was not. *)
LEMMA SerialsGivenOut ==
    ASSUME TypeOK, CallsMatchEntries, NEW c \in Calls, Busy(c)
    PROVE  call[c].serial \in Nat /\ call[c].serial # 0 /\ call[c].serial <= spawns /\ spawns \in Nat
<1>1. spawns \in Nat
  BY TypeParts, OrchestratorBounds DEF Serials
<1>2. call[c].serial \in 1..spawns
  BY DEF CallsMatchEntries
<1> QED BY <1>1, <1>2

----------------------------------------------------------------------------
(* Reserving an address                                                    *)

(* findFreeIPIndex finds one, if there is one. *)
LEMMA FreeIPFound ==
    ASSUME TypeOK, ~(Addresses \subseteq UsedIPs)
    PROVE  findFreeIPIndex \in Addresses \ UsedIPs /\ findFreeIPIndex # 0
<1> DEFINE T == Addresses \ UsedIPs
           R == OpToRel(<, Nat)
<1>1. T \subseteq Nat /\ T # {} /\ 0 \notin T
  BY LastIPAssumption DEF Addresses
<1>2. \E x \in T : \A y \in T : ~(<<y, x>> \in R)
  <2> HIDE DEF T, R
  <2>1. IsWellFoundedOn(R, Nat)
    BY NatLessThanWellFounded DEF R
  <2> QED BY <1>1, <2>1, WFMin
<1>3. PICK x \in T : \A y \in T : ~(<<y, x>> \in R)
  BY <1>2
<1>4. ASSUME NEW y \in T PROVE x <= y
  <2>1. <<y, x>> \in Nat \X Nat /\ ~(<<y, x>> \in R)
    BY <1>1, <1>3
  <2>2. ~(y < x)
    BY <2>1 DEF OpToRel
  <2> QED BY <1>1, <2>2
<1>5. \E a \in Addresses \ UsedIPs : \A b \in Addresses \ UsedIPs : a <= b
  BY <1>3, <1>4
<1>6. findFreeIPIndex \in T
  BY <1>5 DEF findFreeIPIndex
<1> QED BY <1>1, <1>6

(* A reservation takes a free id, the lowest free address and a fresh serial. *)
LEMMA SpawnReserveStep ==
    ASSUME Inv, NEW c \in Calls, NEW id \in VMIDs, SpawnReserve(c, id)
    PROVE  Inv'
<1> USE DEF Inv
<1> DEFINE a == findFreeIPIndex
           n == spawns + 1
<1>1. /\ UNCHANGED <<phase, tap, disk, vmms, leases, misused, crashes, restarts>>
      /\ phase = "serving" /\ At(c, "idle") /\ ~Exists(id)
      /\ spawns' = n
      /\ vmRegistry' = [vmRegistry EXCEPT ![id] = [ip |-> a, machine |-> 0]]
      /\ call' = [call EXCEPT ![c] = [op |-> "tap", id |-> id, ip |-> a, serial |-> n]]
  BY DEF SpawnReserve, host, clients
<1>2. a \in Addresses /\ a \notin UsedIPs /\ a # 0
  BY FreeIPFound DEF SpawnReserve
<1> HIDE DEF a
<1>3. /\ vmRegistry \in [VMIDs -> VMRec] /\ call \in [Calls -> CallRec]
      /\ n \in Serials /\ spawns \in Nat /\ n \in 1..n /\ 0 \in Serials
  BY TypeParts, OrchestratorBounds DEF SpawnReserve, Serials
<1>4. [ip |-> a, machine |-> 0] \in VMRec /\ [op |-> "tap", id |-> id, ip |-> a, serial |-> n] \in CallRec
  BY <1>2, <1>3 DEF VMRec, CallRec, Ops
<1>5. /\ vmRegistry' \in [VMIDs -> VMRec] /\ vmRegistry'[id] = [ip |-> a, machine |-> 0]
      /\ \A i \in VMIDs \ {id} : vmRegistry'[i] = vmRegistry[i]
      /\ call' \in [Calls -> CallRec]
      /\ call'[c] = [op |-> "tap", id |-> id, ip |-> a, serial |-> n]
      /\ \A d \in Calls \ {c} : call'[d] = call[d]
  BY <1>1, <1>3, <1>4
<1>6. vmRegistry[id].ip = 0 /\ vmRegistry[id].machine = 0
  BY <1>1, NoVMFacts
<1>7. TypeOK'
  BY <1>1, <1>3, <1>5, OrchestratorBounds DEF TypeOK, VMRec, CallRec, Ops, Serials
<1>8. \A i \in VMIDs : Exists(i) => vmRegistry[i].ip # a
  BY <1>2 DEF UsedIPs
<1>9. ASSUME ~misused' PROVE Ownership'
  <2>1. HandlerInv /\ TapInv /\ LeaseInv
    BY <1>1, <1>9 DEF Ownership
  <2>2. HandlerInv'
    <3>1. \A i \in VMIDs : Exists(i)' => i = id \/ Exists(i)
      BY <1>5
    <3>2. EntriesHaveIP'
      BY <1>2, <1>5, <2>1 DEF HandlerInv, EntriesHaveIP
    <3>3. TentativeOwned'
      BY <1>1, <1>5, <2>1 DEF HandlerInv, TentativeOwned
    <3>4. MachineOwned'
      <4> SUFFICES ASSUME NEW i \in VMIDs, vmRegistry'[i].machine # 0
                   PROVE  /\ vmRegistry'[i].machine <= n
                          /\ \A d \in Calls : Busy(d)' /\ call'[d].serial = vmRegistry'[i].machine =>
                                Stopping(d)' /\ call'[d].id = i
        BY <1>1 DEF MachineOwned
      <4>1. i # id /\ vmRegistry'[i] = vmRegistry[i] /\ vmRegistry[i].machine \in Nat
        BY <1>3, <1>5, OrchestratorBounds DEF VMRec, Serials
      <4>2. vmRegistry[i].machine <= spawns
        BY <2>1, <4>1 DEF HandlerInv, MachineOwned
      <4>3. vmRegistry[i].machine <= n /\ vmRegistry[i].machine # n
        BY <1>3, <4>1, <4>2
      <4> QED BY <1>5, <2>1, <4>1, <4>3 DEF HandlerInv, MachineOwned
    <3>5. EntriesDistinct'
      BY <1>5, <1>8, <2>1, <3>1 DEF HandlerInv, EntriesDistinct
    <3>6. ASSUME NEW d \in Calls, Busy(d), d # c
          PROVE  call[d].serial \in 1..n /\ call[d].serial # n
      BY <1>3, <2>1, <3>6, SerialsGivenOut DEF HandlerInv
    <3>7. ASSUME NEW d \in Calls, d # c, Spawning(d) \/ Stopping(d)
          PROVE  call[d].id \in VMIDs /\ call[d].id # id
      <4>1. Spawning(d) => vmRegistry[call[d].id].ip # 0
        BY <2>1 DEF HandlerInv, CallsMatchEntries
      <4>2. Stopping(d) => vmRegistry[call[d].id].machine # 0
        BY <2>1, SerialsGivenOut DEF HandlerInv, CallsMatchEntries
      <4> QED BY <1>6, <3>7, <4>1, <4>2, CallTypes
    <3>8. CallsMatchEntries'
      BY <1>1, <1>2, <1>3, <1>5, <2>1, <3>6, <3>7 DEF HandlerInv, CallsMatchEntries
    <3>9. CallsDistinct'
      BY <1>5, <2>1, <3>6, <3>7 DEF HandlerInv, CallsDistinct
    <3> QED BY <3>2, <3>3, <3>4, <3>5, <3>8, <3>9 DEF HandlerInv
  <2>3. TapInv'
    BY <1>1, <1>5, <2>1 DEF TapInv, RunningVMHasItsTap
  <2>4. LeaseInv'
    <3>1. \A l \in leases : l.serial \in 1..n /\ l.serial # n
      BY <1>3, <2>1 DEF LeaseInv
    <3> QED BY <1>1, <1>5, <2>1, <3>1 DEF LeaseInv
  <2> QED BY <2>2, <2>3, <2>4 DEF Ownership
<1>10. ASSUME FirstLife' PROVE FirstLifeInv'
  <2>1. FirstLifeInv /\ Ownership /\ ~misused
    BY <1>1, <1>10 DEF FirstLife, FirstLifeInv
  <2>2. \A l \in leases : l.id # id
    BY <1>1, <1>6, <2>1 DEF FirstLifeInv, Ownership, LeaseInv
  <2>3. \A l \in leases : l.id \in VMIDs
    BY TypeParts
  <2> QED BY <1>1, <1>5, <2>1, <2>2, <2>3 DEF FirstLifeInv
<1>11. ASSUME FirstLife', ~CleanupCanFail PROVE HostInv'
  <2>1. HostInv
    BY <1>1, <1>11 DEF FirstLife
  <2>2. VMMInv /\ CallsMatchEntries /\ TapsOwned
    BY <1>1, <1>11, <2>1 DEF FirstLife, FirstLifeInv, Ownership, HandlerInv, HostInv
  <2>3. ASSUME NEW m \in machines, Wanted(m) PROVE m.id \in VMIDs /\ m.id # id
    <3>1. m.id \in VMIDs /\ m.serial # 0
      BY <1>3, <2>2, TypeParts DEF VMMInv, OneVMMPerSpawn, VMMRec
    <3>2. \A d \in Calls : Booting(d) /\ call[d].id = m.id => m.id # id
      BY <1>6, <2>2 DEF CallsMatchEntries
    <3> QED BY <1>6, <2>2, <2>3, <3>1, <3>2 DEF VMMInv, MachinesOwned
  <2>4. TapsOwned'
    BY <1>1, <1>5, <1>6, <2>2 DEF TapsOwned
  <2>5. VMMInv'
    <3>1. OneVMMPerSpawn'
      <4>1. \A m \in machines \cup starts : m.serial \in 1..n /\ m.serial # n
        BY <1>3, <2>2 DEF VMMInv, OneVMMPerSpawn
      <4>2. \A d \in Calls : BeforeStart(d)' => d = c \/ (BeforeStart(d) /\ call'[d].serial = call[d].serial)
        BY <1>5
      <4> QED BY <1>1, <1>5, <2>2, <4>1, <4>2 DEF VMMInv, OneVMMPerSpawn
    <3>2. StartsOwned' /\ StoppedTold'
      BY <1>1, <1>5, <2>2 DEF VMMInv, StartsOwned, StoppedTold, Wanted
    <3>3. MachinesOwned'
      BY <1>1, <1>5, <2>2, <2>3 DEF VMMInv, MachinesOwned, Wanted
    <3> QED BY <3>1, <3>2, <3>3 DEF VMMInv
  <2>6. ShutdownLeavesNothing'
    BY <1>1 DEF ShutdownLeavesNothing
  <2> QED BY <2>4, <2>5, <2>6 DEF HostInv
<1> QED BY <1>7, <1>9, <1>10, <1>11

----------------------------------------------------------------------------
(* Host commands: the registry does not change                             *)

(* No handler takes up new work, though one may end. *)
SameWork ==
    \A d \in Calls :
        /\ ~Busy(d)' => ~Spawning(d)
        /\ Busy(d)' => /\ Busy(d)
                       /\ call'[d].id = call[d].id /\ call'[d].ip = call[d].ip
                       /\ call'[d].serial = call[d].serial
                       /\ Spawning(d)' <=> Spawning(d)
                       /\ Stopping(d)' <=> Stopping(d)

(* So the registry and the handlers fit together as before. *)
LEMMA SameWorkKeeps ==
    ASSUME TypeOK, HandlerInv, LeaseInv, SameWork, UNCHANGED <<vmRegistry, leases, spawns>>
    PROVE  HandlerInv' /\ LeaseInv'
<1>1. \A d \in Calls : /\ Spawning(d) => Spawning(d)' /\ Busy(d)'
                       /\ Spawning(d)' \/ Stopping(d)' => Busy(d)'
  BY DEF SameWork
<1>2. EntriesHaveIP' /\ EntriesDistinct'
  BY DEF HandlerInv, EntriesHaveIP, EntriesDistinct
<1>3. TentativeOwned'
  BY <1>1 DEF HandlerInv, TentativeOwned, SameWork
<1>4. MachineOwned'
  BY <1>1 DEF HandlerInv, MachineOwned, SameWork
<1>5. CallsMatchEntries'
  BY <1>1 DEF HandlerInv, CallsMatchEntries, SameWork
<1>6. CallsDistinct'
  BY <1>1 DEF HandlerInv, CallsDistinct, SameWork
<1>7. LeaseInv'
  BY <1>1 DEF LeaseInv, SameWork
<1> QED BY <1>2, <1>3, <1>4, <1>5, <1>6, <1>7 DEF HandlerInv

(* And so does what only the first life has. *)
LEMMA SameWorkFirstLife ==
    ASSUME FirstLifeInv, SameWork, UNCHANGED <<vmRegistry, leases, misused, phase>>
    PROVE  FirstLifeInv'
BY DEF FirstLifeInv, SameWork

(* A handler still works on the same VM. *)
SameVM(d) == call'[d].id = call[d].id /\ call'[d].ip = call[d].ip /\ call'[d].serial = call[d].serial

(* No process starts or ends, and a handler that boots one goes on. *)
LEMMA VMMsKept ==
    ASSUME VMMInv, UNCHANGED <<vmms, spawns>>,
           \A d \in Calls :
               /\ At(d, "booting") => At(d, "booting")' /\ SameVM(d)
               /\ BeforeStart(d)' => BeforeStart(d) /\ SameVM(d)
               /\ At(d, "unregister")' => At(d, "unregister") /\ SameVM(d)
    PROVE  /\ OneVMMPerSpawn' /\ StartsOwned' /\ StoppedTold'
           /\ UNCHANGED vmRegistry /\ (\A d \in Calls : At(d, "register") => At(d, "register")' /\ SameVM(d))
                  => VMMInv'
<1>1. OneVMMPerSpawn'
  BY DEF VMMInv, OneVMMPerSpawn, SameVM
<1>2. StartsOwned'
  BY DEF VMMInv, StartsOwned, SameVM
<1>3. StoppedTold'
  BY DEF VMMInv, StoppedTold, Wanted, SameVM
<1>4. ASSUME UNCHANGED vmRegistry, \A d \in Calls : At(d, "register") => At(d, "register")' /\ SameVM(d)
      PROVE  MachinesOwned'
  <2>1. \A d \in Calls : Booting(d) => Booting(d)' /\ SameVM(d)
    BY <1>4
  <2> QED BY <1>4, <2>1 DEF VMMInv, MachinesOwned, Wanted, SameVM
<1> QED BY <1>1, <1>2, <1>3, <1>4 DEF VMMInv

(* Only the owner of an interface removes it. *)
LEMMA OthersKeepTap ==
    ASSUME TypeOK, HandlerInv, TapInv, NEW c \in Calls, HasTap(c), NEW t,
           t = [tap EXCEPT ![tapNameForVM[call[c].id]] = 0]
    PROVE  /\ t \in [TapNames -> Serials]
           /\ \A d \in Calls \ {c} : HasTap(d) => t[tapNameForVM[call[d].id]] = call[d].serial
           /\ \A i \in VMIDs : vmRegistry[i].machine # 0 => t[tapNameForVM[i]] = vmRegistry[i].machine
           /\ \A n \in TapNames : t[n] # 0 => t[n] = tap[n] /\ n # tapNameForVM[call[c].id]
           /\ \A n \in TapNames : n # tapNameForVM[call[c].id] => t[n] = tap[n]
<1> DEFINE name == tapNameForVM[call[c].id]
<1>1. tap \in [TapNames -> Serials] /\ name \in TapNames /\ 0 \in Serials
  BY TypeParts, CallTypes, OrchestratorBounds DEF Serials
<1>2. t \in [TapNames -> Serials] /\ t[name] = 0 /\ \A n \in TapNames \ {name} : t[n] = tap[n]
  BY <1>1
<1>3. tap[name] = call[c].serial
  BY DEF TapInv
<1>4. ASSUME NEW d \in Calls \ {c}, HasTap(d) PROVE t[tapNameForVM[call[d].id]] = call[d].serial
  <2>1. tap[tapNameForVM[call[d].id]] = call[d].serial /\ tapNameForVM[call[d].id] \in TapNames
    BY <1>4, CallTypes DEF TapInv
  <2>2. call[d].serial # call[c].serial
    BY <1>4 DEF HandlerInv, CallsDistinct
  <2> QED BY <1>2, <1>3, <2>1, <2>2
<1>5. ASSUME NEW i \in VMIDs, vmRegistry[i].machine # 0
      PROVE  t[tapNameForVM[i]] = vmRegistry[i].machine
  <2>1. tap[tapNameForVM[i]] = vmRegistry[i].machine /\ tapNameForVM[i] \in TapNames
    BY <1>5, TapNameAssumption DEF TapInv, RunningVMHasItsTap
  <2>2. vmRegistry[i].machine # call[c].serial
    BY <1>5 DEF HandlerInv, MachineOwned
  <2> QED BY <1>2, <1>3, <2>1, <2>2
<1> HIDE DEF name
<1>6. /\ \A n \in TapNames : t[n] # 0 => t[n] = tap[n] /\ n # name
      /\ \A n \in TapNames : n # name => t[n] = tap[n]
  BY <1>2
<1> QED BY <1>2, <1>4, <1>5, <1>6 DEF name

(* The handler creates its interface, or fails. *)
LEMMA SetupTapStep ==
    ASSUME Inv, NEW c \in Calls, SetupTap(c)
    PROVE  Inv'
<1> USE DEF Inv
<1> DEFINE name == tapNameForVM[call[c].id]
<1>1. UNCHANGED <<vmRegistry, phase, disk, vmms, leases, misused, spawns, crashes, restarts>> /\ At(c, "tap")
  BY DEF SetupTap, clients, bounds
<1>2. PICK op \in {"image", "unreserve"} :
          /\ Goto(c, op)
          /\ \/ tap' = tap /\ op = "unreserve"
             \/ /\ tap[name] = 0 /\ tap' = [tap EXCEPT ![name] = call[c].serial]
                /\ op = "image" \/ CleanupCanFail
  BY DEF SetupTap
<1>3. /\ call' \in [Calls -> CallRec]
      /\ \A d \in Calls :
            /\ call'[d].op = IF d = c THEN op ELSE call[d].op
            /\ call'[d].id = call[d].id /\ call'[d].ip = call[d].ip
            /\ call'[d].serial = call[d].serial
  <2>1. op \in Ops
    BY DEF Ops
  <2> QED BY <1>2, <2>1, GotoShape
<1>4. SameWork
  BY <1>1, <1>2, <1>3 DEF SameWork
<1>5. /\ tap \in [TapNames -> Serials] /\ name \in TapNames /\ call[c].serial \in Serials
      /\ \A d \in Calls : tapNameForVM[call[d].id] \in TapNames
  BY TypeParts, CallTypes
<1> HIDE DEF name
<1>6. /\ tap' \in [TapNames -> Serials]
      /\ \A n \in TapNames : tap[n] # 0 => tap'[n] = tap[n]
      /\ \A n \in TapNames : n # name => tap'[n] = tap[n]
      /\ op = "image" => tap'[name] = call[c].serial
      /\ ~CleanupCanFail => op = "image" \/ tap' = tap
  BY <1>2, <1>5
<1>7. TypeOK'
  BY <1>1, <1>3, <1>6 DEF TypeOK, CallRec, Ops
<1>8. ASSUME ~misused' PROVE Ownership'
  <2>1. HandlerInv /\ TapInv /\ LeaseInv
    BY <1>1, <1>8 DEF Ownership
  <2>2. HandlerInv' /\ LeaseInv'
    BY <1>1, <1>4, <2>1, SameWorkKeeps
  <2>3. ASSUME NEW d \in Calls, HasTap(d)' PROVE tap'[tapNameForVM[call'[d].id]] = call'[d].serial
    <3>1. CASE d = c
      BY <1>2, <1>3, <1>6, <2>3, <3>1 DEF name
    <3>2. CASE d # c
      <4>1. HasTap(d) /\ Busy(d)
        BY <1>3, <2>3, <3>2
      <4>2. tap[tapNameForVM[call[d].id]] = call[d].serial
        BY <2>1, <4>1 DEF TapInv
      <4>3. call[d].serial # 0
        BY <2>1, <4>1, SerialsGivenOut DEF HandlerInv
      <4> QED BY <1>3, <1>5, <1>6, <4>2, <4>3
    <3> QED BY <3>1, <3>2
  <2>4. RunningVMHasItsTap'
    BY <1>1, <1>6, <2>1, TapNameAssumption DEF TapInv, RunningVMHasItsTap
  <2> QED BY <2>2, <2>3, <2>4 DEF Ownership, TapInv
<1>9. ASSUME FirstLife' PROVE FirstLifeInv'
  BY <1>1, <1>4, <1>9, SameWorkFirstLife DEF FirstLife
<1>10. ASSUME FirstLife', ~CleanupCanFail PROVE HostInv'
  <2>1. HostInv /\ phase # "stopped"
    BY <1>1, <1>10 DEF FirstLife, FirstLifeInv
  <2>2. TapsOwned'
    <3> SUFFICES ASSUME NEW k \in TapNames, tap'[k] # 0
                 PROVE  (\/ \E i \in VMIDs : tapNameForVM[i] = k /\ vmRegistry[i].machine = tap[k]
                         \/ \E d \in Calls : /\ HasTap(d) /\ tapNameForVM[call[d].id] = k
                                             /\ call[d].serial = tap[k])'
      BY DEF TapsOwned
    <3>1. CASE tap[k] # 0
      <4>1. tap'[k] = tap[k]
        BY <1>6, <3>1
      <4>2. \A d \in Calls : HasTap(d) => HasTap(d)'
        BY <1>1, <1>3
      <4> QED BY <1>1, <1>3, <2>1, <3>1, <4>1, <4>2 DEF HostInv, TapsOwned
    <3>2. CASE tap[k] = 0
      <4>1. op = "image" /\ k = name
        BY <1>6, <1>10, <3>2
      <4> QED BY <1>3, <1>6, <4>1 DEF name
    <3> QED BY <3>1, <3>2
  <2>3. VMMInv'
    BY <1>1, <1>2, <1>3, <2>1, VMMsKept DEF HostInv, SameVM
  <2>4. ShutdownLeavesNothing'
    BY <1>1, <2>1 DEF ShutdownLeavesNothing
  <2> QED BY <2>2, <2>3, <2>4 DEF HostInv
<1> QED BY <1>7, <1>8, <1>9, <1>10

(* The handler creates its disk image, or fails half way. *)
LEMMA CreateImageStep ==
    ASSUME Inv, NEW c \in Calls, CreateImage(c)
    PROVE  Inv'
<1> USE DEF Inv
<1>1. UNCHANGED <<vmRegistry, phase, tap, vmms, leases, misused, spawns, crashes, restarts>> /\ At(c, "image")
  BY DEF CreateImage, clients, bounds
<1>2. PICK op \in {"boot", "untap"} : Goto(c, op)
  BY DEF CreateImage
<1>3. /\ call' \in [Calls -> CallRec]
      /\ \A d \in Calls :
            /\ call'[d].op = IF d = c THEN op ELSE call[d].op
            /\ call'[d].id = call[d].id /\ call'[d].ip = call[d].ip
            /\ call'[d].serial = call[d].serial
  <2>1. op \in Ops
    BY DEF Ops
  <2> QED BY <1>2, <2>1, GotoShape
<1>4. SameWork /\ \A d \in Calls : HasTap(d)' <=> HasTap(d)
  BY <1>1, <1>2, <1>3 DEF SameWork
<1>5. disk' \in [VMIDs -> Serials]
  <2>1. \E v \in {0, call[c].serial} : disk' = [disk EXCEPT ![call[c].id] = v]
    BY DEF CreateImage
  <2>2. {0, call[c].serial} \subseteq Serials /\ call[c].id \in VMIDs /\ disk \in [VMIDs -> Serials]
    BY TypeParts, CallTypes, OrchestratorBounds DEF Serials
  <2> QED BY <2>1, <2>2
<1>6. TypeOK'
  BY <1>1, <1>3, <1>5 DEF TypeOK, CallRec, Ops
<1>7. ASSUME ~misused' PROVE Ownership'
  <2>1. HandlerInv /\ TapInv /\ LeaseInv
    BY <1>1, <1>7 DEF Ownership
  <2>2. HandlerInv' /\ LeaseInv'
    BY <1>1, <1>4, <2>1, SameWorkKeeps
  <2>3. TapInv'
    BY <1>1, <1>3, <1>4, <2>1 DEF TapInv, RunningVMHasItsTap
  <2> QED BY <2>2, <2>3 DEF Ownership
<1>8. ASSUME FirstLife' PROVE FirstLifeInv'
  BY <1>1, <1>4, <1>8, SameWorkFirstLife DEF FirstLife
<1>9. ASSUME FirstLife', ~CleanupCanFail PROVE HostInv'
  <2>1. HostInv
    BY <1>1, <1>9 DEF FirstLife
  <2>2. TapsOwned'
    BY <1>1, <1>3, <1>4, <2>1 DEF HostInv, TapsOwned
  <2>3. VMMInv'
    BY <1>1, <1>2, <1>3, <2>1, VMMsKept DEF HostInv, SameVM
  <2>4. ShutdownLeavesNothing'
    BY <1>1, <2>1 DEF HostInv, ShutdownLeavesNothing, Wanted
  <2> QED BY <2>2, <2>3, <2>4 DEF HostInv
<1> QED BY <1>6, <1>7, <1>8, <1>9

(* Removing the interface on behalf of its owner, which then has none. *)
LEMMA RemoveTapStep ==
    ASSUME Inv, NEW c \in Calls, UndoTap(c) \/ DeleteTap(c)
    PROVE  Inv'
<1> USE DEF Inv
<1> DEFINE name == tapNameForVM[call[c].id]
           cut == [tap EXCEPT ![tapNameForVM[call[c].id]] = 0]
<1>1. /\ UNCHANGED <<vmRegistry, phase, disk, vmms, leases, misused, spawns, crashes, restarts>>
      /\ HasTap(c) /\ (At(c, "untap") \/ At(c, "deltap"))
      /\ tap' = cut \/ (CleanupCanFail /\ tap' = tap)
  BY CleanupAssumption DEF UndoTap, DeleteTap, CleanupTapInterface, clients, bounds
<1>2. PICK op \in {"unreserve", "delimage"} : Goto(c, op) /\ (op = "unreserve" <=> At(c, "untap"))
  BY DEF UndoTap, DeleteTap
<1>3. /\ call' \in [Calls -> CallRec]
      /\ \A d \in Calls :
            /\ call'[d].op = IF d = c THEN op ELSE call[d].op
            /\ call'[d].id = call[d].id /\ call'[d].ip = call[d].ip
            /\ call'[d].serial = call[d].serial
  <2>1. op \in Ops
    BY DEF Ops
  <2> QED BY <1>2, <2>1, GotoShape
<1>4. SameWork /\ \A d \in Calls : HasTap(d)' <=> HasTap(d) /\ d # c
  BY <1>1, <1>2, <1>3 DEF SameWork
<1>5. tap \in [TapNames -> Serials] /\ name \in TapNames /\ 0 \in Serials
  BY TypeParts, CallTypes, OrchestratorBounds DEF Serials
<1>6. tap' \in [TapNames -> Serials]
  BY <1>1, <1>5
<1>7. TypeOK'
  BY <1>1, <1>3, <1>6 DEF TypeOK, CallRec, Ops
<1>8. ASSUME ~misused' PROVE Ownership'
  <2>1. HandlerInv /\ TapInv /\ LeaseInv
    BY <1>1, <1>8 DEF Ownership
  <2>2. HandlerInv' /\ LeaseInv'
    BY <1>1, <1>4, <2>1, SameWorkKeeps
  <2>3. TapInv'
    <3>1. CASE tap' = tap
      BY <1>1, <1>3, <1>4, <2>1, <3>1 DEF TapInv, RunningVMHasItsTap
    <3>2. CASE tap' = cut
      <4>1. ASSUME NEW d \in Calls \ {c}, HasTap(d) PROVE tap'[tapNameForVM[call[d].id]] = call[d].serial
        <5>1. tap[tapNameForVM[call[d].id]] = call[d].serial /\ tap[name] = call[c].serial
          BY <1>1, <2>1, <4>1 DEF TapInv
        <5>2. call[d].serial # call[c].serial /\ tapNameForVM[call[d].id] \in TapNames
          BY <1>1, <2>1, <4>1, CallTypes DEF HandlerInv, CallsDistinct
        <5> QED BY <1>5, <3>2, <5>1, <5>2
      <4>2. \A i \in VMIDs : vmRegistry[i].machine # 0 => tap'[tapNameForVM[i]] = vmRegistry[i].machine
        BY <1>1, <2>1, <3>2, OthersKeepTap
      <4> QED BY <1>1, <1>3, <1>4, <4>1, <4>2 DEF TapInv, RunningVMHasItsTap
    <3> QED BY <1>1, <3>1, <3>2
  <2> QED BY <2>2, <2>3 DEF Ownership
<1>9. ASSUME FirstLife' PROVE FirstLifeInv'
  BY <1>1, <1>4, <1>9, SameWorkFirstLife DEF FirstLife
<1>10. ASSUME FirstLife', ~CleanupCanFail PROVE HostInv'
  <2>1. HostInv /\ HandlerInv /\ TapInv /\ phase # "stopped" /\ tap' = cut
    BY <1>1, <1>10 DEF FirstLife, FirstLifeInv, Ownership
  <2>2. TapsOwned'
    <3>1. \A n \in TapNames : tap'[n] # 0 => tap'[n] = tap[n] /\ n # name
      BY <1>1, <2>1, OthersKeepTap
    <3> HIDE DEF name
    <3> SUFFICES ASSUME NEW n \in TapNames, tap'[n] # 0
                 PROVE  (\/ \E i \in VMIDs : tapNameForVM[i] = n /\ vmRegistry[i].machine = tap[n]
                         \/ \E d \in Calls : /\ HasTap(d) /\ tapNameForVM[call[d].id] = n
                                             /\ call[d].serial = tap[n])'
      BY DEF TapsOwned
    <3>2. tap[n] # 0 /\ tap'[n] = tap[n] /\ n # name
      BY <3>1
    <3>3. \A d \in Calls : HasTap(d) /\ tapNameForVM[call[d].id] = n => HasTap(d)'
      BY <1>4, <3>2 DEF name
    <3> QED BY <1>1, <1>3, <2>1, <3>2, <3>3 DEF HostInv, TapsOwned
  <2>3. VMMInv'
    BY <1>1, <1>2, <1>3, <2>1, VMMsKept DEF HostInv, SameVM
  <2>4. ShutdownLeavesNothing'
    BY <1>1, <2>1 DEF ShutdownLeavesNothing
  <2> QED BY <2>2, <2>3, <2>4 DEF HostInv
<1> QED BY <1>7, <1>8, <1>9, <1>10

(* Steps that leave the registry, the interfaces and every place a handler *)
(* holds as they are, and keep what ties the processes to them.            *)
LEMMA VMMStep ==
    ASSUME Inv, SameWork, call' \in [Calls -> CallRec],
           \A d \in Calls : HasTap(d)' <=> HasTap(d),
           UNCHANGED <<vmRegistry, phase, tap, leases, misused, spawns, crashes, restarts>>,
           disk' \in [VMIDs -> Serials], machines' \subseteq VMMRec, starts' \subseteq VMMRec,
           signalled' \subseteq Serials, abandoned' \subseteq Serials, spared' \subseteq Serials,
           FirstLife /\ ~CleanupCanFail => VMMInv',
           \/ machines' \subseteq machines /\ \A m \in machines' : Wanted(m)' => Wanted(m)
           \/ FirstLife /\ ~CleanupCanFail /\ phase = "stopped" => \A m \in machines' : ~Wanted(m)'
    PROVE  Inv'
<1> USE DEF Inv
<1>1. TypeOK'
  BY DEF TypeOK, CallRec, VMMRec, Ops
<1>2. ASSUME ~misused' PROVE Ownership'
  <2>1. HandlerInv /\ TapInv /\ LeaseInv
    BY <1>2 DEF Ownership
  <2>2. HandlerInv' /\ LeaseInv'
    BY <2>1, SameWorkKeeps
  <2>3. TapInv'
    BY <2>1 DEF TapInv, RunningVMHasItsTap, SameWork
  <2> QED BY <2>2, <2>3 DEF Ownership
<1>3. ASSUME FirstLife' PROVE FirstLifeInv'
  BY <1>3, SameWorkFirstLife DEF FirstLife
<1>4. ASSUME FirstLife', ~CleanupCanFail PROVE HostInv'
  <2>1. HostInv /\ VMMInv' /\ FirstLife
    BY <1>4 DEF FirstLife
  <2>2. \A d \in Calls : HasTap(d) => HasTap(d)' /\ call'[d].id = call[d].id /\ call'[d].serial = call[d].serial
    BY DEF SameWork
  <2>3. TapsOwned'
    BY <2>1, <2>2 DEF HostInv, TapsOwned
  <2>4. ShutdownLeavesNothing'
    BY <1>4, <2>1 DEF HostInv, ShutdownLeavesNothing
  <2> QED BY <2>1, <2>3, <2>4 DEF HostInv
<1> QED BY <1>1, <1>2, <1>3, <1>4

(* A goroutine is started for the machine, or the spawn fails before. *)
LEMMA StartMachineStep ==
    ASSUME Inv, NEW c \in Calls, StartMachine(c)
    PROVE  Inv'
<1> USE DEF Inv
<1> DEFINE vm == VMOf(c)
<1>1. /\ UNCHANGED <<vmRegistry, phase, tap, disk, machines, signalled, abandoned, spared>>
      /\ UNCHANGED <<leases, misused, spawns, crashes, restarts>> /\ At(c, "boot")
  BY DEF StartMachine, clients, bounds
<1>2. PICK op \in {"booting", "untap"} :
          Goto(c, op) /\ starts' = IF op = "booting" THEN starts \cup {vm} ELSE starts
  BY DEF StartMachine
<1>3. /\ call' \in [Calls -> CallRec]
      /\ \A d \in Calls : call'[d].op = (IF d = c THEN op ELSE call[d].op) /\ SameVM(d)
  <2>1. op \in Ops
    BY DEF Ops
  <2> QED BY <1>2, <2>1, GotoShape DEF SameVM
<1>4. SameWork /\ \A d \in Calls : HasTap(d)' <=> HasTap(d)
  BY <1>1, <1>2, <1>3 DEF SameWork, SameVM
<1>5. vm \in VMMRec /\ vm.serial = call[c].serial /\ vm.id = call[c].id /\ vm.ip = call[c].ip
  BY CallTypes DEF VMOf, VMMRec
<1> HIDE DEF vm
<1>6. starts' \subseteq VMMRec
  BY <1>2, <1>5, TypeParts
<1>7. FirstLife /\ ~CleanupCanFail => VMMInv'
  <2> SUFFICES ASSUME FirstLife, ~CleanupCanFail PROVE VMMInv'
    OBVIOUS
  <2>1. VMMInv /\ HandlerInv
    BY DEF HostInv, FirstLifeInv, Ownership
  <2>2. /\ \A m \in machines \cup starts : m.serial # vm.serial
        /\ \A d \in Calls \ {c} : Busy(d) => call[d].serial # vm.serial
        /\ vm.serial \in 1..spawns
    BY <1>1, <1>5, <2>1 DEF VMMInv, OneVMMPerSpawn, HandlerInv, CallsDistinct, CallsMatchEntries
  <2>3. OneVMMPerSpawn'
    <3>1. \A d \in Calls : BeforeStart(d)' => d # c /\ BeforeStart(d) /\ SameVM(d) /\ Busy(d)
      BY <1>2, <1>3
    <3>2. \A m \in starts' : m \in starts \/ m = vm
      BY <1>2
    <3> QED BY <1>1, <2>1, <2>2, <3>1, <3>2 DEF VMMInv, OneVMMPerSpawn, SameVM
  <2>4. StartsOwned'
    <3>1. \A d \in Calls : At(d, "booting") => At(d, "booting")' /\ SameVM(d)
      BY <1>1, <1>3
    <3>2. vm \in starts' => vm \in starts \/ (At(c, "booting")' /\ SameVM(c))
      BY <1>2, <1>3
    <3>3. \A m \in starts' : m \in starts \/ m = vm
      BY <1>2
    <3> QED BY <1>1, <1>5, <2>1, <3>1, <3>2, <3>3 DEF VMMInv, StartsOwned, SameVM
  <2>5. MachinesOwned' /\ StoppedTold'
    <3>1. \A d \in Calls : /\ Booting(d) => Booting(d)' /\ SameVM(d)
                           /\ At(d, "unregister")' => At(d, "unregister") /\ SameVM(d)
      BY <1>1, <1>2, <1>3
    <3> QED BY <1>1, <2>1, <3>1 DEF VMMInv, MachinesOwned, StoppedTold, Wanted, SameVM
  <2> QED BY <2>3, <2>4, <2>5 DEF VMMInv
<1>8. \A m \in machines : Wanted(m)' => Wanted(m)
  BY <1>1 DEF Wanted
<1> QED BY <1>1, <1>3, <1>4, <1>6, <1>7, <1>8, VMMStep, TypeParts

(* The goroutine of machine.Start forks the process. *)
LEMMA ForkVMMStep ==
    ASSUME Inv, NEW vm \in starts, ForkVMM(vm)
    PROVE  Inv'
<1> USE DEF Inv
<1>1. /\ UNCHANGED <<vmRegistry, phase, call, tap, disk, signalled, abandoned, spared>>
      /\ UNCHANGED <<leases, misused, spawns, crashes, restarts>>
      /\ starts' = starts \ {vm} /\ machines' = machines \cup {vm}
  BY DEF ForkVMM, clients, bounds
<1>2. /\ call' \in [Calls -> CallRec] /\ SameWork
      /\ machines' \subseteq VMMRec /\ starts' \subseteq VMMRec
      /\ \A m \in machines \cup {vm} : Wanted(m)' <=> Wanted(m)
  BY <1>1, TypeParts DEF SameWork, Wanted
<1>3. FirstLife /\ ~CleanupCanFail => VMMInv' /\ (phase = "stopped" => ~Wanted(vm))
  <2> SUFFICES ASSUME FirstLife, ~CleanupCanFail PROVE VMMInv' /\ (phase = "stopped" => ~Wanted(vm))
    OBVIOUS
  <2>1. VMMInv /\ HandlerInv /\ (phase = "stopped" => \A c \in Calls : At(c, "idle"))
    BY DEF HostInv, FirstLifeInv, Ownership
  <2>2. ASSUME Wanted(vm)
        PROVE  \E c \in Calls : /\ At(c, "booting")
                                /\ call[c].serial = vm.serial /\ call[c].id = vm.id /\ call[c].ip = vm.ip
    BY <2>1, <2>2 DEF VMMInv, StartsOwned, Wanted
  <2>3. OneVMMPerSpawn'
    BY <1>1, <2>1 DEF VMMInv, OneVMMPerSpawn
  <2>4. StartsOwned'
    BY <1>1, <2>1 DEF VMMInv, StartsOwned
  <2>5. MachinesOwned'
    <3>1. Wanted(vm) => /\ vmRegistry[vm.id].ip = vm.ip
                        /\ \E c \in Calls : Booting(c) /\ call[c].serial = vm.serial /\ call[c].id = vm.id
      BY <2>1, <2>2 DEF HandlerInv, CallsMatchEntries
    <3> QED BY <1>1, <1>2, <2>1, <3>1 DEF VMMInv, MachinesOwned
  <2>6. StoppedTold'
    <3>1. Wanted(vm) => \A d \in Calls : At(d, "unregister") => call[d].serial # vm.serial
      BY <2>1, <2>2 DEF HandlerInv, CallsDistinct
    <3> QED BY <1>1, <1>2, <2>1, <3>1 DEF VMMInv, StoppedTold
  <2> QED BY <2>1, <2>2, <2>3, <2>4, <2>5, <2>6 DEF VMMInv
<1>4. FirstLife /\ ~CleanupCanFail /\ phase = "stopped" => \A m \in machines' : ~Wanted(m)'
  BY <1>1, <1>2, <1>3 DEF HostInv, ShutdownLeavesNothing
<1> QED BY <1>1, <1>2, <1>3, <1>4, VMMStep, TypeParts

(* A booted machine is one that its goroutine has forked. *)
LEMMA BootSucceedsStep ==
    ASSUME Inv, NEW c \in Calls, BootSucceeds(c)
    PROVE  Inv'
<1> USE DEF Inv
<1>1. /\ UNCHANGED <<vmRegistry, phase, tap, disk, vmms, leases, misused, spawns, crashes, restarts>>
      /\ At(c, "booting") /\ VMOf(c) \in machines /\ Goto(c, "register")
  BY DEF BootSucceeds, host, clients, bounds
<1>2. /\ call' \in [Calls -> CallRec]
      /\ \A d \in Calls : call'[d].op = (IF d = c THEN "register" ELSE call[d].op) /\ SameVM(d)
  <2>1. "register" \in Ops
    BY DEF Ops
  <2> QED BY <1>1, <2>1, GotoShape DEF SameVM
<1>3. SameWork /\ \A d \in Calls : HasTap(d)' <=> HasTap(d)
  BY <1>1, <1>2 DEF SameWork, SameVM
<1>4. FirstLife /\ ~CleanupCanFail => VMMInv'
  <2> SUFFICES ASSUME FirstLife, ~CleanupCanFail PROVE VMMInv'
    OBVIOUS
  <2>1. VMMInv
    BY DEF HostInv
  <2>2. \A vm \in starts : vm.serial # call[c].serial
    BY <1>1, <2>1 DEF VMMInv, OneVMMPerSpawn, VMOf
  <2>3. OneVMMPerSpawn'
    BY <1>1, <1>2, <2>1 DEF VMMInv, OneVMMPerSpawn, SameVM
  <2>4. StartsOwned'
    BY <1>1, <1>2, <2>1, <2>2 DEF VMMInv, StartsOwned, SameVM
  <2>5. MachinesOwned' /\ StoppedTold'
    <3>1. \A d \in Calls : /\ Booting(d) => Booting(d)' /\ SameVM(d)
                           /\ At(d, "unregister")' => At(d, "unregister") /\ SameVM(d)
      BY <1>1, <1>2
    <3> QED BY <1>1, <2>1, <3>1 DEF VMMInv, MachinesOwned, StoppedTold, Wanted, SameVM
  <2> QED BY <2>3, <2>4, <2>5 DEF VMMInv
<1>5. \A m \in machines : Wanted(m)' => Wanted(m)
  BY <1>1 DEF Wanted
<1> QED BY <1>1, <1>2, <1>3, <1>4, <1>5, VMMStep, TypeParts

(* A boot that failed or timed out: its handler gives the machine up. *)
LEMMA BootFailsStep ==
    ASSUME Inv, NEW c \in Calls, BootFails(c)
    PROVE  Inv'
<1> USE DEF Inv
<1>1. /\ UNCHANGED <<vmRegistry, phase, tap, disk, machines, spared>>
      /\ UNCHANGED <<leases, misused, spawns, crashes, restarts>>
      /\ At(c, "booting") /\ Goto(c, "untap")
      /\ abandoned' = abandoned \cup {call[c].serial}
      /\ starts' \subseteq starts
      /\ signalled \subseteq signalled' /\ signalled' \subseteq signalled \cup {call[c].serial}
  BY DEF BootFails, SendSIGTERM, clients, bounds
<1>2. /\ call' \in [Calls -> CallRec]
      /\ \A d \in Calls : call'[d].op = (IF d = c THEN "untap" ELSE call[d].op) /\ SameVM(d)
  <2>1. "untap" \in Ops
    BY DEF Ops
  <2> QED BY <1>1, <2>1, GotoShape DEF SameVM
<1>3. SameWork /\ \A d \in Calls : HasTap(d)' <=> HasTap(d)
  BY <1>1, <1>2 DEF SameWork, SameVM
<1>4. starts' \subseteq VMMRec /\ signalled' \subseteq Serials /\ abandoned' \subseteq Serials
  BY <1>1, TypeParts, CallTypes
<1>5. \A m \in machines : Wanted(m)' => Wanted(m) /\ m.serial # call[c].serial
  BY <1>1 DEF Wanted
<1>6. FirstLife /\ ~CleanupCanFail => VMMInv'
  <2> SUFFICES ASSUME FirstLife, ~CleanupCanFail PROVE VMMInv'
    OBVIOUS
  <2>1. VMMInv
    BY DEF HostInv
  <2>2. OneVMMPerSpawn'
    BY <1>1, <1>2, <2>1 DEF VMMInv, OneVMMPerSpawn, SameVM
  <2>3. StartsOwned'
    <3>1. \A d \in Calls : At(d, "booting") /\ d # c => At(d, "booting")' /\ SameVM(d)
      BY <1>2
    <3> QED BY <1>1, <2>1, <3>1 DEF VMMInv, StartsOwned, SameVM
  <2>4. MachinesOwned' /\ StoppedTold'
    <3>1. \A d \in Calls : /\ Booting(d) /\ d # c => Booting(d)' /\ SameVM(d)
                           /\ At(d, "unregister")' => At(d, "unregister") /\ SameVM(d)
      BY <1>1, <1>2
    <3> QED BY <1>1, <1>5, <2>1, <3>1 DEF VMMInv, MachinesOwned, StoppedTold, SameVM
  <2> QED BY <2>2, <2>3, <2>4 DEF VMMInv
<1> QED BY <1>1, <1>2, <1>3, <1>4, <1>5, <1>6, VMMStep, TypeParts

(* StopVMM: the process is told to stop, or the handler gives up. *)
LEMMA StopVMMStep ==
    ASSUME Inv, NEW c \in Calls, StopVMM(c)
    PROVE  Inv'
<1> USE DEF Inv
<1>1. /\ UNCHANGED <<vmRegistry, phase, tap, disk, machines, starts, abandoned>>
      /\ UNCHANGED <<leases, misused, spawns, crashes, restarts>> /\ At(c, "stop")
  BY DEF StopVMM, clients, bounds
<1>2. CASE SendSIGTERM(call[c].serial) /\ UNCHANGED spared /\ Goto(c, "unregister")
  <2>1. /\ call' \in [Calls -> CallRec]
        /\ \A d \in Calls : call'[d].op = (IF d = c THEN "unregister" ELSE call[d].op) /\ SameVM(d)
    <3>1. "unregister" \in Ops
      BY DEF Ops
    <3> QED BY <1>1, <1>2, <3>1, GotoShape DEF SameVM
  <2>2. SameWork /\ \A d \in Calls : HasTap(d)' <=> HasTap(d)
    BY <1>1, <2>1 DEF SameWork, SameVM
  <2>3. /\ signalled' = signalled \cup ({call[c].serial} \cap {m.serial : m \in machines})
        /\ signalled' \subseteq Serials
    BY <1>2, TypeParts, CallTypes DEF SendSIGTERM
  <2>4. \A m \in machines : Wanted(m)' => Wanted(m) /\ m.serial # call[c].serial
    BY <1>1, <2>3 DEF Wanted
  <2>5. FirstLife /\ ~CleanupCanFail => VMMInv'
    <3> SUFFICES ASSUME VMMInv PROVE VMMInv'
      BY DEF HostInv
    <3>1. OneVMMPerSpawn'
      BY <1>1, <2>1 DEF VMMInv, OneVMMPerSpawn, SameVM
    <3>2. StartsOwned'
      BY <1>1, <2>1 DEF VMMInv, StartsOwned, SameVM
    <3>3. MachinesOwned'
      <4>1. \A d \in Calls : Booting(d) => Booting(d)' /\ SameVM(d)
        BY <1>1, <2>1
      <4> QED BY <1>1, <2>4, <4>1 DEF VMMInv, MachinesOwned, SameVM
    <3>4. StoppedTold'
      BY <1>1, <2>1, <2>4 DEF VMMInv, StoppedTold, SameVM
    <3> QED BY <3>1, <3>2, <3>3, <3>4 DEF VMMInv
  <2> QED BY <1>1, <1>2, <2>1, <2>2, <2>3, <2>4, <2>5, VMMStep, TypeParts
<1>3. CASE CleanupCanFail /\ spared' = spared \cup {call[c].serial} /\ UNCHANGED signalled /\ Return(c)
  <2>1. /\ call' \in [Calls -> CallRec] /\ call'[c].op = "idle"
        /\ \A d \in Calls \ {c} : call'[d] = call[d]
    BY <1>1, <1>3, ReturnShape
  <2>2. SameWork /\ \A d \in Calls : HasTap(d)' <=> HasTap(d)
    BY <1>1, <2>1 DEF SameWork
  <2>3. spared' \subseteq Serials
    BY <1>3, TypeParts, CallTypes
  <2>4. \A m \in machines : Wanted(m)' => Wanted(m)
    BY <1>1, <1>3 DEF Wanted
  <2> QED BY <1>1, <1>3, <2>1, <2>2, <2>3, <2>4, VMMStep, TypeParts
<1> QED BY <1>2, <1>3 DEF StopVMM

(* CleanupSubmissionImage, and the response. *)
LEMMA DeleteImageStep ==
    ASSUME Inv, NEW c \in Calls, DeleteImage(c)
    PROVE  Inv'
<1>1. /\ UNCHANGED <<vmRegistry, phase, tap, vmms, leases, misused, spawns, crashes, restarts>>
      /\ At(c, "delimage") /\ TypeOK /\ Return(c) /\ disk' = [disk EXCEPT ![call[c].id] = 0]
  BY DEF DeleteImage, clients, bounds, Inv
<1>2. disk' \in [VMIDs -> Serials]
  <2>1. 0 \in Serials /\ disk \in [VMIDs -> Serials]
    BY <1>1, TypeParts, OrchestratorBounds DEF Serials
  <2> QED BY <1>1, <2>1
<1>3. /\ call' \in [Calls -> CallRec] /\ call'[c].op = "idle"
      /\ \A d \in Calls \ {c} : call'[d] = call[d]
  BY <1>1, ReturnShape
<1>4. SameWork /\ \A d \in Calls : HasTap(d)' <=> HasTap(d)
  BY <1>1, <1>3 DEF SameWork
<1>5. FirstLife /\ ~CleanupCanFail => VMMInv'
  BY <1>1, <1>3, VMMsKept DEF Inv, HostInv, SameVM
<1>6. \A m \in machines : Wanted(m)' => Wanted(m)
  BY <1>1 DEF Wanted
<1> QED BY <1>1, <1>2, <1>3, <1>4, <1>5, <1>6, VMMStep, TypeParts

(* A process ends. *)
LEMMA VMMExitsStep ==
    ASSUME Inv, NEW m \in machines, VMMExits(m)
    PROVE  Inv'
<1>1. /\ UNCHANGED <<vmRegistry, phase, call, tap, disk, starts, abandoned, spared>>
      /\ UNCHANGED <<leases, misused, spawns, crashes, restarts>>
      /\ machines' = machines \ {m} /\ signalled' = signalled \ {m.serial}
  BY DEF VMMExits, clients, bounds
<1>2. /\ call' \in [Calls -> CallRec] /\ SameWork /\ TypeOK
      /\ machines' \subseteq VMMRec /\ starts' \subseteq VMMRec /\ signalled' \subseteq Serials
  BY <1>1, TypeParts DEF SameWork, Inv
<1>3. ASSUME FirstLife, ~CleanupCanFail
      PROVE  VMMInv' /\ \A n \in machines' : Wanted(n)' => Wanted(n)
  <2>1. VMMInv
    BY <1>3 DEF Inv, HostInv
  <2>2. \A n \in machines' : n \in machines /\ (Wanted(n)' => Wanted(n))
    BY <1>1, <2>1 DEF VMMInv, OneVMMPerSpawn, Wanted
  <2>3. OneVMMPerSpawn' /\ StartsOwned'
    BY <1>1, <2>1 DEF VMMInv, OneVMMPerSpawn, StartsOwned
  <2>4. MachinesOwned' /\ StoppedTold'
    BY <1>1, <2>1, <2>2 DEF VMMInv, MachinesOwned, StoppedTold
  <2> QED BY <2>2, <2>3, <2>4 DEF VMMInv
<1>4. FirstLife /\ ~CleanupCanFail /\ phase = "stopped" => \A n \in machines' : ~Wanted(n)'
  BY <1>1, <1>3 DEF Inv, HostInv, ShutdownLeavesNothing
<1> QED BY <1>1, <1>2, <1>3, <1>4, VMMStep, TypeParts

(* Steps that change nothing. *)
LEMMA StutterStep ==
    ASSUME Inv, UNCHANGED vars
    PROVE  Inv'
<1>1. UNCHANGED <<vmRegistry, phase, call, tap, disk, vmms, leases, misused, spawns, crashes, restarts>>
  BY DEF vars, host, clients, bounds
<1>2. TypeOK /\ call' \in [Calls -> CallRec] /\ SameWork
  BY <1>1, TypeParts DEF Inv, SameWork
<1>3. FirstLife /\ ~CleanupCanFail => VMMInv'
  BY <1>1, VMMsKept DEF Inv, HostInv, SameVM
<1>4. \A m \in machines : Wanted(m)' => Wanted(m)
  BY <1>1 DEF Wanted
<1> QED BY <1>1, <1>2, <1>3, <1>4, VMMStep, TypeParts

----------------------------------------------------------------------------
(* Under the mutex: a handler changes the entry of its id                  *)

(* No other handler builds or stops the VM of that id. *)
LEMMA EntryIsMine ==
    ASSUME TypeOK, HandlerInv, NEW c \in Calls, Spawning(c) \/ Stopping(c),
           NEW d \in Calls, d # c, Spawning(d) \/ Stopping(d)
    PROVE  call[d].id # call[c].id
<1>1. \A e \in Calls : /\ Spawning(e) => vmRegistry[call[e].id].machine = 0
                       /\ Stopping(e) => vmRegistry[call[e].id].machine = call[e].serial
  BY DEF HandlerInv, CallsMatchEntries
<1>2. call[c].serial # 0 /\ call[d].serial # 0
  BY SerialsGivenOut DEF HandlerInv
<1>3. call[c].serial # call[d].serial /\ (Spawning(c) /\ Spawning(d) => call[c].id # call[d].id)
  BY DEF HandlerInv, CallsDistinct
<1> QED BY <1>1, <1>2, <1>3

(* The process of a starting VM is the one its own spawn is booting. *)
LEMMA StartingMachine ==
    ASSUME TypeOK, HandlerInv, VMMInv, NEW c \in Calls, Spawning(c),
           NEW m \in machines, Wanted(m), m.id = call[c].id
    PROVE  Booting(c) /\ call[c].serial = m.serial
<1>1. spawns \in Nat /\ m.serial \in 1..spawns
  BY TypeParts, OrchestratorBounds DEF VMMInv, OneVMMPerSpawn, Serials
<1>2. vmRegistry[call[c].id].machine = 0 /\ m.serial # 0
  BY <1>1 DEF HandlerInv, CallsMatchEntries
<1>3. PICK d \in Calls : Booting(d) /\ call[d].serial = m.serial /\ call[d].id = m.id
  BY <1>2 DEF VMMInv, MachinesOwned
<1>4. d = c
  BY <1>3 DEF HandlerInv, CallsDistinct
<1> QED BY <1>3, <1>4

(* A lease is not on a VM that some handler builds or stops. *)
LEMMA LeaseElsewhere ==
    ASSUME TypeOK, HandlerInv, LeaseInv, FirstLifeInv, phase # "stopped",
           NEW c \in Calls, Spawning(c) \/ Stopping(c), NEW l \in leases
    PROVE  l.id \in VMIDs /\ l.id # call[c].id
<1>1. vmRegistry[l.id].machine = l.serial /\ l.serial \in 1..spawns /\ call[c].serial # l.serial
  BY DEF FirstLifeInv, LeaseInv
<1>2. l.serial # 0 /\ l.id \in VMIDs
  BY <1>1, TypeParts, OrchestratorBounds DEF Serials
<1>3. vmRegistry[call[c].id].machine \in {0, call[c].serial}
  BY DEF HandlerInv, CallsMatchEntries
<1> QED BY <1>1, <1>2, <1>3

(* The entry of the reservation gets its machine. *)
LEMMA RegisterStep ==
    ASSUME Inv, NEW c \in Calls, Register(c)
    PROVE  Inv'
<1> USE DEF Inv
<1> DEFINE id == call[c].id
           n == call[c].serial
           lease == [id |-> call[c].id, serial |-> call[c].serial]
<1>1. /\ UNCHANGED <<phase, tap, disk, vmms, misused, spawns, crashes, restarts>>
      /\ At(c, "register") /\ Return(c)
      /\ vmRegistry' = [vmRegistry EXCEPT ![id] = [ip |-> call[c].ip, machine |-> n]]
      /\ leases' = leases \cup {lease}
  BY DEF Register, host, bounds
<1>2. /\ vmRegistry \in [VMIDs -> VMRec] /\ call \in [Calls -> CallRec] /\ spawns \in Nat
      /\ id \in VMIDs /\ call[c].ip \in Addresses \cup {0} /\ n \in Serials
  BY TypeParts, CallTypes, OrchestratorBounds DEF Serials
<1>3. [ip |-> call[c].ip, machine |-> n] \in VMRec /\ lease \in [id: VMIDs, serial: Serials]
  BY <1>2 DEF VMRec
<1>4. /\ vmRegistry' \in [VMIDs -> VMRec]
      /\ vmRegistry'[id].ip = call[c].ip /\ vmRegistry'[id].machine = n
      /\ \A i \in VMIDs \ {id} : vmRegistry'[i] = vmRegistry[i]
      /\ call' \in [Calls -> CallRec] /\ call'[c].op = "idle"
      /\ \A d \in Calls \ {c} : call'[d] = call[d]
  BY <1>1, <1>2, <1>3, ReturnShape
<1>5. lease.id = id /\ lease.serial = n
  OBVIOUS
<1> HIDE DEF lease
<1>6. TypeOK'
  <2>1. leases' \subseteq [id: VMIDs, serial: Serials]
    BY <1>1, <1>3, TypeParts
  <2> QED BY <1>1, <1>4, <2>1 DEF TypeOK, VMRec, CallRec, Ops
<1>7. ASSUME HandlerInv
      PROVE  /\ vmRegistry[id].ip = call[c].ip /\ vmRegistry[id].machine = 0 /\ call[c].ip # 0
             /\ n # 0 /\ n <= spawns /\ n \in 1..spawns
             /\ \A d \in Calls \ {c} : Busy(d) => call[d].serial # n
             /\ \A i \in VMIDs : vmRegistry[i].machine # n
             /\ \A d \in Calls \ {c} : Spawning(d) \/ Stopping(d) => call[d].id # id
  <2>1. vmRegistry[id].ip = call[c].ip /\ vmRegistry[id].machine = 0 /\ call[c].ip # 0
    BY <1>1, <1>7 DEF HandlerInv, CallsMatchEntries
  <2>2. n # 0 /\ n <= spawns /\ n \in 1..spawns
    BY <1>1, <1>7, SerialsGivenOut DEF HandlerInv, CallsMatchEntries
  <2>3. \A d \in Calls \ {c} : Busy(d) => call[d].serial # n
    BY <1>1, <1>7 DEF HandlerInv, CallsDistinct
  <2>4. \A i \in VMIDs : vmRegistry[i].machine # n
    BY <1>1, <1>7, <2>2 DEF HandlerInv, MachineOwned
  <2>5. \A d \in Calls \ {c} : Spawning(d) \/ Stopping(d) => call[d].id # id
    BY <1>1, <1>7, EntryIsMine
  <2> QED BY <2>1, <2>2, <2>3, <2>4, <2>5
<1> HIDE DEF id, n
<1>8. ASSUME ~misused' PROVE Ownership'
  <2>1. HandlerInv /\ TapInv /\ LeaseInv
    BY <1>1, <1>8 DEF Ownership
  <2>2. HandlerInv'
    <3>1. EntriesHaveIP'
      BY <1>2, <1>4, <1>7, <2>1 DEF HandlerInv, EntriesHaveIP
    <3>2. TentativeOwned'
      BY <1>1, <1>2, <1>4, <1>7, <2>1 DEF HandlerInv, TentativeOwned, id
    <3>3. MachineOwned'
      BY <1>1, <1>2, <1>4, <1>7, <2>1 DEF HandlerInv, MachineOwned
    <3>4. EntriesDistinct'
      <4>1. Exists(id) /\ \A i \in VMIDs \ {id} : Exists(i)' => Exists(i)
        BY <1>4, <1>7, <2>1, NoVMFacts
      <4> QED BY <1>2, <1>4, <1>7, <2>1, <4>1 DEF HandlerInv, EntriesDistinct
    <3>5. CallsMatchEntries'
      BY <1>1, <1>2, <1>4, <1>7, <2>1, CallTypes DEF HandlerInv, CallsMatchEntries
    <3>6. CallsDistinct'
      BY <1>4, <2>1 DEF HandlerInv, CallsDistinct
    <3> QED BY <3>1, <3>2, <3>3, <3>4, <3>5, <3>6 DEF HandlerInv
  <2>3. TapInv'
    BY <1>1, <1>2, <1>4, <2>1 DEF TapInv, RunningVMHasItsTap, id, n
  <2>4. LeaseInv'
    <3>1. \A l \in leases : l.serial # n
      BY <1>1, <2>1 DEF LeaseInv, n
    <3> QED BY <1>1, <1>4, <1>5, <1>7, <2>1, <3>1 DEF LeaseInv
  <2> QED BY <2>2, <2>3, <2>4 DEF Ownership
<1>9. ASSUME FirstLife' PROVE FirstLifeInv'
  <2>1. FirstLifeInv /\ HandlerInv /\ LeaseInv /\ phase # "stopped"
    BY <1>1, <1>9 DEF FirstLife, FirstLifeInv, Ownership
  <2>2. \A l \in leases : l.id \in VMIDs /\ l.id # id
    BY <1>1, <2>1, LeaseElsewhere DEF id
  <2> QED BY <1>1, <1>4, <1>5, <2>1, <2>2 DEF FirstLifeInv
<1>10. ASSUME FirstLife', ~CleanupCanFail PROVE HostInv'
  <2>1. HostInv /\ HandlerInv /\ phase # "stopped"
    BY <1>1, <1>10 DEF FirstLife, FirstLifeInv, Ownership
  <2>2. TapsOwned'
    <3>1. \A i \in VMIDs : vmRegistry[i].machine # 0 => vmRegistry'[i].machine = vmRegistry[i].machine
      BY <1>4, <1>7, <2>1
    <3>2. \A d \in Calls : HasTap(d) => \/ HasTap(d)' /\ call'[d] = call[d]
                                        \/ d = c /\ vmRegistry'[call[d].id].machine = call[d].serial
      BY <1>4 DEF id, n
    <3> QED BY <1>1, <2>1, <3>1, <3>2, CallTypes DEF HostInv, TapsOwned
  <2>3. OneVMMPerSpawn' /\ StartsOwned' /\ StoppedTold'
    BY <1>1, <1>4, <2>1, VMMsKept DEF HostInv, SameVM
  <2>4. MachinesOwned'
    <3> SUFFICES ASSUME NEW m \in machines, Wanted(m)
                 PROVE  (/\ vmRegistry[m.id].ip = m.ip
                         /\ \/ vmRegistry[m.id].machine = m.serial
                            \/ \E d \in Calls : Booting(d) /\ call[d].serial = m.serial /\ call[d].id = m.id)'
      BY <1>1 DEF MachinesOwned, Wanted
    <3>1. m.id \in VMIDs /\ VMMInv
      BY <2>1, TypeParts DEF VMMRec, HostInv
    <3>2. CASE m.id = id
      BY <1>1, <1>4, <1>7, <2>1, <3>1, <3>2, StartingMachine DEF VMMInv, MachinesOwned, id, n
    <3>3. CASE m.id # id
      BY <1>4, <2>1, <3>1, <3>3 DEF VMMInv, MachinesOwned, id
    <3> QED BY <3>2, <3>3
  <2>5. VMMInv'
    BY <2>3, <2>4 DEF VMMInv
  <2>6. ShutdownLeavesNothing'
    BY <1>1, <2>1 DEF ShutdownLeavesNothing
  <2> QED BY <2>2, <2>5, <2>6 DEF HostInv
<1> QED BY <1>6, <1>8, <1>9, <1>10

(* The end of a spawn that failed: the reservation is given back. *)
LEMMA SpawnFailedStep ==
    ASSUME Inv, NEW c \in Calls, SpawnFailed(c)
    PROVE  Inv'
<1> USE DEF Inv
<1> DEFINE id == call[c].id
<1>1. /\ UNCHANGED <<phase, tap, disk, vmms, leases, misused, spawns, crashes, restarts>>
      /\ At(c, "unreserve") /\ Return(c)
      /\ vmRegistry' = [vmRegistry EXCEPT ![id] = NoVM]
  BY DEF SpawnFailed, host, clients, bounds
<1>2. vmRegistry \in [VMIDs -> VMRec] /\ call \in [Calls -> CallRec] /\ id \in VMIDs
  BY TypeParts, CallTypes
<1>3. /\ vmRegistry' \in [VMIDs -> VMRec] /\ vmRegistry'[id] = NoVM
      /\ \A i \in VMIDs \ {id} : vmRegistry'[i] = vmRegistry[i]
      /\ call' \in [Calls -> CallRec] /\ call'[c].op = "idle"
      /\ \A d \in Calls \ {c} : call'[d] = call[d]
  BY <1>1, <1>2, NoVMFacts, ReturnShape
<1>4. TypeOK'
  BY <1>1, <1>3 DEF TypeOK, VMRec, CallRec, Ops
<1>5. ASSUME HandlerInv
      PROVE  /\ vmRegistry[id].machine = 0
             /\ \A d \in Calls \ {c} : Spawning(d) \/ Stopping(d) => call[d].id # id
  BY <1>1, <1>5, EntryIsMine DEF HandlerInv, CallsMatchEntries
<1> HIDE DEF id
<1>6. ASSUME ~misused' PROVE Ownership'
  <2>1. HandlerInv /\ TapInv /\ LeaseInv
    BY <1>1, <1>6 DEF Ownership
  <2>2. HandlerInv'
    <3>1. EntriesHaveIP'
      BY <1>3, <2>1 DEF HandlerInv, EntriesHaveIP
    <3>2. TentativeOwned'
      BY <1>1, <1>2, <1>3, <2>1 DEF HandlerInv, TentativeOwned, id
    <3>3. MachineOwned'
      BY <1>1, <1>2, <1>3, <2>1, NoVMFacts DEF HandlerInv, MachineOwned
    <3>4. EntriesDistinct'
      BY <1>2, <1>3, <2>1 DEF HandlerInv, EntriesDistinct
    <3>5. CallsMatchEntries'
      BY <1>1, <1>2, <1>3, <1>5, <2>1, CallTypes DEF HandlerInv, CallsMatchEntries
    <3>6. CallsDistinct'
      BY <1>3, <2>1 DEF HandlerInv, CallsDistinct
    <3> QED BY <3>1, <3>2, <3>3, <3>4, <3>5, <3>6 DEF HandlerInv
  <2>3. TapInv'
    BY <1>1, <1>2, <1>3, <2>1, NoVMFacts DEF TapInv, RunningVMHasItsTap
  <2>4. LeaseInv'
    BY <1>1, <1>3, <2>1 DEF LeaseInv
  <2> QED BY <2>2, <2>3, <2>4 DEF Ownership
<1>7. ASSUME FirstLife' PROVE FirstLifeInv'
  <2>1. FirstLifeInv /\ HandlerInv /\ LeaseInv /\ phase # "stopped"
    BY <1>1, <1>7 DEF FirstLife, FirstLifeInv, Ownership
  <2>2. \A l \in leases : l.id \in VMIDs /\ l.id # id
    BY <1>1, <2>1, LeaseElsewhere DEF id
  <2> QED BY <1>1, <1>3, <2>1, <2>2 DEF FirstLifeInv
<1>8. ASSUME FirstLife', ~CleanupCanFail PROVE HostInv'
  <2>1. HostInv /\ HandlerInv /\ phase # "stopped"
    BY <1>1, <1>8 DEF FirstLife, FirstLifeInv, Ownership
  <2>2. TapsOwned'
    <3>1. \A i \in VMIDs : vmRegistry[i].machine # 0 => vmRegistry'[i].machine = vmRegistry[i].machine
      BY <1>3, <1>5, <2>1
    <3>2. \A d \in Calls : HasTap(d) => HasTap(d)' /\ call'[d] = call[d]
      BY <1>1, <1>3
    <3> QED BY <1>1, <2>1, <3>1, <3>2 DEF HostInv, TapsOwned
  <2>3. OneVMMPerSpawn' /\ StartsOwned' /\ StoppedTold'
    BY <1>1, <1>3, <2>1, VMMsKept DEF HostInv, SameVM
  <2>4. MachinesOwned'
    <3>1. \A m \in machines : m.id \in VMIDs /\ (Wanted(m) => m.id # id)
      BY <1>1, <2>1, TypeParts, StartingMachine DEF VMMRec, HostInv, id
    <3> QED BY <1>1, <1>3, <2>1, <3>1 DEF HostInv, VMMInv, MachinesOwned, Wanted
  <2>5. VMMInv'
    BY <2>3, <2>4 DEF VMMInv
  <2>6. ShutdownLeavesNothing'
    BY <1>1, <2>1 DEF ShutdownLeavesNothing
  <2> QED BY <2>2, <2>5, <2>6 DEF HostInv
<1> QED BY <1>4, <1>6, <1>7, <1>8

(* A teardown deletes the entry of the process it has stopped. *)
LEMMA UnregisterStep ==
    ASSUME Inv, NEW c \in Calls, Unregister(c)
    PROVE  Inv'
<1> USE DEF Inv
<1> DEFINE id == call[c].id
<1>1. /\ UNCHANGED <<phase, tap, disk, vmms, leases, misused, spawns, crashes, restarts>>
      /\ At(c, "unregister") /\ Goto(c, "deltap")
      /\ vmRegistry' = [vmRegistry EXCEPT ![id] = NoVM]
  BY DEF Unregister, host, clients, bounds
<1>2. vmRegistry \in [VMIDs -> VMRec] /\ call \in [Calls -> CallRec] /\ id \in VMIDs
  BY TypeParts, CallTypes
<1>3. /\ vmRegistry' \in [VMIDs -> VMRec] /\ vmRegistry'[id] = NoVM
      /\ \A i \in VMIDs \ {id} : vmRegistry'[i] = vmRegistry[i]
  BY <1>1, <1>2, NoVMFacts
<1>4. /\ call' \in [Calls -> CallRec]
      /\ \A d \in Calls :
            /\ call'[d].op = IF d = c THEN "deltap" ELSE call[d].op
            /\ call'[d].id = call[d].id /\ call'[d].ip = call[d].ip
            /\ call'[d].serial = call[d].serial
  <2>1. "deltap" \in Ops
    BY DEF Ops
  <2> QED BY <1>1, <2>1, GotoShape
<1>5. TypeOK'
  BY <1>1, <1>3, <1>4 DEF TypeOK, VMRec, CallRec, Ops
<1>6. ASSUME HandlerInv
      PROVE  /\ vmRegistry[id].machine = call[c].serial /\ call[c].serial # 0
             /\ \A d \in Calls \ {c} : Spawning(d) \/ Stopping(d) => call[d].id # id
  BY <1>1, <1>6, EntryIsMine, SerialsGivenOut DEF HandlerInv, CallsMatchEntries
<1> HIDE DEF id
<1>7. ASSUME ~misused' PROVE Ownership'
  <2>1. HandlerInv /\ TapInv /\ LeaseInv
    BY <1>1, <1>7 DEF Ownership
  <2>2. HandlerInv'
    <3>1. EntriesHaveIP'
      BY <1>3, <2>1 DEF HandlerInv, EntriesHaveIP
    <3>2. TentativeOwned'
      BY <1>1, <1>2, <1>3, <1>4, <2>1 DEF HandlerInv, TentativeOwned
    <3>3. MachineOwned'
      BY <1>1, <1>2, <1>3, <1>4, <2>1, NoVMFacts DEF HandlerInv, MachineOwned, id
    <3>4. EntriesDistinct'
      BY <1>2, <1>3, <2>1 DEF HandlerInv, EntriesDistinct
    <3>5. CallsMatchEntries'
      BY <1>1, <1>2, <1>3, <1>4, <1>6, <2>1, CallTypes DEF HandlerInv, CallsMatchEntries
    <3>6. CallsDistinct'
      BY <1>1, <1>4, <2>1 DEF HandlerInv, CallsDistinct
    <3> QED BY <3>1, <3>2, <3>3, <3>4, <3>5, <3>6 DEF HandlerInv
  <2>3. tap[tapNameForVM[id]] = call[c].serial
    BY <1>2, <1>6, <2>1 DEF TapInv, RunningVMHasItsTap
  <2>4. TapInv'
    BY <1>1, <1>2, <1>3, <1>4, <2>1, <2>3, NoVMFacts DEF TapInv, RunningVMHasItsTap, id
  <2>5. LeaseInv'
    BY <1>1, <1>4, <2>1 DEF LeaseInv
  <2> QED BY <2>2, <2>4, <2>5 DEF Ownership
<1>8. ASSUME FirstLife' PROVE FirstLifeInv'
  <2>1. FirstLifeInv /\ HandlerInv /\ LeaseInv /\ phase # "stopped"
    BY <1>1, <1>8 DEF FirstLife, FirstLifeInv, Ownership
  <2>2. \A l \in leases : l.id \in VMIDs /\ l.id # id
    BY <1>1, <2>1, LeaseElsewhere DEF id
  <2> QED BY <1>1, <1>3, <2>1, <2>2 DEF FirstLifeInv
<1>9. ASSUME FirstLife', ~CleanupCanFail PROVE HostInv'
  <2>1. HostInv /\ HandlerInv /\ phase # "stopped"
    BY <1>1, <1>9 DEF FirstLife, FirstLifeInv, Ownership
  <2>2. TapsOwned'
    <3>1. \A i \in VMIDs : vmRegistry[i].machine # 0 =>
              \/ vmRegistry'[i].machine = vmRegistry[i].machine
              \/ i = call[c].id /\ HasTap(c)' /\ call'[c].serial = vmRegistry[i].machine
      BY <1>3, <1>4, <1>6, <2>1 DEF id
    <3>2. \A d \in Calls : HasTap(d) => HasTap(d)'
      BY <1>1, <1>4
    <3> QED BY <1>1, <1>4, <2>1, <3>1, <3>2 DEF HostInv, TapsOwned
  <2>3. OneVMMPerSpawn' /\ StartsOwned' /\ StoppedTold'
    BY <1>1, <1>4, <2>1, VMMsKept DEF HostInv, SameVM
  <2>4. MachinesOwned'
    <3>1. ASSUME NEW m \in machines, Wanted(m), m.id = id PROVE FALSE
      <4>1. m.serial # call[c].serial
        BY <1>1, <2>1, <3>1 DEF HostInv, VMMInv, StoppedTold
      <4>2. PICK d \in Calls : Booting(d) /\ call[d].id = m.id
        BY <1>6, <2>1, <3>1, <4>1 DEF HostInv, VMMInv, MachinesOwned
      <4> QED BY <1>1, <1>6, <2>1, <3>1, <4>2
    <3>2. \A m \in machines : m.id \in VMIDs /\ (Wanted(m) => m.id # id)
      BY <3>1, TypeParts DEF VMMRec
    <3> QED BY <1>1, <1>3, <1>4, <2>1, <3>2 DEF HostInv, VMMInv, MachinesOwned, Wanted
  <2>5. VMMInv'
    BY <2>3, <2>4 DEF VMMInv
  <2>6. ShutdownLeavesNothing'
    BY <1>1, <2>1 DEF ShutdownLeavesNothing
  <2> QED BY <2>2, <2>5, <2>6 DEF HostInv
<1> QED BY <1>5, <1>7, <1>8, <1>9

----------------------------------------------------------------------------
(* Teardown requests                                                       *)

(* A lease on an id that has no entry is gone, and nothing else happens. *)
LEMMA TeardownNotFoundStep ==
    ASSUME Inv, NEW l \in leases, TeardownNotFound(l)
    PROVE  Inv'
<1> USE DEF Inv
<1>1. /\ UNCHANGED <<vmRegistry, phase, call, tap, disk, vmms, misused, spawns, crashes, restarts>>
      /\ leases' \subseteq leases
  BY DEF TeardownNotFound, host, bounds
<1>2. TypeOK'
  BY <1>1 DEF TypeOK
<1>3. ASSUME ~misused' PROVE Ownership'
  <2>1. HandlerInv /\ TapInv /\ LeaseInv
    BY <1>1, <1>3 DEF Ownership
  <2>2. HandlerInv'
    BY <1>1, <2>1 DEF HandlerInv, EntriesHaveIP, TentativeOwned, MachineOwned, EntriesDistinct,
                      CallsMatchEntries, CallsDistinct
  <2>3. TapInv' /\ LeaseInv'
    BY <1>1, <2>1 DEF TapInv, RunningVMHasItsTap, LeaseInv
  <2> QED BY <2>2, <2>3 DEF Ownership
<1>4. ASSUME FirstLife' PROVE FirstLifeInv'
  BY <1>1, <1>4 DEF FirstLife, FirstLifeInv
<1>5. ASSUME FirstLife', ~CleanupCanFail PROVE HostInv'
  <2>1. HostInv
    BY <1>1, <1>5 DEF FirstLife
  <2>2. VMMInv'
    BY <1>1, <2>1, VMMsKept DEF HostInv, SameVM
  <2> QED BY <1>1, <2>1, <2>2 DEF HostInv, TapsOwned, ShutdownLeavesNothing, Wanted
<1> QED BY <1>2, <1>3, <1>4, <1>5

(* A handler starts to stop the VM of the lease. *)
LEMMA TeardownFoundStep ==
    ASSUME Inv, NEW l \in leases, NEW c \in Calls, TeardownFound(c, l)
    PROVE  Inv'
<1> USE DEF Inv
<1> DEFINE n == vmRegistry[l.id].machine
           rec == [op |-> "stop", id |-> l.id, ip |-> vmRegistry[l.id].ip, serial |-> n]
<1>1. /\ UNCHANGED <<vmRegistry, phase, tap, disk, vmms, spawns, crashes, restarts>>
      /\ phase = "serving" /\ At(c, "idle") /\ Exists(l.id)
      /\ leases' = leases \ {l}
      /\ call' = [call EXCEPT ![c] = rec]
      /\ misused' = (misused \/ n # l.serial)
  BY DEF TeardownFound, host, bounds
<1>2. l.id \in VMIDs /\ vmRegistry \in [VMIDs -> VMRec] /\ call \in [Calls -> CallRec]
  BY TypeParts
<1>3. rec \in CallRec
  BY <1>2 DEF CallRec, VMRec, Ops
<1>4. /\ call' \in [Calls -> CallRec]
      /\ call'[c].op = "stop" /\ call'[c].id = l.id /\ call'[c].serial = n
      /\ \A d \in Calls \ {c} : call'[d] = call[d]
  BY <1>1, <1>2, <1>3
<1> HIDE DEF rec
<1>5. TypeOK'
  BY <1>1, <1>4 DEF TypeOK, CallRec, Ops
<1>6. ASSUME ~misused' PROVE Ownership'
  <2>1. HandlerInv /\ TapInv /\ LeaseInv /\ n = l.serial
    BY <1>1, <1>6 DEF Ownership
  <2>2. n \in 1..spawns /\ n # 0 /\ \A d \in Calls : Busy(d) => call[d].serial # n
    <3>1. n \in 1..spawns /\ \A d \in Calls : Busy(d) => call[d].serial # n
      BY <2>1 DEF LeaseInv
    <3>2. spawns \in Nat
      BY TypeParts, OrchestratorBounds DEF Serials
    <3> QED BY <3>1, <3>2
  <2>3. HandlerInv'
    <3>1. EntriesHaveIP' /\ EntriesDistinct'
      BY <1>1, <2>1 DEF HandlerInv, EntriesHaveIP, EntriesDistinct
    <3>2. TentativeOwned'
      BY <1>1, <1>4, <2>1 DEF HandlerInv, TentativeOwned
    <3>3. MachineOwned'
      <4>1. ASSUME NEW i \in VMIDs, vmRegistry[i].machine # 0, n = vmRegistry[i].machine PROVE i = l.id
        BY <1>1, <1>2, <2>1, <4>1, NoVMFacts DEF HandlerInv, EntriesDistinct
      <4> QED BY <1>1, <1>4, <2>1, <4>1 DEF HandlerInv, MachineOwned
    <3>4. CallsMatchEntries'
      BY <1>1, <1>4, <2>1, <2>2 DEF HandlerInv, CallsMatchEntries
    <3>5. CallsDistinct'
      BY <1>1, <1>4, <2>1, <2>2 DEF HandlerInv, CallsDistinct
    <3> QED BY <3>1, <3>2, <3>3, <3>4, <3>5 DEF HandlerInv
  <2>4. TapInv'
    BY <1>1, <1>4, <2>1 DEF TapInv, RunningVMHasItsTap
  <2>5. LeaseInv'
    <3>1. \A k \in leases' : k \in leases /\ k.serial # n
      BY <1>1, <2>1 DEF LeaseInv
    <3> QED BY <1>1, <1>4, <2>1, <3>1 DEF LeaseInv
  <2> QED BY <2>3, <2>4, <2>5 DEF Ownership
<1>7. ASSUME FirstLife' PROVE FirstLifeInv'
  BY <1>1, <1>7 DEF FirstLife, FirstLifeInv
<1>8. ASSUME FirstLife', ~CleanupCanFail PROVE HostInv'
  <2>1. HostInv
    BY <1>1, <1>8 DEF FirstLife
  <2>2. \A d \in Calls : HasTap(d) \/ Booting(d) \/ BeforeStart(d)' \/ At(d, "unregister")' => call'[d] = call[d]
    BY <1>1, <1>4
  <2>3. TapsOwned'
    BY <1>1, <2>1, <2>2 DEF HostInv, TapsOwned
  <2>4. VMMInv'
    BY <1>1, <2>1, <2>2, VMMsKept DEF HostInv, SameVM
  <2>5. ShutdownLeavesNothing'
    BY <1>1 DEF ShutdownLeavesNothing
  <2> QED BY <2>3, <2>4, <2>5 DEF HostInv
<1> QED BY <1>5, <1>6, <1>7, <1>8

----------------------------------------------------------------------------
(* The process and its host                                                *)

(* After Die, and after a shutdown, every handler and every entry is gone. *)
LEMMA NothingLeft ==
    ASSUME Inv, vmRegistry' = [i \in VMIDs |-> NoVM], call' \in [Calls -> CallRec],
           \A c \in Calls : ~Busy(c)',
           UNCHANGED <<leases, misused, spawns>>
    PROVE  ~misused' => Ownership'
<1> SUFFICES ASSUME ~misused PROVE Ownership'
  OBVIOUS
<1>1. LeaseInv
  BY DEF Inv, Ownership
<1>2. \A i \in VMIDs : vmRegistry'[i] = NoVM /\ vmRegistry'[i].machine = 0 /\ ~Exists(i)'
  BY NoVMFacts
<1>3. \A c \in Calls : ~Spawning(c)' /\ ~Stopping(c)' /\ ~HasTap(c)'
  OBVIOUS
<1>4. HandlerInv'
  BY <1>2, <1>3 DEF HandlerInv, EntriesHaveIP, TentativeOwned, MachineOwned, EntriesDistinct,
                    CallsMatchEntries, CallsDistinct
<1>5. TapInv'
  BY <1>2, <1>3 DEF TapInv, RunningVMHasItsTap
<1>6. LeaseInv'
  BY <1>1 DEF LeaseInv
<1> QED BY <1>4, <1>5, <1>6 DEF Ownership

(* What Die leaves. *)
LEMMA DieShape ==
    ASSUME Inv, Die
    PROVE  /\ phase' = "dead" /\ vmRegistry' = [i \in VMIDs |-> NoVM]
           /\ vmRegistry' \in [VMIDs -> VMRec] /\ call' \in [Calls -> CallRec]
           /\ \A c \in Calls : ~Busy(c)'
           /\ starts' = {} /\ UNCHANGED <<tap, disk, machines, signalled, abandoned, spared>>
BY IdleType, NoVMFacts DEF Die

(* StopVMM of a nil Machine: only a lease from before a restart gets there. *)
LEMMA StopNilMachineStep ==
    ASSUME Inv, NEW c \in Calls, StopNilMachine(c)
    PROVE  Inv'
<1>1. /\ UNCHANGED <<leases, misused, spawns, crashes, restarts>>
      /\ At(c, "stop") /\ call[c].serial = 0 /\ Die
  BY DEF StopNilMachine, clients, bounds
<1>2. misused
  <2> SUFFICES ASSUME ~misused PROVE FALSE
    OBVIOUS
  <2> QED BY <1>1, SerialsGivenOut DEF Inv, Ownership, HandlerInv
<1>3. ~FirstLife
  BY <1>2 DEF Inv, FirstLifeInv
<1>4. TypeOK'
  BY <1>1, DieShape DEF Inv, TypeOK, VMRec, CallRec, Ops
<1> QED BY <1>1, <1>2, <1>3, <1>4 DEF Inv, FirstLife

(* SIGTERM. *)
LEMMA SignalStep ==
    ASSUME Inv, Signal
    PROVE  Inv'
<1> USE DEF Inv
<1>1. /\ UNCHANGED <<vmRegistry, call, tap, disk, vmms, leases, misused, spawns, crashes, restarts>>
      /\ phase = "serving" /\ phase' = "stopping"
  BY DEF Signal, host, clients, bounds
<1>2. TypeOK'
  BY <1>1 DEF TypeOK
<1>3. ASSUME ~misused' PROVE Ownership'
  <2>1. HandlerInv /\ TapInv /\ LeaseInv
    BY <1>1, <1>3 DEF Ownership
  <2>2. HandlerInv'
    BY <1>1, <2>1 DEF HandlerInv, EntriesHaveIP, TentativeOwned, MachineOwned, EntriesDistinct,
                      CallsMatchEntries, CallsDistinct
  <2>3. TapInv' /\ LeaseInv'
    BY <1>1, <2>1 DEF TapInv, RunningVMHasItsTap, LeaseInv
  <2> QED BY <2>2, <2>3 DEF Ownership
<1>4. ASSUME FirstLife' PROVE FirstLifeInv'
  BY <1>1, <1>4 DEF FirstLife, FirstLifeInv
<1>5. ASSUME FirstLife', ~CleanupCanFail PROVE HostInv'
  <2>1. HostInv
    BY <1>1, <1>5 DEF FirstLife
  <2>2. VMMInv'
    BY <1>1, <2>1, VMMsKept DEF HostInv, SameVM
  <2> QED BY <1>1, <2>1, <2>2 DEF HostInv, TapsOwned, ShutdownLeavesNothing, Wanted
<1> QED BY <1>2, <1>3, <1>4, <1>5

(* shutdownAllVMs: with no handler left, the registry knows every owner. *)
LEMMA ShutdownAllVMsStep ==
    ASSUME Inv, ShutdownAllVMs
    PROVE  Inv'
<1> USE DEF Inv
<1> DEFINE ids == {i \in VMIDs : Exists(i)}
           names == {tapNameForVM[i] : i \in ids}
           told == {m.serial : m \in {n \in machines : vmRegistry[n.id].machine = n.serial}}
<1>1. /\ UNCHANGED <<call, machines, abandoned, spared, leases, misused, spawns, crashes, restarts>>
      /\ phase = "stopping" /\ phase' = "stopped" /\ \A c \in Calls : At(c, "idle")
      /\ vmRegistry' = [i \in VMIDs |-> NoVM]
      /\ disk' = [i \in VMIDs |-> IF i \in ids THEN 0 ELSE disk[i]]
      /\ starts' = {}
  BY DEF ShutdownAllVMs, clients, bounds
<1>2. PICK missed \in SUBSET told, left \in SUBSET names :
          /\ CleanupCanFail \/ (missed = {} /\ left = {})
          /\ signalled' = signalled \cup (told \ missed)
          /\ tap' = [n \in TapNames |-> IF n \in names \ left THEN 0 ELSE tap[n]]
  BY DEF ShutdownAllVMs
<1>3. call \in [Calls -> CallRec] /\ tap \in [TapNames -> Serials] /\ disk \in [VMIDs -> Serials] /\ 0 \in Serials
  BY TypeParts, OrchestratorBounds DEF Serials
<1>4. vmRegistry' \in [VMIDs -> VMRec] /\ signalled' \subseteq Serials
  <2>1. told \subseteq Serials
    BY TypeParts DEF VMMRec
  <2> QED BY <1>1, <1>2, <2>1, NoVMFacts, TypeParts
<1>5. tap' \in [TapNames -> Serials] /\ disk' \in [VMIDs -> Serials]
  BY <1>1, <1>2, <1>3
<1>6. TypeOK'
  BY <1>1, <1>3, <1>4, <1>5, TypeParts DEF TypeOK, VMRec, VMMRec
<1>7. ~misused' => Ownership'
  BY <1>1, <1>3, NothingLeft
<1>8. ASSUME FirstLife' PROVE FirstLifeInv'
  BY <1>1, <1>8 DEF FirstLife, FirstLifeInv
<1>9. ASSUME FirstLife', ~CleanupCanFail PROVE HostInv'
  <2>1. HostInv /\ missed = {} /\ left = {}
    BY <1>1, <1>2, <1>9 DEF FirstLife
  <2>2. \A m \in machines : ~Wanted(m)'
    <3> SUFFICES ASSUME NEW m \in machines, Wanted(m)' PROVE FALSE
      OBVIOUS
    <3>1. Wanted(m) /\ m.serial \notin told
      BY <1>1, <1>2, <2>1 DEF Wanted
    <3>2. vmRegistry[m.id].machine = m.serial
      BY <1>1, <2>1, <3>1 DEF HostInv, VMMInv, MachinesOwned
    <3> QED BY <3>1, <3>2
  <2>3. ASSUME NEW n \in TapNames PROVE tap'[n] = 0
    <3>1. CASE n \in names
      BY <1>2, <2>1, <3>1
    <3>2. CASE n \notin names
      <4>1. tap[n] = 0
        <5> SUFFICES ASSUME tap[n] # 0 PROVE FALSE
          OBVIOUS
        <5>1. PICK i \in VMIDs : tapNameForVM[i] = n /\ vmRegistry[i].machine = tap[n]
          BY <1>1, <2>1 DEF HostInv, TapsOwned
        <5>2. i \in ids
          BY <5>1, NoVMFacts
        <5> QED BY <3>2, <5>1, <5>2
      <4> QED BY <1>2, <3>2, <4>1
    <3> QED BY <3>1, <3>2
  <2>4. VMMInv'
    BY <1>1, <2>1, <2>2 DEF HostInv, VMMInv, OneVMMPerSpawn, StartsOwned, MachinesOwned, StoppedTold
  <2> QED BY <1>1, <2>2, <2>3, <2>4 DEF HostInv, TapsOwned, ShutdownLeavesNothing
<1> QED BY <1>6, <1>7, <1>8, <1>9

(* Being killed. *)
LEMMA CrashStep ==
    ASSUME Inv, Crash
    PROVE  Inv'
<1>1. /\ UNCHANGED <<leases, misused, spawns, restarts>>
      /\ crashes < MaxCrashes /\ crashes' = crashes + 1 /\ Die
  BY DEF Crash, clients
<1>2. crashes' \in 0..MaxCrashes /\ crashes' # 0
  BY <1>1, OrchestratorBounds DEF Inv, TypeOK
<1>3. TypeOK'
  BY <1>1, <1>2, DieShape DEF Inv, TypeOK, VMRec, CallRec, Ops
<1>4. ~misused' => Ownership'
  BY <1>1, DieShape, NothingLeft
<1> QED BY <1>2, <1>3, <1>4 DEF Inv, FirstLife

(* Starting again. *)
LEMMA RestartStep ==
    ASSUME Inv, Restart
    PROVE  Inv'
<1>1. /\ UNCHANGED <<vmRegistry, call, tap, disk, vmms, leases, misused, spawns, crashes>>
      /\ restarts < MaxRestarts /\ restarts' = restarts + 1 /\ phase' = "serving"
  BY DEF Restart, host, clients
<1>2. restarts' \in 0..MaxRestarts /\ restarts' # 0
  BY <1>1, OrchestratorBounds DEF Inv, TypeOK
<1>3. TypeOK'
  BY <1>1, <1>2 DEF Inv, TypeOK
<1>4. ASSUME ~misused' PROVE Ownership'
  <2>1. HandlerInv /\ TapInv /\ LeaseInv
    BY <1>1, <1>4 DEF Inv, Ownership
  <2>2. HandlerInv'
    BY <1>1, <2>1 DEF HandlerInv, EntriesHaveIP, TentativeOwned, MachineOwned, EntriesDistinct,
                      CallsMatchEntries, CallsDistinct
  <2>3. TapInv' /\ LeaseInv'
    BY <1>1, <2>1 DEF TapInv, RunningVMHasItsTap, LeaseInv
  <2> QED BY <2>2, <2>3 DEF Ownership
<1> QED BY <1>2, <1>3, <1>4 DEF Inv, FirstLife

----------------------------------------------------------------------------
(* The invariant                                                           *)

(* An orchestrator that has just started has no VM and no handler. *)
LEMMA InitInv == Init => Inv
<1> SUFFICES ASSUME Init PROVE Inv
  OBVIOUS
<1>1. 0 \in Serials /\ 0 \in 0..MaxCrashes /\ 0 \in 0..MaxRestarts
  BY OrchestratorBounds DEF Serials
<1>2. /\ vmRegistry \in [VMIDs -> VMRec] /\ call \in [Calls -> CallRec]
      /\ \A c \in Calls : call[c].op = "idle"
      /\ \A i \in VMIDs : vmRegistry[i] = NoVM /\ vmRegistry[i].machine = 0
  BY IdleType, NoVMFacts DEF Init
<1>3. TypeOK
  BY <1>1, <1>2 DEF Init, TypeOK, VMRec, CallRec, Ops
<1>4. HandlerInv
  BY <1>2 DEF HandlerInv, EntriesHaveIP, TentativeOwned, MachineOwned, EntriesDistinct,
              CallsMatchEntries, CallsDistinct
<1>5. TapInv /\ LeaseInv
  BY <1>2 DEF Init, TapInv, RunningVMHasItsTap, LeaseInv
<1>6. FirstLifeInv
  BY DEF Init, FirstLifeInv
<1>7. HostInv
  BY <1>2 DEF Init, HostInv, TapsOwned, VMMInv, OneVMMPerSpawn, StartsOwned, MachinesOwned, StoppedTold,
              ShutdownLeavesNothing
<1> QED BY <1>3, <1>4, <1>5, <1>6, <1>7 DEF Inv, Ownership

(* Every step keeps it. *)
LEMMA NextInv == Inv /\ [Next]_vars => Inv'
<1> SUFFICES ASSUME Inv, [Next]_vars PROVE Inv'
  OBVIOUS
<1>1. CASE UNCHANGED vars
  BY <1>1, StutterStep
<1>2. CASE \E id \in VMIDs : SpawnRefused(id) \/ \E c \in Calls : SpawnReserve(c, id)
  <2>1. ASSUME NEW id \in VMIDs, SpawnRefused(id) PROVE Inv'
    BY <2>1, StutterStep DEF SpawnRefused
  <2> QED BY <1>2, <2>1, SpawnReserveStep
<1>3. CASE \E l \in leases : TeardownNotFound(l) \/ \E c \in Calls : TeardownFound(c, l)
  BY <1>3, TeardownNotFoundStep, TeardownFoundStep
<1>4. CASE \E c \in Calls : Handler(c)
  <2> SUFFICES ASSUME NEW c \in Calls, Handler(c) PROVE Inv'
    BY <1>4
  <2>1. CASE SetupTap(c) \/ CreateImage(c) \/ Register(c) \/ SpawnFailed(c)
    BY <2>1, SetupTapStep, CreateImageStep, RegisterStep, SpawnFailedStep
  <2>2. CASE UndoTap(c) \/ DeleteTap(c)
    BY <2>2, RemoveTapStep
  <2>3. CASE StopVMM(c) \/ StopNilMachine(c) \/ Unregister(c) \/ DeleteImage(c)
    BY <2>3, StopVMMStep, StopNilMachineStep, UnregisterStep, DeleteImageStep
  <2>4. CASE StartMachine(c) \/ BootSucceeds(c) \/ BootFails(c)
    BY <2>4, StartMachineStep, BootSucceedsStep, BootFailsStep
  <2> QED BY <2>1, <2>2, <2>3, <2>4 DEF Handler
<1>5. CASE (\E vm \in starts : ForkVMM(vm)) \/ \E m \in machines : VMMExits(m)
  BY <1>5, ForkVMMStep, VMMExitsStep
<1>6. CASE Signal \/ ShutdownAllVMs \/ Crash \/ Restart
  BY <1>6, SignalStep, ShutdownAllVMsStep, CrashStep, RestartStep
<1> QED BY <1>1, <1>2, <1>3, <1>4, <1>5, <1>6 DEF Next

(* Inv holds in every state the orchestrator and its host can be in. *)
THEOREM InductiveInvariant == Spec => []Inv
BY InitInv, NextInv, PTL DEF Spec

----------------------------------------------------------------------------
(* What the invariant gives                                                *)

(* Registry and host agree as long as no cleanup command fails and the     *)
(* process has neither been killed nor restarted, boots that fail or time  *)
(* out included: among the VMs that were neither told to stop nor given up *)
(* addresses and ids are distinct and each has its entry or its handler,   *)
(* and every registered VM has the interface that its own spawn made.      *)
THEOREM RegistryMatchesHostHolds ==
    Spec => [](FirstLife /\ ~CleanupCanFail => RegistryMatchesHost)
<1>1. Inv => (FirstLife /\ ~CleanupCanFail => RegistryMatchesHost)
  <2> SUFFICES ASSUME Inv, FirstLife, ~CleanupCanFail PROVE RegistryMatchesHost
    OBVIOUS
  <2>1. HandlerInv /\ TapInv /\ HostInv /\ TypeOK
    BY DEF Inv, FirstLifeInv, Ownership
  <2>2. VMMInv /\ spawns \in Nat
    BY <2>1, TypeParts, OrchestratorBounds DEF HostInv, Serials
  <2>3. ASSUME NEW m \in machines, Wanted(m)
        PROVE  m.id \in VMIDs /\ m.serial # 0 /\ Exists(m.id) /\ vmRegistry[m.id].ip = m.ip
    <3>1. m.id \in VMIDs /\ m.serial # 0
      BY <2>1, <2>2, TypeParts DEF VMMInv, OneVMMPerSpawn, VMMRec
    <3>2. ASSUME NEW d \in Calls, Booting(d), call[d].id = m.id PROVE Exists(m.id)
      BY <2>1, <3>2, NoVMFacts DEF HandlerInv, CallsMatchEntries
    <3>3. vmRegistry[m.id].machine = m.serial => Exists(m.id)
      BY <3>1, NoVMFacts
    <3> QED BY <2>2, <2>3, <3>1, <3>2, <3>3 DEF VMMInv, MachinesOwned
  <2>4. RunningIPsUnique
    <3> SUFFICES ASSUME NEW m \in machines, NEW n \in machines, Wanted(m), Wanted(n), m # n
                 PROVE  m.ip # n.ip /\ m.id # n.id
      BY DEF RunningIPsUnique
    <3>1. m.serial # n.serial
      BY <2>2 DEF VMMInv, OneVMMPerSpawn
    <3>2. m.id # n.id
      <4> SUFFICES ASSUME m.id = n.id PROVE FALSE
        OBVIOUS
      <4>1. m.serial # 0 /\ n.serial # 0
        BY <2>3
      <4>2. CASE vmRegistry[m.id].machine = 0
        <5>1. PICK d \in Calls : Booting(d) /\ call[d].serial = m.serial /\ call[d].id = m.id
          BY <2>2, <4>1, <4>2 DEF VMMInv, MachinesOwned
        <5>2. PICK e \in Calls : Booting(e) /\ call[e].serial = n.serial /\ call[e].id = n.id
          BY <2>2, <4>1, <4>2 DEF VMMInv, MachinesOwned
        <5> QED BY <2>1, <3>1, <5>1, <5>2 DEF HandlerInv, CallsDistinct
      <4>3. CASE vmRegistry[m.id].machine # 0
        <5>1. \A d \in Calls : Booting(d) => call[d].id # m.id
          BY <2>1, <4>3 DEF HandlerInv, CallsMatchEntries
        <5> QED BY <2>2, <3>1, <5>1 DEF VMMInv, MachinesOwned
      <4> QED BY <4>2, <4>3
    <3> QED BY <2>1, <2>3, <3>2 DEF HandlerInv, EntriesDistinct
  <2>5. NoZombieVM
    BY <2>2 DEF VMMInv, MachinesOwned, NoZombieVM
  <2>6. RunningVMHasItsTap /\ NoTapLeak
    BY <2>1 DEF TapInv, HostInv, TapsOwned, NoTapLeak
  <2> QED BY <2>1, <2>4, <2>5, <2>6 DEF RegistryMatchesHost
<1> QED BY <1>1, InductiveInvariant, PTL

(* TeardownVM never stops a nil Machine, through crashes, restarts and     *)
(* failing cleanups, unless a client used a lease from before a restart;   *)
(* in the first life of the process no client can.                         *)
THEOREM NoNilMachineStoppedHolds ==
    Spec => []((FirstLife => ~misused) /\ (~misused => NoNilMachineStopped))
<1>1. Inv => (FirstLife => ~misused) /\ (~misused => NoNilMachineStopped)
  <2> SUFFICES ASSUME Inv
               PROVE  (FirstLife => ~misused) /\ (~misused => NoNilMachineStopped)
    OBVIOUS
  <2>1. FirstLife => ~misused
    BY DEF Inv, FirstLifeInv
  <2>2. ASSUME ~misused PROVE NoNilMachineStopped
    BY <2>2, SerialsGivenOut DEF Inv, Ownership, HandlerInv, NoNilMachineStopped
  <2> QED BY <2>1, <2>2
<1> QED BY <1>1, InductiveInvariant, PTL

(* After a SIGTERM no interface is left, and every Firecracker process     *)
(* that still runs was told to stop or given up by its boot, if no cleanup *)
(* command fails and the orchestrator was never killed.                    *)
THEOREM ShutdownLeavesNothingHolds ==
    Spec => [](FirstLife /\ ~CleanupCanFail => ShutdownLeavesNothing)
<1>1. Inv => (FirstLife /\ ~CleanupCanFail => ShutdownLeavesNothing)
  BY DEF Inv, HostInv
<1> QED BY <1>1, InductiveInvariant, PTL

(* Nobody removes or takes over the interface that another spawn made,     *)
(* whatever crashes, restarts and cleanup failures there were, as long as  *)
(* no client used a lease from before a restart.                           *)
THEOREM TapRemovedByOwnerHolds == Spec => TapRemovedByOwner
<1> DEFINE Owned(n) ==
            \/ \E c \in Calls : ~At(c, "idle") /\ call[c].serial = tap[n]
            \/ phase' = "stopped" /\ \E i \in VMIDs : tapNameForVM[i] = n /\ vmRegistry[i].machine = tap[n]
           Removed == misused \/ \A n \in TapNames : tap[n] # 0 /\ tap'[n] # tap[n] => Owned(n)
<1>1. Inv /\ [Next]_vars => [Removed]_vars
  <2> SUFFICES ASSUME Inv, Next, ~misused, NEW n \in TapNames, tap[n] # 0, tap'[n] # tap[n]
               PROVE  Owned(n)
    OBVIOUS
  <2>1. TypeOK /\ HandlerInv /\ TapInv
    BY DEF Inv, Ownership
  <2>2. tap \in [TapNames -> Serials] /\ \A c \in Calls : tapNameForVM[call[c].id] \in TapNames
    BY <2>1, TypeParts, CallTypes
  <2>3. ASSUME NEW c \in Calls, SetupTap(c) PROVE FALSE
    BY <2>2, <2>3 DEF SetupTap
  <2>4. ASSUME NEW c \in Calls, UndoTap(c) \/ DeleteTap(c) PROVE Owned(n)
    <3>1. HasTap(c) /\ tap' \in {tap, [tap EXCEPT ![tapNameForVM[call[c].id]] = 0]}
      BY <2>4 DEF UndoTap, DeleteTap, CleanupTapInterface
    <3>2. n = tapNameForVM[call[c].id]
      BY <2>2, <3>1
    <3>3. tap[n] = call[c].serial
      BY <2>1, <3>1, <3>2 DEF TapInv
    <3> QED BY <3>1, <3>3
  <2>5. CASE ShutdownAllVMs
    <3>1. phase' = "stopped" /\ \A c \in Calls : At(c, "idle")
      BY <2>5 DEF ShutdownAllVMs
    <3>2. n \in {tapNameForVM[i] : i \in {j \in VMIDs : Exists(j)}}
      BY <2>5 DEF ShutdownAllVMs
    <3>3. PICK i \in VMIDs : Exists(i) /\ tapNameForVM[i] = n
      BY <3>2
    <3>4. vmRegistry[i].machine # 0
      BY <2>1, <3>1, <3>3 DEF HandlerInv, TentativeOwned
    <3> QED BY <2>1, <3>1, <3>3, <3>4 DEF TapInv, RunningVMHasItsTap
  <2>6. \/ \E c \in Calls : SetupTap(c) \/ UndoTap(c) \/ DeleteTap(c)
        \/ ShutdownAllVMs \/ tap' = tap
    BY DEF Next, Handler, vars, host, SpawnRefused, SpawnReserve, TeardownNotFound, TeardownFound,
        CreateImage, StartMachine, ForkVMM, BootSucceeds, BootFails, Register, SpawnFailed, StopVMM,
        StopNilMachine, Die, Unregister, DeleteImage, VMMExits, Signal, Crash, Restart
  <2> QED BY <2>3, <2>4, <2>5, <2>6
<1> QED BY <1>1, InductiveInvariant, PTL DEF Spec, TapRemovedByOwner

----------------------------------------------------------------------------
(* Every entry has somebody who will give it up                            *)

SpawnsNumbered == \A c \in Calls : Spawning(c) => call[c].serial # 0
AccountInv == TypeOK /\ SpawnsNumbered /\ EntryAccounted

(* What accounts for an entry. *)
Accounted(i) ==
    IF vmRegistry[i].machine = 0
    THEN \E c \in Calls : Spawning(c) /\ call[c].id = i
    ELSE \/ [id |-> i, serial |-> vmRegistry[i].machine] \in leases
         \/ vmRegistry[i].machine \in spared
         \/ \E c \in Calls : Stopping(c) /\ call[c].id = i /\ call[c].serial = vmRegistry[i].machine

(* EntryAccounted by that name. *)
LEMMA AccountedFacts ==
    /\ EntryAccounted <=> \A i \in VMIDs : Exists(i) => Accounted(i)
    /\ EntryAccounted' <=> \A i \in VMIDs : Exists(i)' => Accounted(i)'
BY DEF EntryAccounted, Accounted

(* Steps that leave the registry alone and end neither a spawn nor a       *)
(* teardown before its entry is deleted.                                   *)
LEMMA AccountKept ==
    ASSUME AccountInv, UNCHANGED <<vmRegistry, leases>>, spared \subseteq spared',
           \A d \in Calls : /\ Spawning(d) => Spawning(d)' /\ SameVM(d)
                            /\ Stopping(d) => \/ Stopping(d)' /\ SameVM(d)
                                              \/ call[d].serial \in spared'
                            /\ Spawning(d)' => Spawning(d) /\ SameVM(d)
    PROVE  SpawnsNumbered' /\ EntryAccounted'
<1>1. SpawnsNumbered'
  BY DEF AccountInv, SpawnsNumbered, SameVM
<1>2. ASSUME NEW i \in VMIDs, Exists(i)' PROVE Accounted(i)'
  <2>1. Accounted(i)
    BY <1>2, AccountedFacts DEF AccountInv
  <2>2. CASE vmRegistry[i].machine = 0
    BY <2>1, <2>2 DEF Accounted, SameVM
  <2>3. CASE vmRegistry[i].machine # 0
    BY <2>1, <2>3 DEF Accounted, SameVM
  <2> QED BY <2>2, <2>3
<1> QED BY <1>1, <1>2, AccountedFacts

(* No entry, nothing to account for. *)
LEMMA NothingToAccount ==
    ASSUME vmRegistry' = [i \in VMIDs |-> NoVM], \A c \in Calls : ~Spawning(c)'
    PROVE  SpawnsNumbered' /\ EntryAccounted'
<1>1. \A i \in VMIDs : ~Exists(i)'
  OBVIOUS
<1> QED BY <1>1, AccountedFacts DEF SpawnsNumbered

(* An entry appears or is filled in: the handler or the lease with it. *)
LEMMA AccountGiven ==
    ASSUME AccountInv, NEW c \in Calls, (\E id \in VMIDs : SpawnReserve(c, id)) \/ Register(c)
    PROVE  SpawnsNumbered' /\ EntryAccounted'
<1>1. /\ vmRegistry \in [VMIDs -> VMRec] /\ call \in [Calls -> CallRec] /\ spawns \in Nat
      /\ \A d \in Calls : call[d].id \in VMIDs
  BY TypeParts, CallTypes, OrchestratorBounds DEF AccountInv, Serials
<1>2. ASSUME NEW id \in VMIDs, SpawnReserve(c, id) PROVE SpawnsNumbered' /\ EntryAccounted'
  <2>1. /\ At(c, "idle") /\ UNCHANGED <<leases, spared>>
        /\ vmRegistry' = [vmRegistry EXCEPT ![id] = [ip |-> findFreeIPIndex, machine |-> 0]]
        /\ call' = [call EXCEPT ![c] = [op |-> "tap", id |-> id, ip |-> findFreeIPIndex, serial |-> spawns + 1]]
    BY <1>2 DEF SpawnReserve, host, clients
  <2>2. /\ vmRegistry'[id].machine = 0 /\ \A i \in VMIDs \ {id} : vmRegistry'[i] = vmRegistry[i]
        /\ call'[c].op = "tap" /\ call'[c].id = id /\ call'[c].serial = spawns + 1
        /\ \A d \in Calls \ {c} : call'[d] = call[d]
    BY <1>1, <2>1
  <2>3. spawns + 1 # 0
    BY <1>1
  <2>4. SpawnsNumbered'
    BY <2>2, <2>3 DEF AccountInv, SpawnsNumbered
  <2>5. Accounted(id)'
    BY <2>2 DEF Accounted
  <2>6. ASSUME NEW i \in VMIDs \ {id}, Exists(i)' PROVE Accounted(i)'
    <3>1. Accounted(i) /\ vmRegistry'[i] = vmRegistry[i]
      BY <2>2, <2>6, AccountedFacts DEF AccountInv
    <3>2. \A d \in Calls : Spawning(d) \/ Stopping(d) => call'[d] = call[d]
      BY <2>1, <2>2
    <3> QED BY <2>1, <3>1, <3>2 DEF Accounted
  <2> QED BY <2>4, <2>5, <2>6, AccountedFacts
<1>3. CASE Register(c)
  <2> PICK id \in VMIDs : id = call[c].id
    BY <1>1
  <2> DEFINE lease == [id |-> id, serial |-> call[c].serial]
  <2>1. /\ At(c, "register") /\ Return(c) /\ UNCHANGED spared
        /\ vmRegistry' = [vmRegistry EXCEPT ![id] = [ip |-> call[c].ip, machine |-> call[c].serial]]
        /\ leases' = leases \cup {lease}
    BY <1>3 DEF Register, host
  <2>2. /\ vmRegistry'[id].machine = call[c].serial /\ \A i \in VMIDs \ {id} : vmRegistry'[i] = vmRegistry[i]
        /\ call'[c].op = "idle" /\ \A d \in Calls \ {c} : call'[d] = call[d]
    BY <1>1, <2>1, ReturnShape DEF AccountInv
  <2>3. SpawnsNumbered'
    BY <2>2 DEF AccountInv, SpawnsNumbered
  <2>4. Accounted(id)'
    <3>1. call[c].serial # 0
      BY <2>1 DEF AccountInv, SpawnsNumbered
    <3>2. [id |-> id, serial |-> vmRegistry'[id].machine] \in leases'
      BY <2>1, <2>2
    <3> QED BY <2>2, <3>1, <3>2 DEF Accounted
  <2>5. ASSUME NEW i \in VMIDs \ {id}, Exists(i)' PROVE Accounted(i)'
    <3>1. Accounted(i) /\ vmRegistry'[i] = vmRegistry[i]
      BY <2>2, <2>5, AccountedFacts DEF AccountInv
    <3>2. \A d \in Calls : (Spawning(d) \/ Stopping(d)) /\ call[d].id = i => call'[d] = call[d]
      BY <2>2
    <3>3. leases \subseteq leases'
      BY <2>1
    <3>4. CASE vmRegistry[i].machine = 0
      BY <3>1, <3>2, <3>4 DEF Accounted
    <3>5. CASE vmRegistry[i].machine # 0
      BY <2>1, <3>1, <3>2, <3>3, <3>5 DEF Accounted
    <3> QED BY <3>4, <3>5
  <2> QED BY <2>3, <2>4, <2>5, AccountedFacts
<1> QED BY <1>2, <1>3

(* An entry is deleted: only by a handler that works on its id. *)
LEMMA AccountClosed ==
    ASSUME AccountInv, NEW c \in Calls, SpawnFailed(c) \/ Unregister(c)
    PROVE  SpawnsNumbered' /\ EntryAccounted'
<1> DEFINE id == call[c].id
<1>1. /\ vmRegistry \in [VMIDs -> VMRec] /\ call \in [Calls -> CallRec] /\ id \in VMIDs
      /\ vmRegistry' = [vmRegistry EXCEPT ![id] = NoVM] /\ UNCHANGED <<leases, spared>>
  BY TypeParts, CallTypes DEF AccountInv, SpawnFailed, Unregister, host, clients
<1>2. /\ call'[c].op \in {"idle", "deltap"}
      /\ \A d \in Calls \ {c} : call'[d].op = call[d].op /\ SameVM(d)
  <2>1. CASE SpawnFailed(c)
    BY <2>1, ReturnShape DEF SpawnFailed, AccountInv, SameVM
  <2>2. CASE Unregister(c)
    <3>1. "deltap" \in Ops
      BY DEF Ops
    <3> QED BY <2>2, <3>1, GotoShape DEF Unregister, AccountInv, SameVM
  <2> QED BY <2>1, <2>2
<1>3. SpawnsNumbered'
  BY <1>2 DEF AccountInv, SpawnsNumbered, SameVM
<1>4. ASSUME NEW i \in VMIDs, Exists(i)' PROVE Accounted(i)'
  <2>1. i # id /\ vmRegistry'[i] = vmRegistry[i] /\ Accounted(i)
    BY <1>1, <1>4, AccountedFacts DEF AccountInv
  <2>2. \A d \in Calls : call[d].id = i => call'[d].op = call[d].op /\ SameVM(d)
    BY <1>2, <2>1
  <2> HIDE DEF id
  <2> QED BY <1>1, <2>1, <2>2 DEF Accounted, SameVM
<1> QED BY <1>3, <1>4, AccountedFacts

(* A lease is used. *)
LEMMA AccountUsed ==
    ASSUME AccountInv, NEW l \in leases, TeardownNotFound(l) \/ \E c \in Calls : TeardownFound(c, l)
    PROVE  SpawnsNumbered' /\ EntryAccounted'
<1>1. /\ UNCHANGED <<vmRegistry, spared>> /\ leases' = leases \ {l}
      /\ call \in [Calls -> CallRec]
  BY TypeParts DEF AccountInv, TeardownNotFound, TeardownFound, host
<1>2. CASE TeardownNotFound(l)
  <2>1. UNCHANGED call /\ ~Exists(l.id)
    BY <1>2 DEF TeardownNotFound
  <2>2. ASSUME NEW i \in VMIDs, Exists(i)' PROVE Accounted(i)'
    <3>1. Accounted(i) /\ i # l.id
      BY <1>1, <2>1, <2>2, AccountedFacts DEF AccountInv
    <3>2. [id |-> i, serial |-> vmRegistry[i].machine] # l
      BY <3>1
    <3> QED BY <1>1, <2>1, <3>1, <3>2 DEF Accounted
  <2> QED BY <2>1, <2>2, AccountedFacts DEF AccountInv, SpawnsNumbered
<1>3. ASSUME NEW c \in Calls, TeardownFound(c, l) PROVE SpawnsNumbered' /\ EntryAccounted'
  <2>1. At(c, "idle") /\ call' = [call EXCEPT ![c] = [op |-> "stop", id |-> l.id, ip |-> vmRegistry[l.id].ip,
                                                     serial |-> vmRegistry[l.id].machine]]
    BY <1>3 DEF TeardownFound
  <2>2. /\ call'[c].op = "stop" /\ call'[c].id = l.id /\ call'[c].serial = vmRegistry[l.id].machine
        /\ \A d \in Calls \ {c} : call'[d] = call[d]
    BY <1>1, <2>1
  <2>3. ASSUME NEW i \in VMIDs, Exists(i)' PROVE Accounted(i)'
    <3>1. Accounted(i)
      BY <1>1, <2>3, AccountedFacts DEF AccountInv
    <3>2. \A d \in Calls : Spawning(d) \/ Stopping(d) => call'[d] = call[d]
      BY <2>1, <2>2
    <3>3. CASE [id |-> i, serial |-> vmRegistry[i].machine] = l
      <4>1. l.id = i
        BY <3>3
      <4> QED BY <1>1, <2>2, <3>1, <3>2, <4>1 DEF Accounted
    <3>4. CASE [id |-> i, serial |-> vmRegistry[i].machine] # l
      BY <1>1, <3>1, <3>2, <3>4 DEF Accounted
    <3> QED BY <3>3, <3>4
  <2> QED BY <2>1, <2>2, <2>3, AccountedFacts DEF AccountInv, SpawnsNumbered
<1> QED BY <1>2, <1>3

(* Every entry is accounted for, whatever kills, restarts, failing cleanup *)
(* commands and stale leases there were: no address is taken for good      *)
(* without a handler at work on it, a client that may tear the VM down, or *)
(* a StopVMM that failed.                                                  *)
THEOREM EntryAccountedHolds == Spec => []EntryAccounted
<1>1. Init => SpawnsNumbered /\ EntryAccounted
  BY NoVMFacts, IdleType DEF Init, SpawnsNumbered, EntryAccounted
<1>2. Inv /\ SpawnsNumbered /\ EntryAccounted /\ [Next]_vars => SpawnsNumbered' /\ EntryAccounted'
  <2> SUFFICES ASSUME AccountInv, [Next]_vars PROVE SpawnsNumbered' /\ EntryAccounted'
    BY DEF Inv, AccountInv
  <2>1. CASE UNCHANGED <<vmRegistry, call, leases, spared>>
    BY <2>1, AccountKept DEF SameVM
  <2>2. ASSUME NEW c \in Calls, NEW op \in Ops, Goto(c, op), UNCHANGED <<vmRegistry, leases, spared>>,
               \/ Spawning(c) /\ op \in SpawnOps
               \/ call[c].op \in TeardownOps /\ op \in TeardownOps /\ (Stopping(c) => op = "unregister")
        PROVE  SpawnsNumbered' /\ EntryAccounted'
    <3>1. \A d \in Calls : call'[d].op = (IF d = c THEN op ELSE call[d].op) /\ SameVM(d)
      BY <2>2, GotoShape DEF AccountInv, SameVM
    <3> QED BY <2>2, <3>1, AccountKept
  <2>3. ASSUME NEW c \in Calls, Return(c), UNCHANGED <<vmRegistry, leases>>, spared \subseteq spared',
               ~Spawning(c), Stopping(c) => call[c].serial \in spared'
        PROVE  SpawnsNumbered' /\ EntryAccounted'
    <3>1. call'[c].op = "idle" /\ \A d \in Calls \ {c} : call'[d] = call[d]
      BY <2>3, ReturnShape DEF AccountInv
    <3> QED BY <2>3, <3>1, AccountKept DEF SameVM
  <2>4. ASSUME NEW c \in Calls, Handler(c) PROVE SpawnsNumbered' /\ EntryAccounted'
    <3>1. CASE \/ SetupTap(c) \/ CreateImage(c) \/ StartMachine(c) \/ BootSucceeds(c) \/ BootFails(c)
               \/ UndoTap(c)
      <4>1. UNCHANGED <<vmRegistry, leases, spared>> /\ Spawning(c)
        BY <3>1 DEF SetupTap, CreateImage, StartMachine, BootSucceeds, BootFails, UndoTap, host, clients
      <4>2. \E op \in SpawnOps : Goto(c, op)
        BY <3>1 DEF SetupTap, CreateImage, StartMachine, BootSucceeds, BootFails, UndoTap
      <4>3. SpawnOps \subseteq Ops
        BY DEF Ops
      <4> QED BY <2>2, <4>1, <4>2, <4>3
    <3>2. CASE Register(c)
      BY <3>2, AccountGiven
    <3>3. CASE SpawnFailed(c) \/ Unregister(c)
      BY <3>3, AccountClosed
    <3>4. CASE StopVMM(c)
      <4>1. At(c, "stop") /\ UNCHANGED <<vmRegistry, leases>> /\ "unregister" \in Ops
        BY <3>4 DEF StopVMM, clients, Ops
      <4>2. CASE UNCHANGED spared /\ Goto(c, "unregister")
        BY <2>2, <4>1, <4>2
      <4>3. CASE spared' = spared \cup {call[c].serial} /\ Return(c)
        BY <2>3, <4>1, <4>3
      <4> QED BY <3>4, <4>2, <4>3 DEF StopVMM
    <3>5. CASE StopNilMachine(c)
      BY <3>5, IdleType, NothingToAccount DEF StopNilMachine, Die
    <3>6. CASE DeleteTap(c)
      <4>1. "delimage" \in Ops
        BY DEF Ops
      <4> QED BY <2>2, <3>6, <4>1 DEF DeleteTap, clients
    <3>7. CASE DeleteImage(c)
      BY <2>3, <3>7 DEF DeleteImage, clients
    <3> QED BY <2>4, <3>1, <3>2, <3>3, <3>4, <3>5, <3>6, <3>7 DEF Handler
  <2>5. CASE ShutdownAllVMs
    BY <2>5, NothingToAccount DEF ShutdownAllVMs
  <2>6. CASE Crash
    BY <2>6, IdleType, NothingToAccount DEF Crash, Die
  <2>7. \/ \E id \in VMIDs, c \in Calls : SpawnReserve(c, id)
        \/ \E l \in leases : TeardownNotFound(l) \/ \E c \in Calls : TeardownFound(c, l)
        \/ \E c \in Calls : Handler(c)
        \/ ShutdownAllVMs \/ Crash
        \/ UNCHANGED <<vmRegistry, call, leases, spared>>
    BY DEF Next, vars, host, clients, SpawnRefused, ForkVMM, VMMExits, Signal, Restart
  <2> QED BY <2>1, <2>4, <2>5, <2>6, <2>7, AccountGiven, AccountUsed
<1> QED BY <1>1, <1>2, InductiveInvariant, PTL DEF Spec

----------------------------------------------------------------------------
(* The registry implements VMSessions                                      *)

StopDone(i) == \E c \in Calls : At(c, "unregister") /\ call[c].id = i

(* A session by the registry's entry and the handler that stops its VM. *)
LEMMA SessionOf ==
    ASSUME NEW i \in VMIDs
    PROVE  /\ Session(i).ip = vmRegistry[i].ip
           /\ ~Exists(i) => Session(i).phase = "none"
           /\ Exists(i) /\ vmRegistry[i].machine = 0 => Session(i).phase = "starting"
           /\ Exists(i) /\ vmRegistry[i].machine # 0 /\ StopDone(i) => Session(i).phase = "stopping"
           /\ Exists(i) /\ vmRegistry[i].machine # 0 /\ ~StopDone(i) => Session(i).phase = "running"
           /\ Session(i) = [phase |-> Session(i).phase, ip |-> Session(i).ip]
           /\ Session(i).phase \in {"none", "starting", "running", "stopping"}
BY DEF Session, StopDone

(* The same in the next state. *)
LEMMA SessionNext ==
    ASSUME NEW i \in VMIDs
    PROVE  /\ Session(i)'.ip = vmRegistry'[i].ip
           /\ ~Exists(i)' => Session(i)'.phase = "none"
           /\ Exists(i)' /\ vmRegistry'[i].machine = 0 => Session(i)'.phase = "starting"
           /\ Exists(i)' /\ vmRegistry'[i].machine # 0 /\ StopDone(i)' => Session(i)'.phase = "stopping"
           /\ Exists(i)' /\ vmRegistry'[i].machine # 0 /\ ~StopDone(i)' => Session(i)'.phase = "running"
           /\ Session(i)' = [phase |-> Session(i)'.phase, ip |-> Session(i)'.ip]
BY DEF Session, StopDone

(* An entry that stays keeps its session. *)
LEMMA SessionKept ==
    ASSUME NEW i \in VMIDs, vmRegistry'[i] = vmRegistry[i], StopDone(i)' <=> StopDone(i)
    PROVE  Session(i)' = Session(i)
<1>1. Exists(i)' <=> Exists(i)
  OBVIOUS
<1>2. Session(i)'.phase = Session(i).phase /\ Session(i)'.ip = Session(i).ip
  BY <1>1, SessionOf, SessionNext
<1> QED BY <1>2, SessionOf, SessionNext

(* No entry, no session. *)
LEMMA NoEntryNoSession ==
    ASSUME NEW i \in VMIDs, vmRegistry'[i] = NoVM
    PROVE  Session(i)' = [phase |-> "none", ip |-> 0]
BY SessionNext, NoVMFacts

(* A session moves on and keeps its address. *)
LEMMA SessionMoves ==
    ASSUME NEW id \in VMIDs, NEW from, NEW to, Session(id).phase = from, Session(id)'.phase = to,
           Session(id)'.ip = Session(id).ip,
           \A i \in VMIDs \ {id} : Session(i)' = Session(i)
    PROVE  Sessions!Move(id, from, to)
<1> DEFINE S == [i \in VMIDs |-> Session(i)]
           T == [i \in VMIDs |-> Session(i)']
<1>1. [S[id] EXCEPT !.phase = to] = Session(id)'
  <2>1. Session(id) = [phase |-> Session(id).phase, ip |-> Session(id).ip]
    BY SessionOf
  <2>2. Session(id)' = [phase |-> to, ip |-> Session(id).ip]
    BY SessionNext
  <2> QED BY <2>1, <2>2
<1>2. T = [S EXCEPT ![id] = Session(id)']
  OBVIOUS
<1>3. T = [S EXCEPT ![id].phase = to]
  BY <1>1, <1>2
<1>4. S[id].phase = from
  OBVIOUS
<1> QED BY <1>3, <1>4 DEF Sessions!Move

(* A session ends. *)
LEMMA SessionEnds ==
    ASSUME NEW id \in VMIDs, Session(id).phase \in {"starting", "stopping"}, vmRegistry'[id] = NoVM,
           \A i \in VMIDs \ {id} : Session(i)' = Session(i)
    PROVE  Sessions!Release(id)
<1>1. Session(id)' = [phase |-> "none", ip |-> 0]
  BY NoEntryNoSession
<1>2. [i \in VMIDs |-> Session(i)'] =
          [[i \in VMIDs |-> Session(i)] EXCEPT ![id] = [phase |-> "none", ip |-> 0]]
  BY <1>1
<1> QED BY <1>2 DEF Sessions!Release, Sessions!NoSession

(* A spawn reserves an address that no session has. *)
LEMMA ReserveImplements ==
    ASSUME Inv, NEW c \in Calls, NEW id \in VMIDs, SpawnReserve(c, id)
    PROVE  Sessions!Reserve(id)
<1> DEFINE S == [i \in VMIDs |-> Session(i)]
           a == findFreeIPIndex
<1>1. /\ At(c, "idle") /\ ~Exists(id)
      /\ vmRegistry' = [vmRegistry EXCEPT ![id] = [ip |-> a, machine |-> 0]]
      /\ call' = [call EXCEPT ![c] = [op |-> "tap", id |-> id, ip |-> a, serial |-> spawns + 1]]
      /\ vmRegistry \in [VMIDs -> VMRec] /\ call \in [Calls -> CallRec]
  BY TypeParts DEF SpawnReserve, Inv
<1>2. a \in Addresses \ UsedIPs /\ a # 0
  BY FreeIPFound DEF SpawnReserve, Inv
<1> HIDE DEF a
<1>3. Session(id)' = [phase |-> "starting", ip |-> a]
  <2>1. vmRegistry'[id].ip = a /\ vmRegistry'[id].machine = 0 /\ Exists(id)'
    BY <1>1, <1>2, NoVMFacts
  <2> QED BY <2>1, SessionNext
<1>4. ASSUME NEW i \in VMIDs \ {id} PROVE Session(i)' = Session(i)
  <2>1. StopDone(i)' <=> StopDone(i)
    BY <1>1 DEF StopDone
  <2> QED BY <1>1, <2>1, SessionKept
<1>5. [i \in VMIDs |-> Session(i)'] = [S EXCEPT ![id] = [phase |-> "starting", ip |-> a]]
  BY <1>3, <1>4
<1>6. S[id].phase = "none"
  BY <1>1, SessionOf
<1>7. a \notin {S[i].ip : i \in {j \in VMIDs : S[j].phase # "none"}}
  BY <1>2, SessionOf DEF UsedIPs
<1> QED BY <1>2, <1>5, <1>6, <1>7 DEF Sessions!Reserve, Sessions!InUse

(* A registered VM runs. *)
LEMMA RegisterImplements ==
    ASSUME Inv, ~misused, NEW c \in Calls, Register(c)
    PROVE  Sessions!Started(call[c].id)
<1> PICK id \in VMIDs : id = call[c].id
  BY CallTypes DEF Inv
<1>1. /\ At(c, "register") /\ Return(c)
      /\ vmRegistry' = [vmRegistry EXCEPT ![id] = [ip |-> call[c].ip, machine |-> call[c].serial]]
      /\ vmRegistry \in [VMIDs -> VMRec] /\ TypeOK /\ HandlerInv /\ id \in VMIDs
  BY TypeParts, CallTypes DEF Register, Inv, Ownership
<1>2. call'[c].op = "idle" /\ \A d \in Calls \ {c} : call'[d] = call[d]
  BY <1>1, ReturnShape
<1>3. /\ vmRegistry[id].machine = 0 /\ vmRegistry[id].ip = call[c].ip /\ call[c].ip # 0
      /\ call[c].serial # 0
  BY <1>1, SerialsGivenOut DEF HandlerInv, CallsMatchEntries
<1>4. \A d \in Calls : At(d, "unregister") => call[d].id # id
  BY <1>1, EntryIsMine
<1>5. \A i \in VMIDs : StopDone(i)' <=> StopDone(i)
  BY <1>1, <1>2 DEF StopDone
<1>6. ~StopDone(id)' /\ Exists(id) /\ Exists(id)'
  BY <1>1, <1>3, <1>4, <1>5, NoVMFacts DEF StopDone
<1>7. /\ Session(id).phase = "starting" /\ Session(id)'.phase = "running"
      /\ Session(id)'.ip = Session(id).ip
  BY <1>1, <1>3, <1>6, SessionOf, SessionNext
<1>8. \A i \in VMIDs \ {id} : Session(i)' = Session(i)
  BY <1>1, <1>5, SessionKept
<1> QED BY <1>1, <1>7, <1>8, SessionMoves DEF Sessions!Started

(* A VM that StopVMM has stopped keeps its address until it is unregistered. *)
LEMMA StopImplements ==
    ASSUME Inv, ~misused, NEW c \in Calls, StopVMM(c), Goto(c, "unregister")
    PROVE  Sessions!Stopped(call[c].id)
<1> PICK id \in VMIDs : id = call[c].id
  BY CallTypes DEF Inv
<1>1. /\ At(c, "stop") /\ vmRegistry' = vmRegistry
      /\ vmRegistry \in [VMIDs -> VMRec] /\ TypeOK /\ HandlerInv /\ id \in VMIDs
  BY TypeParts, CallTypes DEF StopVMM, Inv, Ownership
<1>2. \A d \in Calls : /\ call'[d].op = IF d = c THEN "unregister" ELSE call[d].op
                       /\ call'[d].id = call[d].id
  <2>1. "unregister" \in Ops
    BY DEF Ops
  <2> QED BY <1>1, <2>1, GotoShape
<1>3. vmRegistry[id].machine # 0 /\ Exists(id)
  BY <1>1, SerialsGivenOut, NoVMFacts DEF HandlerInv, CallsMatchEntries
<1>4. \A d \in Calls : At(d, "unregister") => call[d].id # id
  BY <1>1, EntryIsMine
<1>5. StopDone(id)' /\ ~StopDone(id) /\ \A i \in VMIDs \ {id} : StopDone(i)' <=> StopDone(i)
  BY <1>1, <1>2, <1>4 DEF StopDone
<1>6. /\ Session(id).phase = "running" /\ Session(id)'.phase = "stopping"
      /\ Session(id)'.ip = Session(id).ip
  <2>1. Exists(id)' /\ vmRegistry'[id].machine # 0
    BY <1>1, <1>3
  <2> QED BY <1>1, <1>3, <1>5, <2>1, SessionOf, SessionNext
<1>7. \A i \in VMIDs \ {id} : Session(i)' = Session(i)
  BY <1>1, <1>5, SessionKept
<1> QED BY <1>1, <1>6, <1>7, SessionMoves DEF Sessions!Stopped

(* A failed spawn and a teardown give their address back. *)
LEMMA ReleaseImplements ==
    ASSUME Inv, ~misused, NEW c \in Calls, SpawnFailed(c) \/ Unregister(c)
    PROVE  Sessions!Release(call[c].id)
<1> DEFINE id == call[c].id
<1>1. /\ At(c, "unreserve") \/ At(c, "unregister")
      /\ vmRegistry' = [vmRegistry EXCEPT ![id] = NoVM]
      /\ vmRegistry \in [VMIDs -> VMRec] /\ TypeOK /\ HandlerInv /\ id \in VMIDs
  BY TypeParts, CallTypes DEF SpawnFailed, Unregister, Inv, Ownership
<1>2. \A d \in Calls : /\ At(d, "unregister")' => At(d, "unregister") /\ d # c /\ call'[d].id = call[d].id
                       /\ At(d, "unregister") /\ d # c => At(d, "unregister")' /\ call'[d].id = call[d].id
  <2>1. CASE SpawnFailed(c)
    <3>1. call'[c].op = "idle" /\ \A d \in Calls \ {c} : call'[d] = call[d]
      BY <1>1, <2>1, ReturnShape DEF SpawnFailed
    <3> QED BY <3>1
  <2>2. CASE Unregister(c)
    <3>1. "deltap" \in Ops
      BY DEF Ops
    <3>2. \A d \in Calls : /\ call'[d].op = IF d = c THEN "deltap" ELSE call[d].op
                           /\ call'[d].id = call[d].id
      BY <1>1, <2>2, <3>1, GotoShape DEF Unregister
    <3> QED BY <3>2
  <2> QED BY <2>1, <2>2
<1>3. Session(id).phase \in {"starting", "stopping"}
  <2>1. CASE At(c, "unreserve")
    <3>1. vmRegistry[id].machine = 0 /\ vmRegistry[id].ip # 0
      BY <1>1, <2>1 DEF HandlerInv, CallsMatchEntries
    <3> QED BY <1>1, <3>1, SessionOf, NoVMFacts
  <2>2. CASE At(c, "unregister")
    <3>1. vmRegistry[id].machine # 0 /\ StopDone(id)
      BY <1>1, <2>2, SerialsGivenOut DEF HandlerInv, CallsMatchEntries, StopDone
    <3> QED BY <1>1, <3>1, SessionOf, NoVMFacts
  <2> QED BY <1>1, <2>1, <2>2
<1>4. ASSUME NEW i \in VMIDs \ {id} PROVE Session(i)' = Session(i)
  <2>1. StopDone(i)' <=> StopDone(i)
    BY <1>2, <1>4 DEF StopDone
  <2> QED BY <1>1, <2>1, SessionKept
<1> QED BY <1>1, <1>3, <1>4, SessionEnds

(* The shutdown ends every session, and none is starting or stopping then. *)
LEMMA ShutdownImplements ==
    ASSUME Inv, ~misused, ShutdownAllVMs
    PROVE  Sessions!ReleaseAll
<1>1. /\ \A c \in Calls : At(c, "idle")
      /\ vmRegistry' = [i \in VMIDs |-> NoVM] /\ HandlerInv
  BY DEF ShutdownAllVMs, Inv, Ownership
<1>2. ASSUME NEW i \in VMIDs PROVE Session(i).phase \in {"none", "running"}
  <2>1. Exists(i) => vmRegistry[i].machine # 0
    BY <1>1 DEF HandlerInv, TentativeOwned
  <2>2. ~StopDone(i)
    BY <1>1 DEF StopDone
  <2> QED BY <2>1, <2>2, SessionOf
<1>3. \A i \in VMIDs : Session(i)' = [phase |-> "none", ip |-> 0]
  BY <1>1, NoEntryNoSession
<1> QED BY <1>2, <1>3 DEF Sessions!ReleaseAll, Sessions!NoSession

(* Every other step leaves every session as it is. *)
LEMMA OthersStutter ==
    ASSUME vmRegistry' = vmRegistry,
           \A d \in Calls : /\ At(d, "unregister")' <=> At(d, "unregister")
                            /\ At(d, "unregister") => call'[d].id = call[d].id
    PROVE  [i \in VMIDs |-> Session(i)]' = [i \in VMIDs |-> Session(i)]
<1>1. \A i \in VMIDs : StopDone(i)' <=> StopDone(i)
  BY DEF StopDone
<1>2. \A i \in VMIDs : Session(i)' = Session(i)
  BY <1>1, SessionKept
<1> QED BY <1>2

(* A process that is never killed keeps the promise of VMSessions: at most *)
(* one session per submission, and an address that no other session has,   *)
(* from before the VM starts until it is unregistered, through every       *)
(* interleaving of handlers and every failure of a host command.           *)
THEOREM ImplementsSessionsHolds ==
    ASSUME MaxCrashes = 0, MaxRestarts = 0
    PROVE  Spec => ImplementsSessions
<1> DEFINE S == [i \in VMIDs |-> Session(i)]
<1>1. Init => Sessions!SessionsInit
  <2> SUFFICES ASSUME Init PROVE Sessions!SessionsInit
    OBVIOUS
  <2>1. ASSUME NEW i \in VMIDs PROVE Session(i) = [phase |-> "none", ip |-> 0]
    <3>1. vmRegistry[i] = NoVM
      BY DEF Init
    <3> QED BY <3>1, SessionOf, NoVMFacts
  <2> QED BY <2>1 DEF Sessions!SessionsInit, Sessions!NoSession
<1>2. Inv /\ [Next]_vars => [Sessions!SessionsNext]_S
  <2> SUFFICES ASSUME Inv, [Next]_vars PROVE Sessions!SessionsNext \/ S' = S
    OBVIOUS
  <2>1. TypeOK /\ FirstLife /\ ~misused /\ \A d \in Calls : call[d].id \in VMIDs
    <3>1. TypeOK /\ crashes \in 0..0 /\ restarts \in 0..0
      BY DEF Inv, TypeOK
    <3> QED BY <3>1, CallTypes DEF FirstLife, Inv, FirstLifeInv
  <2>2. ASSUME NEW c \in Calls, NEW op \in Ops \ {"unregister"}, ~At(c, "unregister"), Goto(c, op),
               UNCHANGED vmRegistry
        PROVE  S' = S
    <3>1. \A d \in Calls : /\ call'[d].op = IF d = c THEN op ELSE call[d].op
                           /\ call'[d].id = call[d].id
      BY <2>1, <2>2, GotoShape
    <3> QED BY <2>2, <3>1, OthersStutter
  <2>3. ASSUME NEW c \in Calls, ~At(c, "unregister"), Return(c), UNCHANGED vmRegistry
        PROVE  S' = S
    <3>1. call'[c].op = "idle" /\ \A d \in Calls \ {c} : call'[d] = call[d]
      BY <2>1, <2>3, ReturnShape
    <3> QED BY <2>3, <3>1, OthersStutter
  <2>4. ASSUME NEW c \in Calls, Handler(c) PROVE Sessions!SessionsNext \/ S' = S
    <3>1. CASE \/ SetupTap(c) \/ CreateImage(c) \/ StartMachine(c) \/ BootSucceeds(c) \/ BootFails(c)
               \/ UndoTap(c) \/ DeleteTap(c)
      <4>1. ~At(c, "unregister") /\ UNCHANGED vmRegistry
        BY <3>1 DEF SetupTap, CreateImage, StartMachine, BootSucceeds, BootFails, UndoTap, DeleteTap
      <4>2. \E op \in {"image", "unreserve", "boot", "booting", "untap", "register", "delimage"} : Goto(c, op)
        BY <3>1 DEF SetupTap, CreateImage, StartMachine, BootSucceeds, BootFails, UndoTap, DeleteTap
      <4>3. {"image", "unreserve", "boot", "booting", "untap", "register", "delimage"} \subseteq Ops \ {"unregister"}
        BY DEF Ops
      <4> QED BY <2>2, <4>1, <4>2, <4>3
    <3>2. CASE Register(c)
      BY <2>1, <3>2, RegisterImplements DEF Sessions!SessionsNext
    <3>3. CASE SpawnFailed(c) \/ Unregister(c)
      BY <2>1, <3>3, ReleaseImplements DEF Sessions!SessionsNext
    <3>4. CASE StopVMM(c)
      <4>1. CASE Goto(c, "unregister")
        BY <2>1, <3>4, <4>1, StopImplements DEF Sessions!SessionsNext
      <4>2. CASE Return(c)
        BY <2>3, <3>4, <4>2 DEF StopVMM
      <4> QED BY <3>4, <4>1, <4>2 DEF StopVMM
    <3>5. CASE StopNilMachine(c)
      <4>1. At(c, "stop") /\ call[c].serial = 0
        BY <3>5 DEF StopNilMachine
      <4> QED BY <2>1, <4>1, SerialsGivenOut DEF Inv, Ownership, HandlerInv
    <3>6. CASE DeleteImage(c)
      BY <2>3, <3>6 DEF DeleteImage
    <3> QED BY <2>4, <3>1, <3>2, <3>3, <3>4, <3>5, <3>6 DEF Handler
  <2>5. ASSUME NEW c \in Calls, NEW l \in leases, TeardownFound(c, l) PROVE S' = S
    <3>1. /\ UNCHANGED vmRegistry /\ At(c, "idle") /\ call \in [Calls -> CallRec]
          /\ call' = [call EXCEPT ![c] = [op |-> "stop", id |-> l.id, ip |-> vmRegistry[l.id].ip,
                                        serial |-> vmRegistry[l.id].machine]]
      BY <2>1, <2>5, TypeParts DEF TeardownFound
    <3> QED BY <3>1, OthersStutter
  <2>6. CASE UNCHANGED <<vmRegistry, call>>
    BY <2>6, OthersStutter
  <2>7. ASSUME Crash \/ Restart PROVE FALSE
    BY <2>1, <2>7 DEF Crash, Restart, FirstLife
  <2>8. \/ \E id \in VMIDs, c \in Calls : SpawnReserve(c, id)
        \/ \E l \in leases, c \in Calls : TeardownFound(c, l)
        \/ \E c \in Calls : Handler(c)
        \/ ShutdownAllVMs \/ Crash \/ Restart
        \/ UNCHANGED <<vmRegistry, call>>
    BY DEF Next, vars, SpawnRefused, TeardownNotFound, ForkVMM, VMMExits, Signal
  <2>9. ASSUME NEW id \in VMIDs, NEW c \in Calls, SpawnReserve(c, id) PROVE Sessions!SessionsNext
    BY <2>9, ReserveImplements DEF Sessions!SessionsNext
  <2>10. CASE ShutdownAllVMs
    BY <2>1, <2>10, ShutdownImplements DEF Sessions!SessionsNext
  <2> HIDE DEF S
  <2> QED BY <2>4, <2>5, <2>6, <2>7, <2>8, <2>9, <2>10
<1> QED BY <1>1, <1>2, InductiveInvariant, PTL DEF Spec, ImplementsSessions, Sessions!SessionsSpec

============================================================================
