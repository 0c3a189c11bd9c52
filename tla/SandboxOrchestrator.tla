------------------------ MODULE SandboxOrchestrator ------------------------
(***************************************************************************)
(* The sandbox orchestrator (services/sandbox-orchestrator): the registry  *)
(* of microVMs behind one mutex, and the host resources that the SpawnVM   *)
(* and TeardownVM handlers create and remove OUTSIDE that mutex: the TAP   *)
(* interface, the submission disk image and the Firecracker process.       *)
(*                                                                         *)
(* Each RPC runs in a handler goroutine, named by a member of Calls.  One  *)
(* step of a handler is what it does under the mutex, or one host command. *)
(* The n-th spawn that passes the existence check owns serial n; host      *)
(* resources carry the serial of the spawn that made them, which the code  *)
(* does not know: it names them after the submission id alone.             *)
(*                                                                         *)
(* A client tears a VM down once, after a successful spawn, as the         *)
(* submission API does: it holds a lease from the response until then.     *)
(***************************************************************************)
EXTENDS Naturals, FiniteSets

CONSTANTS
    VMIDs,            \* submission ids
    Calls,            \* handler goroutines
    LastIP,           \* 254: addresses are 172.16.0.2 .. 172.16.0.LastIP
    TapNames,         \* names of host interfaces
    tapNameForVM,     \* function VMIDs -> TapNames: an FNV-32a hash, not injective
    CleanupCanFail,   \* may StopVMM and "ip link delete" report an error?
    MaxSpawns,        \* bound: spawns that pass the existence check
    MaxCrashes,       \* bound: kills of the orchestrator process
    MaxRestarts       \* bound: restarts of it

ASSUME VMIDsAssumption == VMIDs # {}
ASSUME LastIPAssumption == LastIP \in Nat /\ LastIP >= 2
ASSUME TapNameAssumption == tapNameForVM \in [VMIDs -> TapNames]
ASSUME CleanupAssumption == CleanupCanFail \in BOOLEAN
ASSUME OrchestratorBounds == MaxSpawns \in Nat /\ MaxCrashes \in Nat /\ MaxRestarts \in Nat

VARIABLES
    vmRegistry,   \* vmRegistry[id]: address and machine; ip = 0: no entry,
                  \* machine = 0: tentative entry, whose Machine is nil
    phase,        \* of the process: "serving", "stopping", "stopped", "dead"
    call,         \* call[c]: what handler c does
    tap,          \* tap[name]: serial of the spawn that made the interface, 0: absent
    disk,         \* disk[id]: serial of the spawn that made the image, 0: absent
    machines,     \* the Firecracker processes that run: serial, id and address
    signalled,    \* serials of those that were sent SIGTERM
    starts,       \* machine.Start goroutines that have not forked theirs yet
    leases,       \* what clients hold: the id and serial of a successful spawn
    spawns,       \* serials given out, bounded by MaxSpawns
    crashes,      \* bounded by MaxCrashes
    restarts,     \* bounded by MaxRestarts
    \* bookkeeping that no program variable holds
    misused,      \* has a lease from before a restart torn down a later VM?
    abandoned,    \* serials whose CreateAndBootVM gave up on a started machine
    spared        \* serials whose StopVMM in a teardown reported an error

vmms == <<machines, signalled, starts, abandoned, spared>>
host == <<tap, disk, vmms>>
bounds == <<spawns, crashes, restarts>>
clients == <<leases, misused>>
vars == <<vmRegistry, phase, call, host, clients, bounds>>

NoVM == [ip |-> 0, machine |-> 0]
Idle == [op |-> "idle", id |-> CHOOSE i \in VMIDs : TRUE, ip |-> 0, serial |-> 0]
Addresses == 2..LastIP
Exists(id) == vmRegistry[id] # NoVM

Init ==
    /\ vmRegistry = [i \in VMIDs |-> NoVM]
    /\ phase = "serving"
    /\ call = [c \in Calls |-> Idle]
    /\ tap = [n \in TapNames |-> 0]
    /\ disk = [i \in VMIDs |-> 0]
    /\ machines = {} /\ signalled = {} /\ starts = {}
    /\ abandoned = {} /\ spared = {}
    /\ leases = {}
    /\ spawns = 0
    /\ crashes = 0
    /\ restarts = 0
    /\ misused = FALSE

At(c, op) == call[c].op = op
Goto(c, op) == call' = [call EXCEPT ![c].op = op]
Return(c) == call' = [call EXCEPT ![c] = Idle]
SpawnOps == {"tap", "image", "boot", "booting", "register", "untap", "unreserve"}
TeardownOps == {"stop", "unregister", "deltap", "delimage"}

----------------------------------------------------------------------------
(* SpawnVM *)

UsedIPs == {vmRegistry[i].ip : i \in {j \in VMIDs : Exists(j)}}
\* Mutant of findFreeIPIndex: the number of entries is taken for the next
\* free index.
countAsIndex == Cardinality(UsedIPs) + 2

findFreeIPIndex == CHOOSE a \in Addresses \ UsedIPs : \A b \in Addresses \ UsedIPs : a <= b

(* Under the mutex: "vm already exists", or no free address.  Nothing      *)
(* changes and the caller gets an error.                                   *)
SpawnRefused(id) ==
    /\ phase = "serving"
    /\ Exists(id) \/ Addresses \subseteq UsedIPs
    /\ UNCHANGED vars

(* Under the mutex: the lowest free address is reserved by a tentative entry. *)
SpawnReserve(c, id) ==
    /\ phase = "serving"
    /\ At(c, "idle")
    /\ ~Exists(id)
    /\ ~(Addresses \subseteq UsedIPs)
    /\ spawns < MaxSpawns
    /\ spawns' = spawns + 1
    /\ vmRegistry' = [vmRegistry EXCEPT ![id] = [ip |-> findFreeIPIndex, machine |-> 0]]
    /\ call' = [call EXCEPT ![c] = [op |-> "tap", id |-> id, ip |-> findFreeIPIndex, serial |-> spawns + 1]]
    /\ UNCHANGED <<phase, host, clients, crashes, restarts>>

\* Mutant of SetupTap: an interface that exists is taken over.
SetupTapUnchecked(c) ==
    /\ At(c, "tap")
    /\ tap' = [tap EXCEPT ![tapNameForVM[call[c].id]] = call[c].serial]
    /\ Goto(c, "image")
    /\ UNCHANGED <<vmRegistry, phase, disk, vmms, clients, bounds>>

(* SetupTapInterface refuses an interface that exists; a command that fails *)
(* later removes the interface again, if "ip link delete" works.           *)
SetupTap(c) ==
    LET name == tapNameForVM[call[c].id] IN
    /\ At(c, "tap")
    /\ \/ tap[name] = 0 /\ tap' = [tap EXCEPT ![name] = call[c].serial] /\ Goto(c, "image")
       \/ UNCHANGED tap /\ Goto(c, "unreserve")
       \/ /\ CleanupCanFail
          /\ tap[name] = 0
          /\ tap' = [tap EXCEPT ![name] = call[c].serial]
          /\ Goto(c, "unreserve")
    /\ UNCHANGED <<vmRegistry, phase, disk, vmms, clients, bounds>>

(* CreateSubmissionImage removes a stale image first; when a later command *)
(* fails, the image "truncate" made stays.                                 *)
CreateImage(c) ==
    LET id == call[c].id IN
    /\ At(c, "image")
    /\ \/ disk' = [disk EXCEPT ![id] = call[c].serial] /\ Goto(c, "boot")
       \/ \E left \in {0, call[c].serial} :
            disk' = [disk EXCEPT ![id] = left] /\ Goto(c, "untap")
    /\ UNCHANGED <<vmRegistry, phase, tap, vmms, clients, bounds>>

VMOf(c) == [serial |-> call[c].serial, id |-> call[c].id, ip |-> call[c].ip]

(* Machine.StopVMM: SIGTERM to the process, if there is one, and no wait. *)
SendSIGTERM(serial) == signalled' = signalled \cup ({serial} \cap {m.serial : m \in machines})

(* CreateAndBootVM: a goroutine runs machine.Start, unless the stale socket *)
(* cannot be removed or the machine not be made.                           *)
StartMachine(c) ==
    /\ At(c, "boot")
    /\ \/ starts' = starts \cup {VMOf(c)} /\ Goto(c, "booting")
       \/ UNCHANGED starts /\ Goto(c, "untap")
    /\ UNCHANGED <<vmRegistry, phase, tap, disk, machines, signalled, abandoned, spared, clients, bounds>>

(* The goroutine forks the process, whether or not anybody still waits. *)
ForkVMM(vm) ==
    /\ vm \in starts
    /\ starts' = starts \ {vm}
    /\ machines' = machines \cup {vm}
    /\ UNCHANGED <<vmRegistry, phase, call, tap, disk, signalled, abandoned, spared, clients, bounds>>

(* The process took its configuration: interface and image were there. *)
BootSucceeds(c) ==
    /\ At(c, "booting")
    /\ VMOf(c) \in machines
    /\ tap[tapNameForVM[call[c].id]] # 0
    /\ disk[call[c].id] # 0
    /\ Goto(c, "register")
    /\ UNCHANGED <<vmRegistry, phase, host, clients, bounds>>

(* Start reports an error, and a process it may have forked is left alone; *)
(* or the timeout comes first: the process is sent SIGTERM, if there is    *)
(* one yet, the result is not looked at, and the goroutine goes on.        *)
BootFails(c) ==
    /\ At(c, "booting")
    /\ abandoned' = abandoned \cup {call[c].serial}
    /\ \/ starts' = starts \ {VMOf(c)} /\ UNCHANGED signalled
       \/ UNCHANGED starts /\ SendSIGTERM(call[c].serial)
       \/ CleanupCanFail /\ UNCHANGED <<starts, signalled>>
    /\ Goto(c, "untap")
    /\ UNCHANGED <<vmRegistry, phase, tap, disk, machines, spared, clients, bounds>>

\* Mutant of Register: the Machine field is not filled in.
RegisterWithoutMachine(c) ==
    /\ At(c, "register")
    /\ leases' = leases \cup {[id |-> call[c].id, serial |-> call[c].serial]}
    /\ Return(c)
    /\ UNCHANGED <<vmRegistry, phase, host, misused, bounds>>

(* Under the mutex: the entry becomes a running VM; the response gives the *)
(* client its lease.                                                       *)
Register(c) ==
    /\ At(c, "register")
    /\ vmRegistry' = [vmRegistry EXCEPT ![call[c].id] = [ip |-> call[c].ip, machine |-> call[c].serial]]
    /\ leases' = leases \cup {[id |-> call[c].id, serial |-> call[c].serial]}
    /\ Return(c)
    /\ UNCHANGED <<phase, host, misused, bounds>>

(* CleanupTapInterface, for an interface name: idempotent. *)
CleanupTapInterface(name) ==
    tap' \in {[tap EXCEPT ![name] = 0]} \cup (IF CleanupCanFail THEN {tap} ELSE {})

\* Mutant of UndoTap: a failed boot leaves the interface.
KeepTap(c) ==
    /\ At(c, "untap")
    /\ Goto(c, "unreserve")
    /\ UNCHANGED <<vmRegistry, phase, host, clients, bounds>>

(* The failure paths: the interface, then (under the mutex) the reservation.  *)
(* The image is not removed.                                               *)
UndoTap(c) ==
    /\ At(c, "untap")
    /\ CleanupTapInterface(tapNameForVM[call[c].id])
    /\ Goto(c, "unreserve")
    /\ UNCHANGED <<vmRegistry, phase, disk, vmms, clients, bounds>>

\* Mutant of SpawnFailed: the reservation is not given up.
KeepReservation(c) ==
    /\ At(c, "unreserve")
    /\ Return(c)
    /\ UNCHANGED <<vmRegistry, phase, host, clients, bounds>>

SpawnFailed(c) ==
    /\ At(c, "unreserve")
    /\ vmRegistry' = [vmRegistry EXCEPT ![call[c].id] = NoVM]
    /\ Return(c)
    /\ UNCHANGED <<phase, host, clients, bounds>>

----------------------------------------------------------------------------
(* TeardownVM *)

(* Under the read lock: the entry is looked up. *)
TeardownNotFound(l) ==
    /\ phase = "serving"
    /\ ~Exists(l.id)
    /\ leases' = leases \ {l}
    /\ UNCHANGED <<vmRegistry, phase, call, host, misused, bounds>>

TeardownFound(c, l) ==
    /\ phase = "serving"
    /\ At(c, "idle")
    /\ Exists(l.id)
    /\ leases' = leases \ {l}
    /\ call' = [call EXCEPT ![c] = [op |-> "stop", id |-> l.id, ip |-> vmRegistry[l.id].ip,
                                  serial |-> vmRegistry[l.id].machine]]
    /\ misused' = (misused \/ vmRegistry[l.id].machine # l.serial)
    /\ UNCHANGED <<vmRegistry, phase, host, bounds>>

\* Mutant of StopVMM: its error is ignored.
StopErrorIgnored(c) ==
    /\ At(c, "stop")
    /\ SendSIGTERM(call[c].serial) \/ UNCHANGED signalled
    /\ Goto(c, "unregister")
    /\ UNCHANGED <<vmRegistry, phase, tap, disk, machines, starts, abandoned, spared, clients, bounds>>

(* Machine.StopVMM, outside the lock; on an error the entry stays. *)
StopVMM(c) ==
    /\ At(c, "stop")
    /\ call[c].serial # 0
    /\ \/ SendSIGTERM(call[c].serial) /\ UNCHANGED spared /\ Goto(c, "unregister")
       \/ /\ CleanupCanFail
          /\ spared' = spared \cup {call[c].serial}
          /\ UNCHANGED signalled
          /\ Return(c)
    /\ UNCHANGED <<vmRegistry, phase, tap, disk, machines, starts, abandoned, clients, bounds>>

Die ==
    /\ phase' = "dead"
    /\ vmRegistry' = [i \in VMIDs |-> NoVM]
    /\ call' = [c \in Calls |-> Idle]
    /\ starts' = {}
    /\ UNCHANGED <<tap, disk, machines, signalled, abandoned, spared>>

(* StopVMM of a tentative entry, whose Machine is nil, panics: no handler  *)
(* recovers, so the process dies.                                          *)
StopNilMachine(c) ==
    /\ At(c, "stop")
    /\ call[c].serial = 0
    /\ Die
    /\ UNCHANGED <<clients, bounds>>

(* Under the mutex: the entry of this id, whichever it is now, is deleted. *)
Unregister(c) ==
    /\ At(c, "unregister")
    /\ vmRegistry' = [vmRegistry EXCEPT ![call[c].id] = NoVM]
    /\ Goto(c, "deltap")
    /\ UNCHANGED <<phase, host, clients, bounds>>

DeleteTap(c) ==
    /\ At(c, "deltap")
    /\ CleanupTapInterface(tapNameForVM[call[c].id])
    /\ Goto(c, "delimage")
    /\ UNCHANGED <<vmRegistry, phase, disk, vmms, clients, bounds>>

(* CleanupSubmissionImage: os.Remove of the path, which names only the id. *)
DeleteImage(c) ==
    /\ At(c, "delimage")
    /\ disk' = [disk EXCEPT ![call[c].id] = 0]
    /\ Return(c)
    /\ UNCHANGED <<vmRegistry, phase, tap, vmms, clients, bounds>>

----------------------------------------------------------------------------
(* The process and its host *)

(* A process ends: some time after its SIGTERM, or because the guest's     *)
(* bootstrap script ends in "reboot -f".                                   *)
VMMExits(m) ==
    /\ m \in machines
    /\ machines' = machines \ {m}
    /\ signalled' = signalled \ {m.serial}
    /\ UNCHANGED <<vmRegistry, phase, call, tap, disk, starts, abandoned, spared, clients, bounds>>

(* SIGTERM: GracefulStop takes no new RPC and waits for the handlers. *)
Signal ==
    /\ phase = "serving"
    /\ phase' = "stopping"
    /\ UNCHANGED <<vmRegistry, call, host, clients, bounds>>

(* shutdownAllVMs, under the mutex with no handler left: StopVMM and the   *)
(* cleanups, VM by VM, their errors passed over.  Then the process ends.   *)
ShutdownAllVMs ==
    LET ids == {i \in VMIDs : Exists(i)}
        names == {tapNameForVM[i] : i \in ids}
        told == {m.serial : m \in {n \in machines : vmRegistry[n.id].machine = n.serial}}
    IN  /\ phase = "stopping"
        /\ \A c \in Calls : At(c, "idle")
        /\ phase' = "stopped"
        /\ vmRegistry' = [i \in VMIDs |-> NoVM]
        /\ disk' = [i \in VMIDs |-> IF i \in ids THEN 0 ELSE disk[i]]
        /\ \E missed \in SUBSET told, left \in SUBSET names :
              /\ CleanupCanFail \/ (missed = {} /\ left = {})
              /\ signalled' = signalled \cup (told \ missed)
              /\ tap' = [n \in TapNames |-> IF n \in names \ left THEN 0 ELSE tap[n]]
        /\ starts' = {}
        /\ UNCHANGED <<call, machines, abandoned, spared, clients, bounds>>

(* The process is killed: registry and handlers are gone, the Firecracker  *)
(* processes, interfaces and images are not.                               *)
Crash ==
    /\ phase \in {"serving", "stopping"}
    /\ crashes < MaxCrashes
    /\ crashes' = crashes + 1
    /\ Die
    /\ UNCHANGED <<clients, spawns, restarts>>

(* newServer: an empty registry.  Nothing on the host is looked for. *)
Restart ==
    /\ phase \in {"stopped", "dead"}
    /\ restarts < MaxRestarts
    /\ restarts' = restarts + 1
    /\ phase' = "serving"
    /\ UNCHANGED <<vmRegistry, call, host, clients, spawns, crashes>>

Handler(c) ==
    \/ SetupTap(c) \/ CreateImage(c)
    \/ StartMachine(c) \/ BootSucceeds(c) \/ BootFails(c) \/ Register(c)
    \/ UndoTap(c) \/ SpawnFailed(c)
    \/ StopVMM(c) \/ StopNilMachine(c) \/ Unregister(c) \/ DeleteTap(c) \/ DeleteImage(c)

Next ==
    \/ \E id \in VMIDs : SpawnRefused(id) \/ \E c \in Calls : SpawnReserve(c, id)
    \/ \E l \in leases : TeardownNotFound(l) \/ \E c \in Calls : TeardownFound(c, l)
    \/ \E c \in Calls : Handler(c)
    \/ \E vm \in starts : ForkVMM(vm)
    \/ \E m \in machines : VMMExits(m)
    \/ Signal \/ ShutdownAllVMs \/ Crash \/ Restart

Spec == Init /\ [][Next]_vars

----------------------------------------------------------------------------
(* Properties *)

Serials == 0..MaxSpawns

(* Type correctness of the registry, the handlers and the host resources. *)
TypeOK ==
    /\ vmRegistry \in [VMIDs -> [ip: Addresses \cup {0}, machine: Serials]]
    /\ phase \in {"serving", "stopping", "stopped", "dead"}
    /\ call \in [Calls -> [op: SpawnOps \cup TeardownOps \cup {"idle"}, id: VMIDs,
                        ip: Addresses \cup {0}, serial: Serials]]
    /\ tap \in [TapNames -> Serials]
    /\ disk \in [VMIDs -> Serials]
    /\ machines \cup starts \subseteq [serial: Serials, id: VMIDs, ip: Addresses \cup {0}]
    /\ signalled \cup abandoned \cup spared \subseteq Serials
    /\ leases \subseteq [id: VMIDs, serial: Serials]
    /\ misused \in BOOLEAN
    /\ spawns \in Serials /\ crashes \in 0..MaxCrashes /\ restarts \in 0..MaxRestarts

(* A VMM that somebody still means to run: it was not told to stop, and    *)
(* its boot was not given up.                                              *)
Wanted(m) == m.serial \notin signalled \cup abandoned

(* No two such processes have the same address (nor, since the vsock CID   *)
(* is the address index plus 10, the same CID).  The others may live on    *)
(* beside the next VM of their id or address: nobody waits for them.       *)
RunningIPsUnique ==
    \A m, n \in {v \in machines : Wanted(v)} : m # n => m.ip # n.ip /\ m.id # n.id

(* Such a process runs only while the registry holds its id and address:   *)
(* the handler that boots it, a teardown or a shutdown will find it.       *)
NoZombieVM ==
    \A m \in {v \in machines : Wanted(v)} :
        /\ vmRegistry[m.id].ip = m.ip
        /\ \/ vmRegistry[m.id].machine = m.serial
           \/ \E c \in Calls : call[c].op \in {"booting", "register"} /\ call[c].serial = m.serial

(* A VM that the registry lists as running has the interface that its own  *)
(* spawn made, though names collide and spawns and teardowns overlap.      *)
RunningVMHasItsTap ==
    \A i \in VMIDs : vmRegistry[i].machine # 0 => tap[tapNameForVM[i]] = vmRegistry[i].machine

(* An interface is removed or taken over only on behalf of the spawn that  *)
(* made it: by its own handlers, or by the shutdown of an orchestrator     *)
(* whose registry holds that very VM.  A crash and a restart in between do *)
(* not let another spawn of the same name touch the network of a VM that   *)
(* survived, as long as no client uses a lease from before the restart on  *)
(* the VM that has its id now.                                             *)
TapRemovedByOwner ==
    [][misused \/ \A n \in TapNames : tap[n] # 0 /\ tap'[n] # tap[n] =>
            \/ \E c \in Calls : ~At(c, "idle") /\ call[c].serial = tap[n]
            \/ phase' = "stopped" /\ \E i \in VMIDs : tapNameForVM[i] = n /\ vmRegistry[i].machine = tap[n]]_vars

(* Every interface belongs to a VM in the registry or to a handler that    *)
(* is about to remove it or to finish building its VM.                     *)
NoTapLeak ==
    \A n \in TapNames : tap[n] # 0 =>
        \/ \E i \in VMIDs : tapNameForVM[i] = n /\ vmRegistry[i].machine = tap[n]
        \/ \E c \in Calls : tapNameForVM[call[c].id] = n /\ call[c].serial = tap[n]

(* In one life of the process the registry and the host agree: every VM    *)
(* that was neither told to stop nor given up, and every interface, has    *)
(* its entry, and no two such VMs share an address.                        *)
RegistryMatchesHost ==
    TypeOK /\ RunningIPsUnique /\ NoZombieVM /\ RunningVMHasItsTap /\ NoTapLeak

(* TeardownVM never calls StopVMM on the nil Machine of a tentative entry. *)
NoNilMachineStopped == \A c \in Calls : At(c, "stop") => call[c].serial # 0

(* After a shutdown on SIGTERM no interface is left on the host, and every *)
(* process that still runs was told to stop or is one whose boot was given *)
(* up.                                                                     *)
ShutdownLeavesNothing ==
    phase = "stopped" => (\A m \in machines : ~Wanted(m)) /\ \A n \in TapNames : tap[n] = 0

(* The registry keeps the promise of sessions with exclusive addresses. *)
Session(id) ==
    [phase |-> IF ~Exists(id) THEN "none"
               ELSE IF vmRegistry[id].machine = 0 THEN "starting"
               ELSE IF \E c \in Calls : At(c, "unregister") /\ call[c].id = id THEN "stopping"
               ELSE "running",
     ip |-> vmRegistry[id].ip]
Sessions == INSTANCE VMSessions WITH sessions <- [i \in VMIDs |-> Session(i)]
ImplementsSessions == Sessions!SessionsSpec

(* Every entry, and so every address taken, has somebody who will give it  *)
(* up: the spawn that made it, the client that may tear its VM down, or    *)
(* the teardown at work on it.  An entry is kept for good only when        *)
(* StopVMM failed.  Kills, restarts and stale leases do not change that.   *)
EntryAccounted ==
    \A i \in VMIDs : Exists(i) =>
        IF vmRegistry[i].machine = 0
        THEN \E c \in Calls : call[c].op \in SpawnOps /\ call[c].id = i
        ELSE \/ [id |-> i, serial |-> vmRegistry[i].machine] \in leases
             \/ vmRegistry[i].machine \in spared
             \/ \E c \in Calls : /\ call[c].op \in {"stop", "unregister"}
                               /\ call[c].id = i /\ call[c].serial = vmRegistry[i].machine

(* ARCHITECTURE.md, 5.5: the submission image is "Created fresh for each   *)
(* submission and destroyed during teardown": a spawn that made its image  *)
(* still has it when it boots the VM.                                      *)
ImageLastsUntilBoot == \A c \in Calls : At(c, "boot") => disk[call[c].id] = call[c].serial
============================================================================
