--------------------------- MODULE SubmissionApi ---------------------------
(***************************************************************************)
(* The submission API (services/submission-api): POST /submit writes a     *)
(* row of the benchmark_jobs table; a pool of worker goroutines claims     *)
(* PENDING rows and takes each through spawn, benchmark, metrics poll,     *)
(* result and teardown.  Nothing but the row's status column links a       *)
(* worker to the submission it runs, and every write of that column is     *)
(* unconditional.                                                          *)
(*                                                                         *)
(* The orchestrator is the session abstraction of VMSessions, driven by    *)
(* the workers' RPCs.  The bot fleet is the RPC that runs a benchmark and  *)
(* publishes one telemetry record; the topic and the ingester are a set of *)
(* records that reach the benchmark_metrics table late, never or twice.    *)
(***************************************************************************)
EXTENDS Naturals, Sequences, FiniteSets

CONSTANTS
    Submissions,   \* submission ids
    Workers,       \* startWorkerPool(2)
    Addresses,     \* addresses the orchestrator may give out
    FaultKinds,    \* the faults that may happen, of AllFaults below
    MaxSubmits,    \* bound: accepted submissions
    MaxRuns,       \* bound: jobs claimed
    MaxRows,       \* bound: rows of benchmark_metrics
    MaxApiCrashes, \* bound: deaths of the API process
    MaxFaults      \* bound: kinds of fault in one behaviour

\* "db": a statement of the API on the database fails; "rpc": a call of the
\* orchestrator fails, or is answered after its client gave up; "crash": the
\* API process dies; "again": the ingester persists a record a second time;
\* "orch": the orchestrator is shut down, killed or panics, and is started
\* again with an empty registry.
AllFaults == {"db", "rpc", "crash", "again", "orch"}

ASSUME SubmissionsAssumption == Submissions # {}
ASSUME FaultsAssumption == FaultKinds \subseteq AllFaults
ASSUME ApiBounds == {MaxSubmits, MaxRuns, MaxRows, MaxApiCrashes, MaxFaults} \subseteq Nat

VARIABLES
    jobs,      \* benchmark_jobs: status, and the run whose figures it shows
    worker,    \* worker[w]: where runBenchmarkSync is
    sessions,  \* the orchestrator's VM sessions
    topic,     \* telemetry published and not yet done with
    metrics,   \* benchmark_metrics: a row's id is its index
    runs,      \* jobs claimed; the n-th is run n
    apiCrashes,
    submits,   \* submissions accepted
    faults     \* the faults that have happened

vars == <<jobs, worker, sessions, topic, metrics, runs, apiCrashes, submits, faults>>

VM == INSTANCE VMSessions WITH VMIDs <- Submissions

NoJob == [status |-> "none", result |-> 0]
Free == [pc |-> "idle", id |-> CHOOSE s \in Submissions : TRUE, run |-> 0, minID |-> 0, row |-> 0,
         clean |-> FALSE]

Init ==
    /\ jobs = [s \in Submissions |-> NoJob]
    /\ worker = [w \in Workers |-> Free]
    /\ VM!SessionsInit
    /\ topic = {}
    /\ metrics = <<>>
    /\ runs = 0
    /\ apiCrashes = 0
    /\ submits = 0
    /\ faults = {}

Fault(k) ==
    /\ k \in FaultKinds
    /\ faults' = faults \cup {k}
    /\ Cardinality(faults') <= MaxFaults

At(w, pc) == worker[w].pc = pc
Goto(w, pc) == worker' = [worker EXCEPT ![w].pc = pc]
Id(w) == worker[w].id

----------------------------------------------------------------------------
(* handleSubmit: the upload is stored, the row is inserted or, if there is *)
(* one, RESET to PENDING whatever its status; the stored file is removed   *)
(* when the handler returns.                                               *)
Submit(s) ==
    /\ submits < MaxSubmits
    /\ submits' = submits + 1
    /\ jobs' = [jobs EXCEPT ![s] = [NoJob EXCEPT !.status = "PENDING"]]
    /\ UNCHANGED <<worker, sessions, topic, metrics, runs, apiCrashes, faults>>

(* processNextJob: one transaction takes a PENDING row that no other       *)
(* transaction has locked and sets it to RUNNING.  The error of its commit *)
(* is not looked at.                                                       *)
Claim(w, s) ==
    /\ At(w, "idle")
    /\ jobs[s].status = "PENDING"
    /\ runs < MaxRuns
    /\ runs' = runs + 1
    /\ \/ jobs' = [jobs EXCEPT ![s].status = "RUNNING"] /\ UNCHANGED faults
       \/ Fault("db") /\ UNCHANGED jobs
    /\ worker' = [worker EXCEPT ![w] = [Free EXCEPT !.pc = "spawn", !.id = s, !.run = runs + 1]]
    /\ UNCHANGED <<sessions, topic, metrics, apiCrashes, submits>>

----------------------------------------------------------------------------
(* runBenchmarkSync, the SpawnVM call *)

\* Mutant of SpawnRefused: "vm already exists" is taken for a VM to use.
UseExistingVM(w) ==
    /\ At(w, "spawn")
    /\ sessions[Id(w)].phase # "none" \/ Addresses \subseteq VM!InUse
    /\ Goto(w, "benchmark")
    /\ UNCHANGED <<jobs, sessions, topic, metrics, runs, apiCrashes, submits, faults>>

SpawnRefused(w) ==
    /\ At(w, "spawn")
    /\ sessions[Id(w)].phase # "none" \/ Addresses \subseteq VM!InUse
    /\ Goto(w, "spawnFailed")
    /\ UNCHANGED <<jobs, sessions, topic, metrics, runs, apiCrashes, submits, faults>>

SpawnVM(w) ==
    /\ At(w, "spawn")
    /\ VM!Reserve(Id(w))
    /\ Goto(w, "spawning")
    /\ UNCHANGED <<jobs, topic, metrics, runs, apiCrashes, submits, faults>>

(* The orchestrator's handlers write and delete the entry of an id         *)
(* whichever it is by then; it is their own unless the orchestrator was    *)
(* restarted under a worker that still benchmarks.                         *)
EntryWritten(s) ==
    \E a \in Addresses :
        /\ sessions[s].phase = "starting" => a = sessions[s].ip
        /\ sessions' = [sessions EXCEPT ![s] = [phase |-> "running", ip |-> a]]

EntryDeleted(s) == sessions' = [sessions EXCEPT ![s] = VM!NoSession]

SpawnReturns(w) ==
    /\ At(w, "spawning")
    /\ \/ EntryWritten(Id(w)) /\ Goto(w, "benchmark")
       \/ EntryDeleted(Id(w)) /\ Goto(w, "spawnFailed")
    /\ UNCHANGED <<jobs, topic, metrics, runs, apiCrashes, submits, faults>>

(* The call does not arrive, or the connection breaks: the call fails here *)
(* and goes on over there.                                                 *)
SpawnLost(w) ==
    /\ worker[w].pc \in {"spawn", "spawning"}
    /\ Fault("rpc")
    /\ Goto(w, "spawnFailed")
    /\ UNCHANGED <<jobs, sessions, topic, metrics, runs, apiCrashes, submits>>

(* A write of the status column.  The error of the statement is logged at most. *)
WriteStatus(s, status, result) ==
    \/ jobs' = [jobs EXCEPT ![s] = [status |-> status, result |-> result]] /\ UNCHANGED faults
    \/ Fault("db") /\ UNCHANGED jobs

\* Mutant of SpawnFailed: the job is not marked.
ReturnUnmarked(w) ==
    /\ At(w, "spawnFailed")
    /\ worker' = [worker EXCEPT ![w] = Free]
    /\ UNCHANGED <<jobs, sessions, topic, metrics, runs, apiCrashes, submits, faults>>

(* No VM, so nothing to tear down. *)
SpawnFailed(w) ==
    /\ At(w, "spawnFailed")
    /\ WriteStatus(Id(w), "FAILED", jobs[Id(w)].result)
    /\ worker' = [worker EXCEPT ![w] = Free]
    /\ UNCHANGED <<sessions, topic, metrics, runs, apiCrashes, submits>>

----------------------------------------------------------------------------
(* Every record of the submission's earlier runs has reached the table. *)
NoneOutstanding(w) == \A t \in topic : t.id = Id(w) => t.run = worker[w].run

(* StartBenchmark: the bot fleet publishes the telemetry before it answers; *)
(* publishing may fail without failing the benchmark.                      *)
Telemetry(w) == [id |-> Id(w), run |-> worker[w].run]

BenchmarkReturns(w) ==
    /\ At(w, "benchmark")
    /\ topic' \in {topic, topic \cup {Telemetry(w)}}
    /\ Goto(w, "baseline")
    /\ UNCHANGED <<jobs, sessions, metrics, runs, apiCrashes, submits, faults>>

BenchmarkFails(w) ==
    /\ At(w, "benchmark")
    /\ topic' \in {topic, topic \cup {Telemetry(w)}}
    /\ Goto(w, "benchFailed")
    /\ UNCHANGED <<jobs, sessions, metrics, runs, apiCrashes, submits, faults>>

\* Mutant of BenchmarkFailed: the teardown was not deferred yet.
FailWithoutTeardown(w) ==
    /\ At(w, "benchFailed")
    /\ WriteStatus(Id(w), "FAILED", jobs[Id(w)].result)
    /\ worker' = [worker EXCEPT ![w] = Free]
    /\ UNCHANGED <<sessions, topic, metrics, runs, apiCrashes, submits>>

BenchmarkFailed(w) ==
    /\ At(w, "benchFailed")
    /\ WriteStatus(Id(w), "FAILED", jobs[Id(w)].result)
    /\ Goto(w, "teardown")
    /\ UNCHANGED <<sessions, topic, metrics, runs, apiCrashes, submits>>

\* Mutant of ReadMinID: the poll starts from the beginning of the table.
NoBaseline(w) ==
    /\ At(w, "baseline")
    /\ worker' = [worker EXCEPT ![w].pc = "poll", ![w].minID = 0, ![w].clean = NoneOutstanding(w)]
    /\ UNCHANGED <<jobs, sessions, topic, metrics, runs, apiCrashes, submits, faults>>

(* The baseline is read AFTER the benchmark; if the query fails it is 0.   *)
(* What worker[w].clean notes is read by ResultIsOwn only.                 *)
ReadMinID(w) ==
    /\ At(w, "baseline")
    /\ \/ /\ worker' = [worker EXCEPT ![w].pc = "poll", ![w].minID = Len(metrics),
                                      ![w].clean = NoneOutstanding(w)]
          /\ UNCHANGED faults
       \/ Fault("db") /\ Goto(w, "poll")
    /\ UNCHANGED <<jobs, sessions, topic, metrics, runs, apiCrashes, submits>>

(* pollBenchmarkMetrics: the newest row of this submission above the       *)
(* baseline, or, after the timeout, the figures of the RPC's response.     *)
NewRows(w) == {k \in (worker[w].minID + 1)..Len(metrics) : metrics[k].id = Id(w)}

PollHit(w) ==
    /\ At(w, "poll")
    /\ \E k \in NewRows(w) :
          /\ \A j \in NewRows(w) : j <= k
          /\ worker' = [worker EXCEPT ![w].pc = "complete", ![w].row = k]
    /\ UNCHANGED <<jobs, sessions, topic, metrics, runs, apiCrashes, submits, faults>>

PollTimeout(w) ==
    /\ At(w, "poll")
    /\ Goto(w, "complete")
    /\ UNCHANGED <<jobs, sessions, topic, metrics, runs, apiCrashes, submits, faults>>

ResultRun(w) == IF worker[w].row = 0 THEN worker[w].run ELSE metrics[worker[w].row].run

Complete(w) ==
    /\ At(w, "complete")
    /\ WriteStatus(Id(w), "COMPLETED", ResultRun(w))
    /\ Goto(w, "teardown")
    /\ UNCHANGED <<sessions, topic, metrics, runs, apiCrashes, submits>>

----------------------------------------------------------------------------
(* The deferred TeardownVM call, whose response is not looked at.  It      *)
(* names only the submission: after a restart of the orchestrator there    *)
(* may be no such VM, or the VM of another worker.                         *)

TeardownVM(w) ==
    /\ At(w, "teardown")
    /\ \/ /\ VM!Stopped(Id(w)) \/ (sessions[Id(w)].phase = "stopping" /\ UNCHANGED sessions)
          /\ Goto(w, "stopping")
          /\ UNCHANGED faults
       \/ /\ Fault("rpc")
          /\ VM!Stopped(Id(w)) \/ UNCHANGED sessions
          /\ worker' = [worker EXCEPT ![w] = Free]
    /\ UNCHANGED <<jobs, topic, metrics, runs, apiCrashes, submits>>

TeardownNotFound(w) ==
    /\ At(w, "teardown")
    /\ sessions[Id(w)].phase = "none"
    /\ worker' = [worker EXCEPT ![w] = Free]
    /\ UNCHANGED <<jobs, sessions, topic, metrics, runs, apiCrashes, submits, faults>>

TeardownReturns(w) ==
    /\ At(w, "stopping")
    /\ EntryDeleted(Id(w))
    /\ worker' = [worker EXCEPT ![w] = Free]
    /\ UNCHANGED <<jobs, topic, metrics, runs, apiCrashes, submits, faults>>

(* The registry is lost, and every call in progress fails: a worker's      *)
(* SpawnVM like any that fails, a TeardownVM, or that of a worker in       *)
(* `ended', without being noticed.                                         *)
RegistryLost(ended) ==
    /\ Fault("orch")
    /\ sessions' = [s \in Submissions |-> VM!NoSession]
    /\ worker' = [v \in Workers |->
          IF At(v, "stopping") \/ v \in ended THEN Free
          ELSE IF At(v, "spawning") THEN [worker[v] EXCEPT !.pc = "spawnFailed"]
          ELSE worker[v]]
    /\ UNCHANGED <<jobs, topic, metrics, runs, apiCrashes, submits>>

(* The VM of this submission is just being spawned, by another worker: the *)
(* nil Machine of its tentative entry makes the orchestrator panic.        *)
TeardownPanics(w) ==
    /\ At(w, "teardown")
    /\ sessions[Id(w)].phase = "starting"
    /\ RegistryLost({w})

----------------------------------------------------------------------------
(* The surroundings *)

(* The ingester inserts a row; the record may be delivered again later. *)
Ingest(t) ==
    /\ t \in topic
    /\ Len(metrics) < MaxRows
    /\ metrics' = Append(metrics, t)
    /\ \/ topic' = topic \ {t} /\ UNCHANGED faults
       \/ Fault("again") /\ UNCHANGED topic
    /\ UNCHANGED <<jobs, worker, sessions, runs, apiCrashes, submits>>

(* The API process dies, or ends on SIGTERM without waiting for its        *)
(* workers, and is started again.                                          *)
ApiCrash ==
    /\ apiCrashes < MaxApiCrashes
    /\ apiCrashes' = apiCrashes + 1
    /\ Fault("crash")
    /\ worker' = [w \in Workers |-> Free]
    /\ UNCHANGED <<jobs, sessions, topic, metrics, runs, submits>>

(* The orchestrator shuts down (GracefulStop, then shutdownAllVMs) or is   *)
(* killed, and starts again with an empty registry.  No worker is told: it *)
(* goes on with a benchmark whose VM is gone, or is nobody's.              *)
OrchestratorRestart == RegistryLost({})

(* An RPC whose client died still ends in the orchestrator. *)
OrphanedRPC(s) ==
    /\ ~\E w \in Workers : Id(w) = s /\ worker[w].pc \in {"spawning", "stopping"}
    /\ sessions[s].phase \in {"starting", "stopping"}
    /\ VM!Started(s) \/ VM!Release(s)
    /\ UNCHANGED <<jobs, worker, topic, metrics, runs, apiCrashes, submits, faults>>

WorkerStep(w) ==
    \/ SpawnRefused(w) \/ SpawnVM(w) \/ SpawnReturns(w) \/ SpawnLost(w) \/ SpawnFailed(w)
    \/ BenchmarkFailed(w) \/ ReadMinID(w) \/ PollHit(w) \/ PollTimeout(w) \/ Complete(w)
    \/ TeardownVM(w) \/ TeardownNotFound(w) \/ TeardownPanics(w) \/ TeardownReturns(w)

Next ==
    \/ \E s \in Submissions : Submit(s) \/ OrphanedRPC(s) \/ \E w \in Workers : Claim(w, s)
    \/ \E w \in Workers : WorkerStep(w) \/ BenchmarkReturns(w) \/ BenchmarkFails(w)
    \/ \E t \in topic : Ingest(t)
    \/ ApiCrash \/ OrchestratorRestart

Spec == Init /\ [][Next]_vars

(* A worker looks for a job every second, and the poll has a timeout.      *)
(* TeardownVM sends a signal, runs a command with a timeout and removes a  *)
(* file.  Nothing bounds SpawnVM, which runs umount without a timeout, nor *)
(* StartBenchmark, for the bot fleet retries its connection for ever; the  *)
(* API sets no deadline, so no fairness is assumed of their return.        *)
Fairness ==
    \A w \in Workers :
        WF_vars((~At(w, "spawning") /\ WorkerStep(w)) \/ \E s \in Submissions : Claim(w, s))
FairSpec == Spec /\ Fairness

----------------------------------------------------------------------------
(* Properties *)

(* Type correctness of the job table, the workers and the metrics. *)
TypeOK ==
    /\ jobs \in [Submissions -> [status: {"none", "PENDING", "RUNNING", "COMPLETED", "FAILED"},
                                 result: 0..MaxRuns]]
    /\ worker \in [Workers -> [pc: {"idle", "spawn", "spawning", "spawnFailed", "benchmark",
                                    "benchFailed", "baseline", "poll", "complete", "teardown",
                                    "stopping"},
                               id: Submissions, run: 0..MaxRuns, minID: 0..MaxRows, row: 0..MaxRows,
                               clean: BOOLEAN]]
    /\ sessions \in [Submissions -> [phase: VM!Phases, ip: Addresses \cup {0}]]
    /\ metrics \in Seq([id: Submissions, run: 1..MaxRuns]) /\ Len(metrics) <= MaxRows
    /\ topic \subseteq [id: Submissions, run: 1..MaxRuns]
    /\ faults \subseteq FaultKinds

HoldsVM(w) == worker[w].pc \in {"benchmark", "benchFailed", "baseline", "poll", "complete", "teardown"}

Had(kinds) == faults \cap kinds # {}

(* Two workers never benchmark the same submission at once, though a       *)
(* resubmission lets both of them claim it, and the VM a worker uses is    *)
(* running until that worker tears it down.  Only the orchestrator's       *)
(* registry sees to that: it ends when the registry is lost.               *)
OneBenchmarkPerSubmission ==
    Had({"orch"}) \/ \A w \in Workers : HoldsVM(w) =>
        /\ sessions[Id(w)].phase = "running"
        /\ \A v \in Workers \ {w} : HoldsVM(v) => Id(v) # Id(w)

(* Until a statement fails or the process dies, a row says RUNNING only    *)
(* while some worker has that job in hand.                                 *)
RunningHasWorker ==
    Had({"db", "crash"}) \/ \A s \in Submissions : jobs[s].status = "RUNNING" =>
        \E w \in Workers : Id(w) = s /\ worker[w].pc \notin {"idle", "teardown", "stopping"}

(* Until a call of the orchestrator fails or the process dies, every       *)
(* session belongs to a worker: no VM in the registry is left behind,      *)
(* whatever becomes of the database, restarts of the orchestrator included *)
(* (what of its VMs outlives it is in SandboxOrchestrator).                *)
NoAbandonedVM ==
    Had({"rpc", "crash"}) \/ \A s \in Submissions : sessions[s].phase # "none" =>
        \E w \in Workers : Id(w) = s /\ (HoldsVM(w) \/ worker[w].pc \in {"spawning", "stopping"})

(* Rows and VMs have the workers they need. *)
JobsConsistent == TypeOK /\ RunningHasWorker /\ NoAbandonedVM

(* The figures a worker is about to write are those of its own benchmark,  *)
(* if the records of the submission's earlier runs were in the table when  *)
(* the baseline was read: the other worker cannot benchmark the same       *)
(* submission during the poll and add one, while the orchestrator keeps    *)
(* its registry.                                                           *)
ResultIsOwn ==
    Had({"orch"}) \/ \A w \in Workers : At(w, "complete") /\ worker[w].clean => ResultRun(w) = worker[w].run

CallsReturn == \A w \in Workers : []<>(worker[w].pc \notin {"spawning", "benchmark"})

(* If no SpawnVM and no StartBenchmark call hangs, a submitted job ends    *)
(* COMPLETED or FAILED, resubmissions, refused spawns and broken calls     *)
(* included, unless a statement fails or the process dies.                 *)
JobsEnd ==
    CallsReturn => \A s \in Submissions :
        jobs[s].status = "PENDING" ~> jobs[s].status \in {"COMPLETED", "FAILED"} \/ Had({"db", "crash"})

(* If no SpawnVM and no StartBenchmark call hangs, the session of a VM     *)
(* that was started ends, unless a call of the orchestrator fails or the   *)
(* process dies.                                                           *)
SessionsEnd ==
    CallsReturn => \A s \in Submissions :
        sessions[s].phase = "running" ~> sessions[s].phase = "none" \/ Had({"rpc", "crash"})

(* ARCHITECTURE.md, failure table, worker pool starvation: data lost is    *)
(* "None - jobs accumulate in PENDING", "processed when workers free up".  *)
(* A PENDING job stops being PENDING only because a worker claims it.      *)
PendingOnlyClaimed ==
    [][\A s \in Submissions : jobs[s].status = "PENDING" =>
            jobs'[s].status \in {"PENDING", "RUNNING"}]_vars

============================================================================
