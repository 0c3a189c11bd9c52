------------------------ MODULE SubmissionApiProofs ------------------------
(***************************************************************************)
(* Proofs about SubmissionApi, for any submissions, any number of workers  *)
(* and addresses, and any of the faults AllFaults names.                   *)
(***************************************************************************)
EXTENDS SubmissionApi, SequenceTheorems, TLAPS

----------------------------------------------------------------------------
(* The inductive invariant                                                 *)

Pcs == {"idle", "spawn", "spawning", "spawnFailed", "benchmark", "benchFailed", "baseline", "poll",
        "complete", "teardown", "stopping"}
WorkerRec == [pc: Pcs, id: Submissions, run: 0..MaxRuns, minID: 0..MaxRows, row: 0..MaxRows,
              clean: BOOLEAN]
JobRec == [status: {"none", "PENDING", "RUNNING", "COMPLETED", "FAILED"}, result: 0..MaxRuns]
Record == [id: Submissions, run: 1..MaxRuns]

(* Types, with what makes a worker's result one: a busy worker has a run,  *)
(* and the row it found is in the table.                                   *)
TypeInv ==
    /\ TypeOK
    /\ runs \in 0..MaxRuns
    /\ \A w \in Workers :
          /\ ~At(w, "idle") => worker[w].run # 0
          /\ worker[w].row <= Len(metrics)

(* A worker between the SpawnVM call and the end of TeardownVM. *)
UsesSession(w) == HoldsVM(w) \/ At(w, "spawning") \/ At(w, "stopping")

(* While the orchestrator keeps its registry, the session of such a worker *)
(* is in the phase the worker takes it to be in, and no other such worker  *)
(* has the same submission.                                                *)
SessionInv ==
    ~Had({"orch"}) => \A w \in Workers :
        /\ HoldsVM(w) => sessions[Id(w)].phase = "running"
        /\ At(w, "spawning") => sessions[Id(w)].phase = "starting"
        /\ At(w, "stopping") => sessions[Id(w)].phase = "stopping"
        /\ UsesSession(w) => \A v \in Workers \ {w} : UsesSession(v) => Id(v) # Id(w)

(* During a poll with a clean baseline only the worker's own record can    *)
(* reach the table above that baseline.                                    *)
PollInv ==
    \A w \in Workers :
        /\ worker[w].pc \in {"spawn", "spawning", "benchmark", "baseline"} => ~worker[w].clean
        /\ worker[w].pc \in {"spawn", "spawning", "benchmark", "baseline", "poll"} => worker[w].row = 0
        /\ ~Had({"orch"}) /\ At(w, "poll") /\ worker[w].clean =>
              /\ NoneOutstanding(w)
              /\ \A k \in NewRows(w) : metrics[k].run = worker[w].run
        /\ ~Had({"orch"}) /\ At(w, "complete") /\ worker[w].clean => ResultRun(w) = worker[w].run

(* Until a call fails or the process dies, a session has a worker in the   *)
(* same phase: the one that will take it to the next.  A restart of the    *)
(* orchestrator takes sessions from workers, never the reverse.            *)
Owned ==
    ~Had({"rpc", "crash"}) => \A s \in Submissions :
        /\ sessions[s].phase = "starting" => \E w \in Workers : Id(w) = s /\ At(w, "spawning")
        /\ sessions[s].phase = "running" => \E w \in Workers : Id(w) = s /\ HoldsVM(w)
        /\ sessions[s].phase = "stopping" => \E w \in Workers : Id(w) = s /\ At(w, "stopping")

Inv == TypeInv /\ SessionInv /\ PollInv /\ RunningHasWorker /\ Owned

----------------------------------------------------------------------------
(* What a step does to the workers                                         *)

(* Some worker goes on: nothing of it but its place in the code changes. *)
LEMMA GotoShape ==
    ASSUME TypeOK, NEW w \in Workers, NEW pc \in Pcs, Goto(w, pc)
    PROVE  /\ worker' \in [Workers -> WorkerRec]
           /\ \A v \in Workers :
                 /\ worker'[v].pc = IF v = w THEN pc ELSE worker[v].pc
                 /\ worker'[v].id = worker[v].id /\ worker'[v].run = worker[v].run
                 /\ worker'[v].minID = worker[v].minID /\ worker'[v].row = worker[v].row
                 /\ worker'[v].clean = worker[v].clean
<1>1. worker \in [Workers -> WorkerRec]
  BY DEF TypeOK, WorkerRec, Pcs
<1>2. worker' = [worker EXCEPT ![w] = [worker[w] EXCEPT !.pc = pc]]
  BY DEF Goto
<1>3. [worker[w] EXCEPT !.pc = pc] \in WorkerRec
  BY <1>1 DEF WorkerRec
<1> QED BY <1>1, <1>2, <1>3 DEF WorkerRec

(* Some worker returns, and is free for the next job. *)
LEMMA FreeType == Free \in WorkerRec /\ Free.pc = "idle"
<1>1. (CHOOSE s \in Submissions : TRUE) \in Submissions
  BY SubmissionsAssumption
<1> QED BY <1>1, ApiBounds DEF Free, WorkerRec, Pcs

(* No other worker changes. *)
LEMMA FreeShape ==
    ASSUME TypeOK, NEW w \in Workers, worker' = [worker EXCEPT ![w] = Free]
    PROVE  /\ worker' \in [Workers -> WorkerRec]
           /\ worker'[w] = Free
           /\ \A v \in Workers \ {w} : worker'[v] = worker[v]
<1>1. worker \in [Workers -> WorkerRec]
  BY DEF TypeOK, WorkerRec, Pcs
<1> QED BY <1>1, FreeType

(* TypeOK by parts. *)
LEMMA TypeParts ==
    TypeOK <=> /\ jobs \in [Submissions -> JobRec]
               /\ worker \in [Workers -> WorkerRec]
               /\ sessions \in [Submissions -> [phase: VM!Phases, ip: Addresses \cup {0}]]
               /\ metrics \in Seq(Record) /\ Len(metrics) <= MaxRows
               /\ topic \subseteq Record
               /\ faults \subseteq FaultKinds
BY DEF TypeOK, JobRec, WorkerRec, Record, Pcs

(* A fault that happens is remembered. *)
LEMMA FaultsKept ==
    ASSUME NEW k, Fault(k)
    PROVE  k \in faults' /\ faults \subseteq faults' /\ (faults \subseteq FaultKinds => faults' \subseteq FaultKinds)
BY DEF Fault

(* Writing the status column. *)
LEMMA WriteStatusShape ==
    ASSUME TypeOK, NEW s \in Submissions, NEW result \in 0..MaxRuns,
           NEW status \in {"COMPLETED", "FAILED"}, WriteStatus(s, status, result)
    PROVE  /\ jobs' \in [Submissions -> JobRec]
           /\ faults \subseteq faults' /\ faults' \subseteq FaultKinds
           /\ \A t \in Submissions \ {s} : jobs'[t] = jobs[t]
           /\ "db" \in faults' \/ jobs'[s].status # "RUNNING"
<1>1. jobs \in [Submissions -> JobRec] /\ faults \subseteq FaultKinds
  BY TypeParts
<1>2. CASE jobs' = [jobs EXCEPT ![s] = [status |-> status, result |-> result]] /\ UNCHANGED faults
  <2>1. [status |-> status, result |-> result] \in JobRec
    BY DEF JobRec
  <2> QED BY <1>1, <1>2, <2>1
<1>3. CASE Fault("db") /\ UNCHANGED jobs
  BY <1>1, <1>3, FaultsKept
<1> QED BY <1>2, <1>3 DEF WriteStatus

(* The orchestrator's side of a call changes one session. *)
SessionGoes(s, phase) ==
    /\ sessions' \in [Submissions -> [phase: VM!Phases, ip: Addresses \cup {0}]]
    /\ \A t \in Submissions \ {s} : sessions'[t] = sessions[t]
    /\ sessions'[s].phase = phase

(* Each step of the orchestrator is such a change. *)
LEMMA SessionShape ==
    ASSUME TypeOK, NEW s \in Submissions
    PROVE  /\ VM!Reserve(s) => sessions[s].phase = "none" /\ SessionGoes(s, "starting")
           /\ VM!Started(s) => sessions[s].phase = "starting" /\ SessionGoes(s, "running")
           /\ VM!Stopped(s) => sessions[s].phase = "running" /\ SessionGoes(s, "stopping")
           /\ VM!Release(s) => sessions[s].phase \in {"starting", "stopping"} /\ SessionGoes(s, "none")
           /\ EntryWritten(s) => SessionGoes(s, "running")
           /\ EntryDeleted(s) => SessionGoes(s, "none")
<1>1. sessions \in [Submissions -> [phase: VM!Phases, ip: Addresses \cup {0}]]
  BY TypeParts
<1>2. ASSUME VM!Reserve(s) PROVE sessions[s].phase = "none" /\ SessionGoes(s, "starting")
  <2>1. PICK a \in Addresses : sessions' = [sessions EXCEPT ![s] = [phase |-> "starting", ip |-> a]]
    BY <1>2 DEF VM!Reserve
  <2> QED BY <1>1, <1>2, <2>1 DEF VM!Phases, VM!Reserve, SessionGoes
<1>3. ASSUME VM!Started(s) PROVE sessions[s].phase = "starting" /\ SessionGoes(s, "running")
  <2>1. sessions' = [sessions EXCEPT ![s] = [sessions[s] EXCEPT !.phase = "running"]]
    BY <1>3 DEF VM!Started, VM!Move
  <2> QED BY <1>1, <1>3, <2>1 DEF VM!Phases, VM!Started, VM!Move, SessionGoes
<1>4. ASSUME VM!Stopped(s) PROVE sessions[s].phase = "running" /\ SessionGoes(s, "stopping")
  <2>1. sessions' = [sessions EXCEPT ![s] = [sessions[s] EXCEPT !.phase = "stopping"]]
    BY <1>4 DEF VM!Stopped, VM!Move
  <2> QED BY <1>1, <1>4, <2>1 DEF VM!Phases, VM!Stopped, VM!Move, SessionGoes
<1>5. ASSUME VM!Release(s)
      PROVE  sessions[s].phase \in {"starting", "stopping"} /\ SessionGoes(s, "none")
  <2>1. sessions' = [sessions EXCEPT ![s] = [phase |-> "none", ip |-> 0]]
    BY <1>5 DEF VM!Release, VM!NoSession
  <2> QED BY <1>1, <1>5, <2>1 DEF VM!Phases, VM!Release, SessionGoes
<1>6. ASSUME EntryWritten(s) PROVE SessionGoes(s, "running")
  <2>1. PICK a \in Addresses : sessions' = [sessions EXCEPT ![s] = [phase |-> "running", ip |-> a]]
    BY <1>6 DEF EntryWritten
  <2> QED BY <1>1, <2>1 DEF VM!Phases, SessionGoes
<1>7. ASSUME EntryDeleted(s) PROVE SessionGoes(s, "none")
  BY <1>1, <1>7 DEF EntryDeleted, VM!NoSession, VM!Phases, SessionGoes
<1> QED BY <1>2, <1>3, <1>4, <1>5, <1>6, <1>7

----------------------------------------------------------------------------
(* One lemma per action                                                    *)

(* The parts of the invariant speak of workers through these operators. *)
USE DEF At, Id, HoldsVM, UsesSession, Had

(* A submission is queued; no worker has it yet. *)
LEMMA SubmitStep ==
    ASSUME Inv, NEW s \in Submissions, Submit(s)
    PROVE  Inv'
<1> USE DEF Inv
<1>1. /\ UNCHANGED <<worker, sessions, topic, metrics, runs, faults>>
      /\ jobs' = [jobs EXCEPT ![s] = [NoJob EXCEPT !.status = "PENDING"]]
  BY DEF Submit
<1>2. jobs \in [Submissions -> JobRec]
  BY TypeParts DEF TypeInv
<1>3. [NoJob EXCEPT !.status = "PENDING"] \in JobRec /\ [NoJob EXCEPT !.status = "PENDING"].status = "PENDING"
  BY ApiBounds DEF NoJob, JobRec
<1>4. jobs' \in [Submissions -> JobRec] /\ \A t \in Submissions : jobs'[t].status = "RUNNING" => jobs[t].status = "RUNNING"
  BY <1>1, <1>2, <1>3
<1>5. TypeInv'
  <2>1. TypeOK'
    BY <1>1, <1>4 DEF TypeOK, TypeInv, JobRec
  <2> QED BY <1>1, <2>1 DEF TypeInv
<1>6. SessionInv'
  BY <1>1 DEF SessionInv
<1>7. PollInv'
  BY <1>1 DEF PollInv, NoneOutstanding, NewRows, ResultRun
<1>8. RunningHasWorker'
  BY <1>1, <1>4 DEF RunningHasWorker
<1>9. Owned'
  BY <1>1 DEF Owned
<1> QED BY <1>5, <1>6, <1>7, <1>8, <1>9

(* A row that is claimed was PENDING: no worker has it. *)
LEMMA ClaimStep ==
    ASSUME Inv, NEW w \in Workers, NEW s \in Submissions, Claim(w, s)
    PROVE  Inv'
<1> USE DEF Inv
<1> DEFINE job == [Free EXCEPT !.pc = "spawn", !.id = s, !.run = runs + 1]
<1>1. /\ UNCHANGED <<sessions, topic, metrics>>
      /\ worker' = [worker EXCEPT ![w] = job]
      /\ runs' = runs + 1 /\ runs < MaxRuns /\ At(w, "idle")
  BY DEF Claim
<1>2. /\ jobs \in [Submissions -> JobRec] /\ worker \in [Workers -> WorkerRec]
      /\ faults \subseteq FaultKinds /\ runs \in 0..MaxRuns
  BY TypeParts DEF TypeInv
<1>3. /\ jobs' \in [Submissions -> JobRec]
      /\ faults \subseteq faults' /\ faults' \subseteq FaultKinds
      /\ \A t \in Submissions \ {s} : jobs'[t] = jobs[t]
  <2>1. CASE jobs' = [jobs EXCEPT ![s].status = "RUNNING"] /\ UNCHANGED faults
    <3>1. [jobs[s] EXCEPT !.status = "RUNNING"] \in JobRec
      BY <1>2 DEF JobRec
    <3> QED BY <1>2, <2>1, <3>1
  <2>2. CASE Fault("db") /\ UNCHANGED jobs
    BY <1>2, <2>2, FaultsKept
  <2> QED BY <2>1, <2>2 DEF Claim
<1>4. /\ job \in WorkerRec /\ runs + 1 \in 1..MaxRuns
      /\ job.pc = "spawn" /\ job.id = s /\ job.run = runs + 1 /\ job.row = 0 /\ job.clean = FALSE
  <2>1. Free \in WorkerRec /\ Free.row = 0 /\ Free.clean = FALSE
    BY FreeType DEF Free
  <2>2. runs + 1 \in 1..MaxRuns
    BY <1>1, <1>2, ApiBounds
  <2>3. runs + 1 \in 0..MaxRuns /\ "spawn" \in Pcs
    BY <2>2 DEF Pcs
  <2>4. job \in WorkerRec
    BY <2>1, <2>3 DEF WorkerRec
  <2> QED BY <2>1, <2>2, <2>4 DEF WorkerRec
<1> HIDE DEF job
<1>5. /\ worker' \in [Workers -> WorkerRec] /\ worker'[w] = job
      /\ \A v \in Workers \ {w} : worker'[v] = worker[v]
  BY <1>1, <1>2, <1>4
<1>6. TypeInv'
  <2>1. TypeOK'
    BY <1>1, <1>3, <1>5, TypeParts DEF TypeInv, TypeOK, JobRec, WorkerRec, Pcs
  <2>2. Len(metrics) \in Nat
    BY LenProperties, TypeParts DEF TypeInv
  <2>3. runs' \in 0..MaxRuns
    BY <1>1, <1>4
  <2>4. ASSUME NEW v \in Workers
        PROVE  (~At(v, "idle") => worker[v].run # 0)' /\ (worker[v].row <= Len(metrics))'
    BY <1>1, <1>4, <1>5, <2>2 DEF TypeInv
  <2> QED BY <2>1, <2>3, <2>4 DEF TypeInv
<1>7. SessionInv'
  BY <1>1, <1>3, <1>4, <1>5 DEF SessionInv
<1>8. PollInv'
  BY <1>1, <1>3, <1>4, <1>5 DEF PollInv, NoneOutstanding, NewRows, ResultRun
<1>9. RunningHasWorker'
  BY <1>1, <1>3, <1>4, <1>5 DEF RunningHasWorker
<1>10. Owned'
  BY <1>1, <1>3, <1>4, <1>5 DEF Owned
<1> QED BY <1>6, <1>7, <1>8, <1>9, <1>10

(* The call fails, and no session is the worker's. *)
LEMMA SpawnRefusedStep ==
    ASSUME Inv, NEW w \in Workers, SpawnRefused(w)
    PROVE  Inv'
<1> USE DEF Inv
<1>1. UNCHANGED <<jobs, sessions, topic, metrics, runs, faults>> /\ At(w, "spawn")
  BY DEF SpawnRefused
<1>2. /\ worker' \in [Workers -> WorkerRec]
      /\ \A v \in Workers :
            /\ worker'[v].pc = IF v = w THEN "spawnFailed" ELSE worker[v].pc
            /\ worker'[v].id = worker[v].id /\ worker'[v].run = worker[v].run
            /\ worker'[v].minID = worker[v].minID /\ worker'[v].row = worker[v].row
            /\ worker'[v].clean = worker[v].clean
  BY GotoShape DEF SpawnRefused, TypeInv, Pcs
<1>3. TypeInv'
  <2>1. TypeOK'
    BY <1>1, <1>2, TypeParts DEF TypeInv, TypeOK, JobRec, WorkerRec, Record, Pcs
  <2> QED BY <1>1, <1>2, <2>1 DEF TypeInv
<1>4. SessionInv'
  BY <1>1, <1>2 DEF SessionInv
<1>5. PollInv'
  BY <1>1, <1>2 DEF PollInv, NoneOutstanding, NewRows, ResultRun
<1>6. RunningHasWorker'
  BY <1>1, <1>2 DEF RunningHasWorker
<1>7. Owned'
  BY <1>1, <1>2 DEF Owned
<1> QED BY <1>3, <1>4, <1>5, <1>6, <1>7

(* The answer is lost; the session is no worker's any more. *)
LEMMA SpawnLostStep ==
    ASSUME Inv, NEW w \in Workers, SpawnLost(w)
    PROVE  Inv'
<1> USE DEF Inv
<1>1. /\ UNCHANGED <<jobs, sessions, topic, metrics, runs>>
      /\ worker[w].pc \in {"spawn", "spawning"} /\ Fault("rpc")
  BY DEF SpawnLost
<1>2. "rpc" \in faults' /\ faults \subseteq faults' /\ faults' \subseteq FaultKinds
  BY <1>1, FaultsKept, TypeParts DEF TypeInv
<1>3. /\ worker' \in [Workers -> WorkerRec]
      /\ \A v \in Workers :
            /\ worker'[v].pc = IF v = w THEN "spawnFailed" ELSE worker[v].pc
            /\ worker'[v].id = worker[v].id /\ worker'[v].run = worker[v].run
            /\ worker'[v].minID = worker[v].minID /\ worker'[v].row = worker[v].row
            /\ worker'[v].clean = worker[v].clean
  BY GotoShape DEF SpawnLost, TypeInv, Pcs
<1>4. TypeInv'
  <2>1. TypeOK'
    BY <1>1, <1>2, <1>3, TypeParts DEF TypeInv, TypeOK, JobRec, WorkerRec, Record, Pcs
  <2> QED BY <1>1, <1>2, <1>3, <2>1 DEF TypeInv
<1>5. SessionInv'
  BY <1>1, <1>2, <1>3 DEF SessionInv
<1>6. PollInv'
  BY <1>1, <1>2, <1>3 DEF PollInv, NoneOutstanding, NewRows, ResultRun
<1>7. RunningHasWorker'
  BY <1>1, <1>2, <1>3 DEF RunningHasWorker
<1>8. Owned'
  BY <1>1, <1>2, <1>3 DEF Owned
<1> QED BY <1>4, <1>5, <1>6, <1>7, <1>8

(* A session is begun only where there is none: no other worker uses it. *)
LEMMA SpawnVMStep ==
    ASSUME Inv, NEW w \in Workers, SpawnVM(w)
    PROVE  Inv'
<1> USE DEF Inv
<1>1. UNCHANGED <<jobs, topic, metrics, runs, faults>> /\ At(w, "spawn") /\ Id(w) \in Submissions
  BY TypeParts DEF SpawnVM, TypeInv, WorkerRec
<1>2. sessions[Id(w)].phase = "none" /\ SessionGoes(Id(w), "starting")
  BY <1>1, SessionShape DEF SpawnVM, TypeInv
<1>3. /\ worker' \in [Workers -> WorkerRec]
      /\ \A v \in Workers :
            /\ worker'[v].pc = IF v = w THEN "spawning" ELSE worker[v].pc
            /\ worker'[v].id = worker[v].id /\ worker'[v].run = worker[v].run
            /\ worker'[v].minID = worker[v].minID /\ worker'[v].row = worker[v].row
            /\ worker'[v].clean = worker[v].clean
  BY GotoShape DEF SpawnVM, TypeInv, Pcs
<1>4. \A v \in Workers : Id(v) \in Submissions
  BY TypeParts DEF TypeInv, SessionGoes, WorkerRec
<1>5. TypeInv'
  <2>1. TypeOK'
    BY <1>1, <1>2, <1>3, <1>4, TypeParts DEF TypeInv, SessionGoes, TypeOK, JobRec, WorkerRec, Record, Pcs
  <2> QED BY <1>1, <1>2, <1>3, <1>4, <2>1 DEF TypeInv, SessionGoes
<1>6. SessionInv'
  BY <1>1, <1>2, <1>3, <1>4 DEF SessionInv, SessionGoes
<1>7. PollInv'
  BY <1>1, <1>2, <1>3, <1>4 DEF PollInv, NoneOutstanding, NewRows, ResultRun
<1>8. RunningHasWorker'
  BY <1>1, <1>2, <1>3, <1>4 DEF RunningHasWorker
<1>9. Owned'
  BY <1>1, <1>2, <1>3, <1>4 DEF Owned, SessionGoes
<1> QED BY <1>5, <1>6, <1>7, <1>8, <1>9

(* The VM runs, and is the worker's. *)
LEMMA SpawnReturnsStep ==
    ASSUME Inv, NEW w \in Workers, SpawnReturns(w)
    PROVE  Inv'
<1> USE DEF Inv
<1>1. UNCHANGED <<jobs, topic, metrics, runs, faults>> /\ At(w, "spawning") /\ Id(w) \in Submissions
  BY TypeParts DEF SpawnReturns, TypeInv, WorkerRec
<1>2. \/ SessionGoes(Id(w), "running") /\ Goto(w, "benchmark")
      \/ SessionGoes(Id(w), "none") /\ Goto(w, "spawnFailed")
  BY <1>1, SessionShape DEF SpawnReturns, TypeInv
<1>3. /\ worker' \in [Workers -> WorkerRec]
      /\ \/ worker'[w].pc = "benchmark" /\ SessionGoes(Id(w), "running")
         \/ worker'[w].pc = "spawnFailed" /\ SessionGoes(Id(w), "none")
      /\ \A v \in Workers :
            /\ v # w => worker'[v].pc = worker[v].pc
            /\ worker'[v].id = worker[v].id /\ worker'[v].run = worker[v].run
            /\ worker'[v].minID = worker[v].minID /\ worker'[v].row = worker[v].row
            /\ worker'[v].clean = worker[v].clean
  BY <1>2, GotoShape DEF TypeInv, SessionGoes, Pcs
<1>4. \A v \in Workers : Id(v) \in Submissions
  BY TypeParts DEF TypeInv, SessionGoes, WorkerRec
<1>5. TypeInv'
  <2>1. TypeOK'
    BY <1>1, <1>2, <1>3, <1>4, TypeParts DEF TypeInv, SessionGoes, TypeOK, JobRec, WorkerRec, Record, Pcs
  <2> QED BY <1>1, <1>2, <1>3, <1>4, <2>1 DEF TypeInv, SessionGoes
<1>6. SessionInv'
  <2> SUFFICES ASSUME ~Had({"orch"}), NEW u \in Workers
               PROVE  /\ HoldsVM(u)' => sessions'[Id(u)'].phase = "running"
                      /\ At(u, "spawning")' => sessions'[Id(u)'].phase = "starting"
                      /\ At(u, "stopping")' => sessions'[Id(u)'].phase = "stopping"
                      /\ UsesSession(u)' => \A v \in Workers \ {u} : UsesSession(v)' => Id(v)' # Id(u)'
    BY <1>1 DEF SessionInv, Had
  <2>1. UsesSession(w) /\ \A v \in Workers \ {w} : UsesSession(v) => Id(v) # Id(w)
    BY <1>1 DEF SessionInv, UsesSession, At
  <2>2. \A v \in Workers \ {w} : (UsesSession(v)' <=> UsesSession(v)) /\ Id(v)' = Id(v)
    BY <1>3 DEF UsesSession, HoldsVM, At, Id
  <2>3. CASE u = w
    BY <1>1, <1>3, <1>4, <2>1, <2>2, <2>3 DEF SessionGoes, HoldsVM, At, Id
  <2>4. CASE u # w
    <3>1. UsesSession(u) => Id(u) # Id(w) /\ sessions'[Id(u)'] = sessions[Id(u)]
      BY <1>3, <1>4, <2>1, <2>2, <2>4 DEF SessionGoes, Id
    <3>2. /\ HoldsVM(u)' => sessions'[Id(u)'].phase = "running"
          /\ At(u, "spawning")' => sessions'[Id(u)'].phase = "starting"
          /\ At(u, "stopping")' => sessions'[Id(u)'].phase = "stopping"
      BY <1>3, <3>1, <2>4 DEF SessionInv, UsesSession, HoldsVM, At
    <3>3. UsesSession(u)' => \A v \in Workers \ {u} : UsesSession(v)' => Id(v)' # Id(u)'
      BY <1>3, <2>1, <2>2, <2>4 DEF SessionInv, Id
    <3> QED BY <3>2, <3>3
  <2> QED BY <2>3, <2>4
<1>7. PollInv'
  BY <1>1, <1>2, <1>3, <1>4 DEF PollInv, NoneOutstanding, NewRows, ResultRun
<1>8. RunningHasWorker'
  BY <1>1, <1>2, <1>3, <1>4 DEF RunningHasWorker
<1>9. Owned'
  BY <1>1, <1>2, <1>3, <1>4 DEF Owned, SessionGoes
<1> QED BY <1>5, <1>6, <1>7, <1>8, <1>9

(* The row leaves RUNNING before its worker does. *)
LEMMA SpawnFailedStep ==
    ASSUME Inv, NEW w \in Workers, SpawnFailed(w)
    PROVE  Inv'
<1> USE DEF Inv
<1>1. UNCHANGED <<sessions, topic, metrics, runs>> /\ At(w, "spawnFailed")
  BY DEF SpawnFailed
<1>2. ASSUME NEW v \in Workers PROVE Id(v) \in Submissions /\ jobs[Id(v)].result \in 0..MaxRuns
  BY TypeParts DEF TypeInv, WorkerRec, JobRec
<1>3. /\ jobs' \in [Submissions -> JobRec]
      /\ faults \subseteq faults' /\ faults' \subseteq FaultKinds
      /\ \A t \in Submissions \ {Id(w)} : jobs'[t] = jobs[t]
      /\ "db" \in faults' \/ jobs'[Id(w)].status # "RUNNING"
  BY <1>2, WriteStatusShape DEF SpawnFailed, TypeInv
<1>4. /\ worker' \in [Workers -> WorkerRec]
      /\ worker'[w] = Free /\ Free.pc = "idle" /\ Free.row = 0 /\ Free.clean = FALSE
      /\ \A v \in Workers \ {w} : worker'[v] = worker[v]
  BY FreeShape, FreeType DEF SpawnFailed, TypeInv, Free
<1>5. Len(metrics) \in Nat
  BY LenProperties, TypeParts DEF TypeInv
<1>6. TypeInv'
  <2>1. TypeOK'
    BY <1>1, <1>2, <1>3, <1>4, <1>5, TypeParts DEF TypeInv, TypeOK, JobRec, WorkerRec, Record, Pcs
  <2> QED BY <1>1, <1>2, <1>3, <1>4, <1>5, <2>1 DEF TypeInv
<1>7. SessionInv'
  BY <1>1, <1>2, <1>3, <1>4, <1>5 DEF SessionInv
<1>8. PollInv'
  BY <1>1, <1>2, <1>3, <1>4, <1>5 DEF PollInv, NoneOutstanding, NewRows, ResultRun
<1>9. RunningHasWorker'
  BY <1>1, <1>2, <1>3, <1>4, <1>5 DEF RunningHasWorker
<1>10. Owned'
  BY <1>1, <1>2, <1>3, <1>4, <1>5 DEF Owned
<1> QED BY <1>6, <1>7, <1>8, <1>9, <1>10

(* The row leaves RUNNING; the worker still has its VM. *)
LEMMA BenchmarkFailedStep ==
    ASSUME Inv, NEW w \in Workers, BenchmarkFailed(w)
    PROVE  Inv'
<1> USE DEF Inv
<1>1. UNCHANGED <<sessions, topic, metrics, runs>> /\ At(w, "benchFailed")
  BY DEF BenchmarkFailed
<1>2. ASSUME NEW v \in Workers PROVE Id(v) \in Submissions /\ jobs[Id(v)].result \in 0..MaxRuns
  BY TypeParts DEF TypeInv, WorkerRec, JobRec
<1>3. /\ jobs' \in [Submissions -> JobRec]
      /\ faults \subseteq faults' /\ faults' \subseteq FaultKinds
      /\ \A t \in Submissions \ {Id(w)} : jobs'[t] = jobs[t]
      /\ "db" \in faults' \/ jobs'[Id(w)].status # "RUNNING"
  BY <1>2, WriteStatusShape DEF BenchmarkFailed, TypeInv
<1>4. /\ worker' \in [Workers -> WorkerRec]
      /\ \A v \in Workers :
            /\ worker'[v].pc = IF v = w THEN "teardown" ELSE worker[v].pc
            /\ worker'[v].id = worker[v].id /\ worker'[v].run = worker[v].run
            /\ worker'[v].minID = worker[v].minID /\ worker'[v].row = worker[v].row
            /\ worker'[v].clean = worker[v].clean
  BY GotoShape DEF BenchmarkFailed, TypeInv, Pcs
<1>5. TypeInv'
  <2>1. TypeOK'
    BY <1>1, <1>2, <1>3, <1>4, TypeParts DEF TypeInv, TypeOK, JobRec, WorkerRec, Record, Pcs
  <2> QED BY <1>1, <1>2, <1>3, <1>4, <2>1 DEF TypeInv
<1>6. SessionInv'
  BY <1>1, <1>2, <1>3, <1>4 DEF SessionInv
<1>7. PollInv'
  BY <1>1, <1>2, <1>3, <1>4 DEF PollInv, NoneOutstanding, NewRows, ResultRun
<1>8. RunningHasWorker'
  BY <1>1, <1>2, <1>3, <1>4 DEF RunningHasWorker
<1>9. Owned'
  BY <1>1, <1>2, <1>3, <1>4 DEF Owned
<1> QED BY <1>5, <1>6, <1>7, <1>8, <1>9

(* A record is published for a submission that no other worker is polling. *)
LEMMA BenchmarkReturnsStep ==
    ASSUME Inv, NEW w \in Workers, BenchmarkReturns(w)
    PROVE  Inv'
<1> USE DEF Inv
<1>1. UNCHANGED <<jobs, sessions, metrics, runs, faults>> /\ At(w, "benchmark")
  BY DEF BenchmarkReturns
<1>2. topic \subseteq topic' /\ topic' \subseteq topic \cup {Telemetry(w)} /\ topic' \subseteq Record
  <2>1. Telemetry(w) \in Record
    BY <1>1, TypeParts DEF TypeInv, Telemetry, WorkerRec, Record
  <2> QED BY <2>1, TypeParts DEF TypeInv, BenchmarkReturns
<1>3. /\ worker' \in [Workers -> WorkerRec]
      /\ \A v \in Workers :
            /\ worker'[v].pc = IF v = w THEN "baseline" ELSE worker[v].pc
            /\ worker'[v].id = worker[v].id /\ worker'[v].run = worker[v].run
            /\ worker'[v].minID = worker[v].minID /\ worker'[v].row = worker[v].row
            /\ worker'[v].clean = worker[v].clean
  BY GotoShape DEF BenchmarkReturns, TypeInv, Pcs
<1>4. ~Had({"orch"}) => \A v \in Workers : HoldsVM(v) /\ v # w => Id(v) # Id(w)
  BY <1>1 DEF SessionInv
<1>5. TypeInv'
  <2>1. TypeOK'
    BY <1>1, <1>2, <1>3, <1>4, TypeParts DEF TypeInv, TypeOK, JobRec, WorkerRec, Record, Pcs
  <2> QED BY <1>1, <1>2, <1>3, <1>4, <2>1 DEF TypeInv
<1>6. SessionInv'
  BY <1>1, <1>2, <1>3, <1>4 DEF SessionInv
<1>7. PollInv'
  BY <1>1, <1>2, <1>3, <1>4 DEF PollInv, NoneOutstanding, NewRows, ResultRun, Telemetry
<1>8. RunningHasWorker'
  BY <1>1, <1>2, <1>3, <1>4 DEF RunningHasWorker
<1>9. Owned'
  BY <1>1, <1>2, <1>3, <1>4 DEF Owned
<1> QED BY <1>5, <1>6, <1>7, <1>8, <1>9

(* The call fails; the record of the run may be on its way. *)
LEMMA BenchmarkFailsStep ==
    ASSUME Inv, NEW w \in Workers, BenchmarkFails(w)
    PROVE  Inv'
<1> USE DEF Inv
<1>1. UNCHANGED <<jobs, sessions, metrics, runs, faults>> /\ At(w, "benchmark")
  BY DEF BenchmarkFails
<1>2. topic \subseteq topic' /\ topic' \subseteq topic \cup {Telemetry(w)} /\ topic' \subseteq Record
  <2>1. Telemetry(w) \in Record
    BY <1>1, TypeParts DEF TypeInv, Telemetry, WorkerRec, Record
  <2> QED BY <2>1, TypeParts DEF TypeInv, BenchmarkFails
<1>3. /\ worker' \in [Workers -> WorkerRec]
      /\ \A v \in Workers :
            /\ worker'[v].pc = IF v = w THEN "benchFailed" ELSE worker[v].pc
            /\ worker'[v].id = worker[v].id /\ worker'[v].run = worker[v].run
            /\ worker'[v].minID = worker[v].minID /\ worker'[v].row = worker[v].row
            /\ worker'[v].clean = worker[v].clean
  BY GotoShape DEF BenchmarkFails, TypeInv, Pcs
<1>4. ~Had({"orch"}) => \A v \in Workers : HoldsVM(v) /\ v # w => Id(v) # Id(w)
  BY <1>1 DEF SessionInv
<1>5. TypeInv'
  <2>1. TypeOK'
    BY <1>1, <1>2, <1>3, <1>4, TypeParts DEF TypeInv, TypeOK, JobRec, WorkerRec, Record, Pcs
  <2> QED BY <1>1, <1>2, <1>3, <1>4, <2>1 DEF TypeInv
<1>6. SessionInv'
  BY <1>1, <1>2, <1>3, <1>4 DEF SessionInv
<1>7. PollInv'
  BY <1>1, <1>2, <1>3, <1>4 DEF PollInv, NoneOutstanding, NewRows, ResultRun, Telemetry
<1>8. RunningHasWorker'
  BY <1>1, <1>2, <1>3, <1>4 DEF RunningHasWorker
<1>9. Owned'
  BY <1>1, <1>2, <1>3, <1>4 DEF Owned
<1> QED BY <1>5, <1>6, <1>7, <1>8, <1>9

(* The worker gives up polling. *)
LEMMA PollTimeoutStep ==
    ASSUME Inv, NEW w \in Workers, PollTimeout(w)
    PROVE  Inv'
<1> USE DEF Inv
<1>1. UNCHANGED <<jobs, sessions, topic, metrics, runs, faults>> /\ At(w, "poll")
  BY DEF PollTimeout
<1>2. /\ worker' \in [Workers -> WorkerRec]
      /\ \A v \in Workers :
            /\ worker'[v].pc = IF v = w THEN "complete" ELSE worker[v].pc
            /\ worker'[v].id = worker[v].id /\ worker'[v].run = worker[v].run
            /\ worker'[v].minID = worker[v].minID /\ worker'[v].row = worker[v].row
            /\ worker'[v].clean = worker[v].clean
  BY GotoShape DEF PollTimeout, TypeInv, Pcs
<1>3. TypeInv'
  <2>1. TypeOK'
    BY <1>1, <1>2, TypeParts DEF TypeInv, TypeOK, JobRec, WorkerRec, Record, Pcs
  <2> QED BY <1>1, <1>2, <2>1 DEF TypeInv
<1>4. SessionInv'
  BY <1>1, <1>2 DEF SessionInv
<1>5. PollInv'
  BY <1>1, <1>2 DEF PollInv, NoneOutstanding, NewRows, ResultRun
<1>6. RunningHasWorker'
  BY <1>1, <1>2 DEF RunningHasWorker
<1>7. Owned'
  BY <1>1, <1>2 DEF Owned
<1> QED BY <1>3, <1>4, <1>5, <1>6, <1>7

(* The baseline: when none of the submission's earlier records is under    *)
(* way, only the worker's own can come after it.                           *)
LEMMA ReadMinIDStep ==
    ASSUME Inv, NEW w \in Workers, ReadMinID(w)
    PROVE  Inv'
<1> USE DEF Inv
<1>1. UNCHANGED <<jobs, sessions, topic, metrics, runs>> /\ At(w, "baseline")
  BY DEF ReadMinID
<1>2. /\ worker \in [Workers -> WorkerRec] /\ faults \subseteq FaultKinds
      /\ Len(metrics) \in 0..MaxRows
  BY LenProperties, TypeParts DEF TypeInv
<1>3. /\ worker' \in [Workers -> WorkerRec] /\ faults \subseteq faults' /\ faults' \subseteq FaultKinds
      /\ worker'[w].pc = "poll" /\ worker'[w].id = worker[w].id /\ worker'[w].run = worker[w].run
      /\ worker'[w].row = worker[w].row
      /\ \A v \in Workers \ {w} : worker'[v] = worker[v]
      /\ worker'[w].clean => worker'[w].minID = Len(metrics) /\ NoneOutstanding(w)
  <2>1. CASE /\ worker' = [worker EXCEPT ![w].pc = "poll", ![w].minID = Len(metrics),
                                         ![w].clean = NoneOutstanding(w)]
             /\ UNCHANGED faults
    <3> DEFINE r == [worker[w] EXCEPT !.pc = "poll", !.minID = Len(metrics), !.clean = NoneOutstanding(w)]
    <3>1. worker' = [worker EXCEPT ![w] = r]
      BY <1>2, <2>1
    <3>2. NoneOutstanding(w) \in BOOLEAN /\ "poll" \in Pcs
      BY DEF NoneOutstanding, Pcs
    <3>3. /\ r \in WorkerRec /\ r.pc = "poll" /\ r.id = worker[w].id /\ r.run = worker[w].run
          /\ r.row = worker[w].row /\ r.minID = Len(metrics) /\ r.clean = NoneOutstanding(w)
      BY <1>2, <3>2 DEF WorkerRec
    <3> HIDE DEF r
    <3> QED BY <1>2, <2>1, <3>1, <3>3
  <2>2. CASE Fault("db") /\ Goto(w, "poll")
    <3>1. ~worker[w].clean
      BY <1>1 DEF PollInv
    <3>2. \A v \in Workers \ {w} : worker'[v] = worker[v]
      BY <1>2, <2>2 DEF Goto
    <3>3. faults \subseteq faults' /\ faults' \subseteq FaultKinds
      BY <1>2, <2>2, FaultsKept
    <3>4. /\ worker' \in [Workers -> WorkerRec]
          /\ worker'[w].pc = "poll" /\ worker'[w].id = worker[w].id /\ worker'[w].run = worker[w].run
          /\ worker'[w].row = worker[w].row /\ worker'[w].clean = worker[w].clean
      BY <2>2, GotoShape DEF TypeInv, Pcs
    <3> QED BY <3>1, <3>2, <3>3, <3>4
  <2> QED BY <2>1, <2>2 DEF ReadMinID
<1>4. TypeInv'
  <2>1. TypeOK'
    BY <1>1, <1>3, TypeParts DEF TypeInv, TypeOK, JobRec, WorkerRec, Record, Pcs
  <2> QED BY <1>1, <1>3, <2>1 DEF TypeInv
<1>5. SessionInv'
  BY <1>1, <1>3 DEF SessionInv
<1>6. PollInv'
  <2>1. ASSUME NEW k \in NewRows(w)', worker'[w].clean PROVE FALSE
    BY <1>1, <1>2, <1>3, <2>1 DEF NewRows
  <2>2. worker'[w].clean => NoneOutstanding(w)'
    BY <1>1, <1>3 DEF NoneOutstanding
  <2> QED BY <1>1, <1>3, <2>1, <2>2 DEF PollInv, NoneOutstanding, NewRows, ResultRun
<1>7. RunningHasWorker'
  BY <1>1, <1>3 DEF RunningHasWorker
<1>8. Owned'
  BY <1>1, <1>3 DEF Owned
<1> QED BY <1>4, <1>5, <1>6, <1>7, <1>8

(* A row above the baseline is the result. *)
LEMMA PollHitStep ==
    ASSUME Inv, NEW w \in Workers, PollHit(w)
    PROVE  Inv'
<1> USE DEF Inv
<1>1. UNCHANGED <<jobs, sessions, topic, metrics, runs, faults>> /\ At(w, "poll")
  BY DEF PollHit
<1>2. PICK k \in NewRows(w) : worker' = [worker EXCEPT ![w].pc = "complete", ![w].row = k]
  BY DEF PollHit
<1>3. /\ worker \in [Workers -> WorkerRec] /\ Len(metrics) \in 0..MaxRows
      /\ MaxRows \in Nat
  BY LenProperties, TypeParts, ApiBounds DEF TypeInv
<1>4. k \in 1..Len(metrics) /\ k \in 0..MaxRows /\ k # 0
  BY <1>3 DEF NewRows, WorkerRec
<1>5. /\ worker' \in [Workers -> WorkerRec]
      /\ worker'[w].pc = "complete" /\ worker'[w].id = worker[w].id /\ worker'[w].run = worker[w].run
      /\ worker'[w].row = k /\ worker'[w].clean = worker[w].clean
      /\ \A v \in Workers \ {w} : worker'[v] = worker[v]
  <2> DEFINE r == [worker[w] EXCEPT !.pc = "complete", !.row = k]
  <2>1. worker' = [worker EXCEPT ![w] = r]
    BY <1>2, <1>3
  <2>2. /\ r \in WorkerRec /\ r.pc = "complete" /\ r.id = worker[w].id /\ r.run = worker[w].run
        /\ r.row = k /\ r.clean = worker[w].clean
    BY <1>3, <1>4 DEF WorkerRec, Pcs
  <2> HIDE DEF r
  <2> QED BY <1>3, <2>1, <2>2
<1>6. TypeInv'
  <2>1. TypeOK'
    BY <1>1, <1>5, TypeParts DEF TypeInv, TypeOK, JobRec, WorkerRec, Record, Pcs
  <2> QED BY <1>1, <1>3, <1>4, <1>5, <2>1 DEF TypeInv
<1>7. SessionInv'
  BY <1>1, <1>5 DEF SessionInv
<1>8. PollInv'
  <2>1. ~Had({"orch"}) /\ worker[w].clean => metrics[k].run = worker[w].run
    BY <1>1, <1>2 DEF PollInv
  <2>2. ~Had({"orch"}) /\ worker'[w].clean => ResultRun(w)' = worker'[w].run
    BY <1>1, <1>4, <1>5, <2>1 DEF ResultRun
  <2> QED BY <1>1, <1>5, <2>2 DEF PollInv, NoneOutstanding, NewRows, ResultRun
<1>9. RunningHasWorker'
  BY <1>1, <1>5 DEF RunningHasWorker
<1>10. Owned'
  BY <1>1, <1>5 DEF Owned
<1> QED BY <1>6, <1>7, <1>8, <1>9, <1>10

(* The result is written with the status. *)
LEMMA CompleteStep ==
    ASSUME Inv, NEW w \in Workers, Complete(w)
    PROVE  Inv'
<1> USE DEF Inv
<1>1. UNCHANGED <<sessions, topic, metrics, runs>> /\ At(w, "complete")
  BY DEF Complete
<1>2. Id(w) \in Submissions /\ ResultRun(w) \in 0..MaxRuns
  <2>1. worker[w] \in WorkerRec /\ metrics \in Seq(Record) /\ worker[w].row <= Len(metrics)
    BY TypeParts DEF TypeInv
  <2>2. worker[w].row # 0 => worker[w].row \in 1..Len(metrics)
    BY <2>1, LenProperties, ApiBounds DEF WorkerRec
  <2>3. worker[w].row # 0 => metrics[worker[w].row] \in Record
    BY <2>1, <2>2, ElementOfSeq
  <2> QED BY <2>1, <2>3, ApiBounds DEF ResultRun, WorkerRec, Record
<1>3. /\ jobs' \in [Submissions -> JobRec]
      /\ faults \subseteq faults' /\ faults' \subseteq FaultKinds
      /\ \A t \in Submissions \ {Id(w)} : jobs'[t] = jobs[t]
      /\ "db" \in faults' \/ jobs'[Id(w)].status # "RUNNING"
  BY <1>2, WriteStatusShape DEF Complete, TypeInv
<1>4. /\ worker' \in [Workers -> WorkerRec]
      /\ \A v \in Workers :
            /\ worker'[v].pc = IF v = w THEN "teardown" ELSE worker[v].pc
            /\ worker'[v].id = worker[v].id /\ worker'[v].run = worker[v].run
            /\ worker'[v].minID = worker[v].minID /\ worker'[v].row = worker[v].row
            /\ worker'[v].clean = worker[v].clean
  BY GotoShape DEF Complete, TypeInv, Pcs
<1>5. TypeInv'
  <2>1. TypeOK'
    BY <1>1, <1>2, <1>3, <1>4, TypeParts DEF TypeInv, TypeOK, JobRec, WorkerRec, Record, Pcs
  <2> QED BY <1>1, <1>2, <1>3, <1>4, <2>1 DEF TypeInv
<1>6. SessionInv'
  BY <1>1, <1>2, <1>3, <1>4 DEF SessionInv
<1>7. PollInv'
  BY <1>1, <1>2, <1>3, <1>4 DEF PollInv, NoneOutstanding, NewRows, ResultRun
<1>8. RunningHasWorker'
  BY <1>1, <1>2, <1>3, <1>4 DEF RunningHasWorker
<1>9. Owned'
  BY <1>1, <1>2, <1>3, <1>4 DEF Owned
<1> QED BY <1>5, <1>6, <1>7, <1>8, <1>9

(* The session ends with its worker's work on it. *)
LEMMA TeardownReturnsStep ==
    ASSUME Inv, NEW w \in Workers, TeardownReturns(w)
    PROVE  Inv'
<1> USE DEF Inv
<1>1. UNCHANGED <<jobs, topic, metrics, runs, faults>> /\ At(w, "stopping") /\ Id(w) \in Submissions
  BY TypeParts DEF TeardownReturns, TypeInv, WorkerRec
<1>2. SessionGoes(Id(w), "none")
  BY <1>1, SessionShape DEF TeardownReturns, TypeInv
<1>3. /\ worker' \in [Workers -> WorkerRec]
      /\ worker'[w] = Free /\ Free.pc = "idle" /\ Free.row = 0 /\ Free.clean = FALSE
      /\ \A v \in Workers \ {w} : worker'[v] = worker[v]
  BY FreeShape, FreeType DEF TeardownReturns, TypeInv, Free
<1>4. Len(metrics) \in Nat /\ \A v \in Workers : Id(v) \in Submissions
  BY LenProperties, TypeParts DEF TypeInv, SessionGoes, WorkerRec
<1>5. TypeInv'
  <2>1. TypeOK'
    BY <1>1, <1>2, <1>3, <1>4, TypeParts DEF TypeInv, SessionGoes, TypeOK, JobRec, WorkerRec, Record, Pcs
  <2> QED BY <1>1, <1>2, <1>3, <1>4, <2>1 DEF TypeInv, SessionGoes
<1>6. SessionInv'
  BY <1>1, <1>2, <1>3, <1>4 DEF SessionInv, SessionGoes
<1>7. PollInv'
  BY <1>1, <1>2, <1>3, <1>4 DEF PollInv, NoneOutstanding, NewRows, ResultRun
<1>8. RunningHasWorker'
  BY <1>1, <1>2, <1>3, <1>4 DEF RunningHasWorker
<1>9. Owned'
  BY <1>1, <1>2, <1>3, <1>4 DEF Owned, SessionGoes
<1> QED BY <1>5, <1>6, <1>7, <1>8, <1>9

(* There is no VM to tear down: no session was the worker's. *)
LEMMA TeardownNotFoundStep ==
    ASSUME Inv, NEW w \in Workers, TeardownNotFound(w)
    PROVE  Inv'
<1> USE DEF Inv
<1>1. /\ UNCHANGED <<jobs, sessions, topic, metrics, runs, faults>>
      /\ At(w, "teardown") /\ sessions[Id(w)].phase = "none"
  BY DEF TeardownNotFound
<1>2. /\ worker' \in [Workers -> WorkerRec]
      /\ worker'[w] = Free /\ Free.pc = "idle" /\ Free.row = 0 /\ Free.clean = FALSE
      /\ \A v \in Workers \ {w} : worker'[v] = worker[v]
  BY FreeShape, FreeType DEF TeardownNotFound, TypeInv, Free
<1>3. Len(metrics) \in Nat /\ \A v \in Workers : Id(v) \in Submissions
  BY LenProperties, TypeParts DEF TypeInv, WorkerRec
<1>4. TypeInv'
  <2>1. TypeOK'
    BY <1>1, <1>2, TypeParts DEF TypeInv, TypeOK, JobRec, WorkerRec, Record, Pcs
  <2> QED BY <1>1, <1>2, <1>3, <2>1 DEF TypeInv
<1>5. SessionInv'
  BY <1>1, <1>2 DEF SessionInv
<1>6. PollInv'
  BY <1>1, <1>2 DEF PollInv, NoneOutstanding, NewRows, ResultRun
<1>7. RunningHasWorker'
  BY <1>1, <1>2 DEF RunningHasWorker
<1>8. Owned'
  BY <1>1, <1>2 DEF Owned
<1> QED BY <1>4, <1>5, <1>6, <1>7, <1>8

(* Every session ends, no worker gets one, and none leaves a job it has    *)
(* not marked: who returns was past that.                                  *)
LEMMA RegistryLostStep ==
    ASSUME Inv, NEW ended \in SUBSET Workers, \A w \in ended : At(w, "teardown"), RegistryLost(ended)
    PROVE  Inv'
<1> USE DEF Inv
<1>1. /\ UNCHANGED <<jobs, topic, metrics, runs>> /\ Fault("orch")
      /\ sessions' = [s \in Submissions |-> VM!NoSession]
      /\ worker' = [v \in Workers |->
            IF At(v, "stopping") \/ v \in ended THEN Free
            ELSE IF At(v, "spawning") THEN [worker[v] EXCEPT !.pc = "spawnFailed"] ELSE worker[v]]
  BY DEF RegistryLost
<1>2. "orch" \in faults' /\ faults \subseteq faults' /\ faults' \subseteq FaultKinds
  BY <1>1, FaultsKept, TypeParts DEF TypeInv
<1>3. worker \in [Workers -> WorkerRec] /\ Len(metrics) \in Nat
  BY LenProperties, TypeParts DEF TypeInv
<1>4. Free \in WorkerRec /\ Free.pc = "idle" /\ Free.row = 0 /\ Free.clean = FALSE
  BY FreeType DEF Free
<1>5. ASSUME NEW v \in Workers
      PROVE  /\ worker'[v] \in WorkerRec
             /\ \/ worker'[v] = Free /\ worker[v].pc \in {"stopping", "teardown"}
                \/ /\ worker'[v].pc = IF At(v, "spawning") THEN "spawnFailed" ELSE worker[v].pc
                   /\ worker'[v].id = worker[v].id /\ worker'[v].run = worker[v].run
                   /\ worker'[v].minID = worker[v].minID /\ worker'[v].row = worker[v].row
                   /\ worker'[v].clean = worker[v].clean
  <2>1. worker[v] \in WorkerRec
    BY <1>3
  <2>2. [worker[v] EXCEPT !.pc = "spawnFailed"] \in WorkerRec
    BY <2>1 DEF WorkerRec, Pcs
  <2> QED BY <1>1, <1>4, <2>1, <2>2 DEF WorkerRec
<1>6. TypeInv'
  <2>1. worker' \in [Workers -> WorkerRec]
    BY <1>1, <1>5
  <2>2. sessions' \in [Submissions -> [phase: VM!Phases, ip: Addresses \cup {0}]]
    BY <1>1 DEF VM!NoSession, VM!Phases
  <2>3. TypeOK'
    BY <1>1, <1>2, <2>1, <2>2, TypeParts DEF TypeInv, TypeOK, JobRec, WorkerRec, Record, Pcs
  <2>4. ASSUME NEW v \in Workers
        PROVE  (~At(v, "idle") => worker[v].run # 0)' /\ (worker[v].row <= Len(metrics))'
    BY <1>1, <1>3, <1>4, <1>5 DEF TypeInv
  <2> QED BY <1>1, <2>3, <2>4 DEF TypeInv
<1>7. SessionInv'
  BY <1>2 DEF SessionInv
<1>8. PollInv'
  BY <1>2, <1>4, <1>5 DEF PollInv
<1>9. RunningHasWorker'
  BY <1>1, <1>2, <1>5 DEF RunningHasWorker
<1>10. Owned'
  BY <1>1 DEF Owned, VM!NoSession
<1> QED BY <1>6, <1>7, <1>8, <1>9, <1>10

(* The worker asks for the end of its session. *)
LEMMA TeardownVMStep ==
    ASSUME Inv, NEW w \in Workers, TeardownVM(w)
    PROVE  Inv'
<1> USE DEF Inv
<1>1. UNCHANGED <<jobs, topic, metrics, runs>> /\ At(w, "teardown")
  BY DEF TeardownVM
<1>2. /\ Id(w) \in Submissions /\ Len(metrics) \in Nat
      /\ \A v \in Workers : Id(v) \in Submissions
  BY LenProperties, TypeParts DEF TypeInv, WorkerRec
<1>3. CASE /\ VM!Stopped(Id(w)) \/ (sessions[Id(w)].phase = "stopping" /\ UNCHANGED sessions)
           /\ Goto(w, "stopping")
           /\ UNCHANGED faults
  <2>1. SessionGoes(Id(w), "stopping")
    <3>1. sessions \in [Submissions -> [phase: VM!Phases, ip: Addresses \cup {0}]]
      BY TypeParts DEF TypeInv
    <3> QED BY <1>2, <1>3, <3>1, SessionShape DEF TypeInv, SessionGoes
  <2>2. /\ worker' \in [Workers -> WorkerRec]
        /\ \A v \in Workers :
                  /\ worker'[v].pc = IF v = w THEN "stopping" ELSE worker[v].pc
                  /\ worker'[v].id = worker[v].id /\ worker'[v].run = worker[v].run
                  /\ worker'[v].minID = worker[v].minID /\ worker'[v].row = worker[v].row
                  /\ worker'[v].clean = worker[v].clean
    BY <1>3, GotoShape DEF TypeInv, Pcs
  <2>3. TypeInv'
    <3>1. TypeOK'
      BY <1>1, <1>3, <2>1, <2>2, TypeParts DEF SessionGoes, TypeInv, TypeOK, JobRec, WorkerRec, Record, Pcs
    <3> QED BY <1>1, <2>2, <3>1 DEF TypeInv
  <2>4. SessionInv'
    BY <1>1, <1>2, <1>3, <2>1, <2>2 DEF SessionInv, SessionGoes
  <2>5. PollInv'
    BY <1>1, <1>3, <2>2 DEF PollInv, NoneOutstanding, NewRows, ResultRun
  <2>6. RunningHasWorker'
    BY <1>1, <1>3, <2>2 DEF RunningHasWorker
  <2>7. Owned'
    <3>1. SUFFICES ASSUME ~Had({"rpc", "crash"})
                   PROVE  Owned'
      BY <1>3 DEF Owned
    <3>2. worker'[w].pc = "stopping" /\ worker'[w].id = worker[w].id
      BY <2>2
    <3>3. ASSUME NEW s \in Submissions \ {Id(w)}, NEW v \in Workers, Id(v) = s
          PROVE  worker'[v].pc = worker[v].pc /\ worker'[v].id = s
      BY <2>2, <3>3
    <3> QED BY <1>2, <2>1, <3>1, <3>2, <3>3 DEF Owned, SessionGoes
  <2> QED BY <2>3, <2>4, <2>5, <2>6, <2>7
<1>4. CASE /\ Fault("rpc")
           /\ VM!Stopped(Id(w)) \/ UNCHANGED sessions
           /\ worker' = [worker EXCEPT ![w] = Free]
  <2>1. SessionGoes(Id(w), "stopping") \/ UNCHANGED sessions
    BY <1>2, <1>4, SessionShape DEF TypeInv
  <2>2. /\ worker' \in [Workers -> WorkerRec]
        /\ worker'[w] = Free /\ Free.pc = "idle" /\ Free.row = 0 /\ Free.clean = FALSE
        /\ \A v \in Workers \ {w} : worker'[v] = worker[v]
    BY <1>4, FreeShape, FreeType DEF TypeInv, Free
  <2>3. "rpc" \in faults' /\ faults \subseteq faults' /\ faults' \subseteq FaultKinds
    BY <1>4, FaultsKept, TypeParts DEF TypeInv
  <2>4. TypeInv'
    <3>1. sessions' \in [Submissions -> [phase: VM!Phases, ip: Addresses \cup {0}]]
      BY <2>1, TypeParts DEF TypeInv, SessionGoes
    <3>2. TypeOK'
      BY <1>1, <2>2, <2>3, <3>1, TypeParts DEF TypeInv, TypeOK, JobRec, WorkerRec, Record, Pcs
    <3> QED BY <1>1, <1>2, <2>2, <3>2 DEF TypeInv
  <2>5. SessionInv'
    BY <1>1, <1>2, <2>1, <2>2, <2>3 DEF SessionInv, SessionGoes
  <2>6. PollInv'
    BY <1>1, <2>2, <2>3 DEF PollInv, NoneOutstanding, NewRows, ResultRun
  <2>7. RunningHasWorker'
    BY <1>1, <2>2, <2>3 DEF RunningHasWorker
  <2>8. Owned'
    BY <2>3 DEF Owned
  <2> QED BY <2>4, <2>5, <2>6, <2>7, <2>8
<1> QED BY <1>3, <1>4 DEF TeardownVM

(* A row is inserted: above the baseline of a clean poll it is the         *)
(* worker's own.                                                           *)
LEMMA IngestStep ==
    ASSUME Inv, NEW t \in topic, Ingest(t)
    PROVE  Inv'
<1> USE DEF Inv
<1>1. /\ UNCHANGED <<jobs, worker, sessions, runs>>
      /\ metrics' = Append(metrics, t) /\ Len(metrics) < MaxRows /\ topic' \subseteq topic
  BY DEF Ingest
<1>2. faults \subseteq faults' /\ faults' \subseteq FaultKinds
  BY FaultsKept, TypeParts DEF Ingest, TypeInv
<1>3. metrics \in Seq(Record) /\ t \in Record /\ topic \subseteq Record
  BY TypeParts DEF TypeInv
<1>4. /\ metrics' \in Seq(Record) /\ Len(metrics) \in Nat /\ Len(metrics') = Len(metrics) + 1
      /\ \A k \in 1..Len(metrics) : metrics'[k] = metrics[k]
      /\ metrics'[Len(metrics) + 1] = t
  BY <1>1, <1>3, AppendProperties, LenProperties
<1>5. TypeInv'
  <2>1. Len(metrics') <= MaxRows
    BY <1>1, <1>4, ApiBounds
  <2>2. TypeOK'
    BY <1>1, <1>2, <1>3, <1>4, <2>1, TypeParts DEF TypeInv, TypeOK, JobRec, WorkerRec, Record, Pcs
  <2>3. ASSUME NEW w \in Workers PROVE worker'[w].row <= Len(metrics')
    BY <1>1, <1>4, ApiBounds, TypeParts DEF TypeInv, WorkerRec
  <2> QED BY <1>1, <2>2, <2>3 DEF TypeInv
<1>6. SessionInv'
  BY <1>1, <1>2 DEF SessionInv
<1>7. PollInv'
  <2> SUFFICES ASSUME ~Had({"orch"}), NEW w \in Workers
               PROVE  /\ At(w, "poll") /\ worker[w].clean =>
                            /\ NoneOutstanding(w)'
                            /\ \A k \in NewRows(w)' : metrics'[k].run = worker[w].run
                      /\ At(w, "complete") /\ worker[w].clean => ResultRun(w)' = worker[w].run
    BY <1>1, <1>2 DEF PollInv
  <2>1. worker[w].row \in 0..MaxRows /\ worker[w].row <= Len(metrics) /\ worker[w].minID \in 0..MaxRows
    BY TypeParts DEF TypeInv, WorkerRec
  <2>2. ASSUME At(w, "poll"), worker[w].clean, NEW k \in NewRows(w)' PROVE metrics'[k].run = worker[w].run
    <3>1. k \in (worker[w].minID + 1)..(Len(metrics) + 1) /\ metrics'[k].id = Id(w)
      BY <1>1, <1>4 DEF NewRows
    <3>2. CASE k = Len(metrics) + 1
      BY <1>4, <2>2, <3>1, <3>2 DEF PollInv, NoneOutstanding
    <3>3. CASE k # Len(metrics) + 1
      <4>1. k \in (worker[w].minID + 1)..Len(metrics) /\ k \in 1..Len(metrics)
        BY <1>4, <2>1, <3>1, <3>3, ApiBounds
      <4>2. k \in NewRows(w)
        BY <1>4, <3>1, <4>1 DEF NewRows
      <4> QED BY <1>4, <2>2, <4>1, <4>2 DEF PollInv
    <3> QED BY <3>2, <3>3
  <2>3. At(w, "poll") /\ worker[w].clean => NoneOutstanding(w)'
    BY <1>1 DEF PollInv, NoneOutstanding
  <2>4. worker[w].row # 0 => worker[w].row \in 1..Len(metrics)
    BY <1>4, <2>1, ApiBounds
  <2>5. ResultRun(w)' = ResultRun(w)
    BY <1>1, <1>4, <2>4 DEF ResultRun
  <2> QED BY <2>2, <2>3, <2>5 DEF PollInv
<1>8. RunningHasWorker'
  BY <1>1, <1>2 DEF RunningHasWorker
<1>9. Owned'
  BY <1>1, <1>2 DEF Owned
<1> QED BY <1>5, <1>6, <1>7, <1>8, <1>9

(* Every worker forgets its job; the fault is remembered. *)
LEMMA ApiCrashStep ==
    ASSUME Inv, ApiCrash
    PROVE  Inv'
<1> USE DEF Inv
<1>1. /\ UNCHANGED <<jobs, sessions, topic, metrics, runs>>
      /\ worker' = [w \in Workers |-> Free]
      /\ Fault("crash")
  BY DEF ApiCrash
<1>2. "crash" \in faults' /\ faults' \subseteq FaultKinds
  BY <1>1, FaultsKept, TypeParts DEF TypeInv
<1>3. /\ worker' \in [Workers -> WorkerRec] /\ Len(metrics) \in Nat
      /\ \A w \in Workers : worker'[w] = Free
      /\ Free.pc = "idle" /\ Free.row = 0 /\ Free.clean = FALSE
  BY <1>1, FreeType, LenProperties, TypeParts DEF TypeInv, Free
<1>4. TypeInv'
  <2>1. TypeOK'
    BY <1>1, <1>2, <1>3, TypeParts DEF TypeInv, TypeOK, JobRec, WorkerRec, Record, Pcs
  <2> QED BY <1>1, <1>3, <2>1 DEF TypeInv
<1>5. SessionInv'
  BY <1>3 DEF SessionInv
<1>6. PollInv'
  BY <1>3 DEF PollInv
<1>7. RunningHasWorker' /\ Owned'
  BY <1>2 DEF RunningHasWorker, Owned
<1> QED BY <1>4, <1>5, <1>6, <1>7

(* A call without a client ends; the session is no worker's. *)
LEMMA OrphanedRPCStep ==
    ASSUME Inv, NEW s \in Submissions, OrphanedRPC(s)
    PROVE  Inv'
<1> USE DEF Inv
<1>1. /\ UNCHANGED <<jobs, worker, topic, metrics, runs, faults>>
      /\ \A w \in Workers : Id(w) = s => ~At(w, "spawning") /\ ~At(w, "stopping")
      /\ sessions[s].phase \in {"starting", "stopping"}
  BY DEF OrphanedRPC
<1>2. SessionGoes(s, "running") \/ SessionGoes(s, "none")
  BY SessionShape DEF OrphanedRPC, TypeInv
<1>3. ~Had({"orch"}) => \A w \in Workers : UsesSession(w) => Id(w) # s
  BY <1>1 DEF SessionInv
<1>4. \A w \in Workers : Id(w) \in Submissions
  BY TypeParts DEF TypeInv, WorkerRec
<1>5. TypeInv'
  <2>1. TypeOK'
    BY <1>1, <1>2, TypeParts DEF SessionGoes, TypeInv, TypeOK, JobRec, WorkerRec, Record, Pcs
  <2> QED BY <1>1, <2>1 DEF TypeInv
<1>6. SessionInv'
  BY <1>1, <1>2, <1>3, <1>4 DEF SessionInv, SessionGoes
<1>7. PollInv'
  BY <1>1 DEF PollInv, NoneOutstanding, NewRows, ResultRun
<1>8. RunningHasWorker'
  BY <1>1 DEF RunningHasWorker
<1>9. Owned'
  BY <1>1, <1>2, <1>3 DEF Owned, SessionGoes
<1> QED BY <1>5, <1>6, <1>7, <1>8, <1>9

----------------------------------------------------------------------------
(* The theorems                                                            *)

(* No row, no session and no worker at work. *)
LEMMA InitInv == Init => Inv
<1> SUFFICES ASSUME Init PROVE Inv
  OBVIOUS
<1>1. /\ \A w \in Workers : worker[w] = Free
      /\ worker \in [Workers -> WorkerRec]
      /\ Free.pc = "idle" /\ Free.row = 0 /\ Free.clean = FALSE
  BY FreeType DEF Init, Free
<1>2. jobs \in [Submissions -> JobRec] /\ \A s \in Submissions : jobs[s].status # "RUNNING"
  BY ApiBounds DEF Init, NoJob, JobRec
<1>3. /\ sessions \in [Submissions -> [phase: VM!Phases, ip: Addresses \cup {0}]]
      /\ \A s \in Submissions : sessions[s].phase = "none"
  BY DEF Init, VM!SessionsInit, VM!NoSession, VM!Phases
<1>4. metrics \in Seq(Record) /\ Len(metrics) = 0
  BY EmptySeq DEF Init
<1>5. TypeInv
  <2>1. TypeOK
    BY <1>1, <1>2, <1>3, <1>4, TypeParts, ApiBounds DEF Init
  <2> QED BY <1>1, <1>4, <2>1, ApiBounds DEF Init, TypeInv
<1>6. SessionInv /\ PollInv
  BY <1>1 DEF SessionInv, PollInv
<1>7. RunningHasWorker /\ Owned
  BY <1>2, <1>3 DEF RunningHasWorker, Owned
<1> QED BY <1>5, <1>6, <1>7 DEF Inv

(* Nothing changes. *)
LEMMA StutterInv ==
    ASSUME Inv, UNCHANGED vars
    PROVE  Inv'
<1>1. UNCHANGED <<jobs, worker, sessions, topic, metrics, runs, faults>>
  BY DEF vars
<1>2. TypeInv'
  BY <1>1 DEF Inv, TypeInv, TypeOK
<1>3. SessionInv'
  BY <1>1 DEF Inv, SessionInv
<1>4. PollInv'
  BY <1>1 DEF Inv, PollInv, NoneOutstanding, NewRows, ResultRun
<1>5. RunningHasWorker' /\ Owned'
  BY <1>1 DEF Inv, RunningHasWorker, Owned
<1> QED BY <1>2, <1>3, <1>4, <1>5 DEF Inv

(* Every step keeps the invariant. *)
LEMMA NextInv == Inv /\ [Next]_vars => Inv'
<1> SUFFICES ASSUME Inv, [Next]_vars PROVE Inv'
  OBVIOUS
<1>1. CASE \E s \in Submissions : Submit(s) \/ OrphanedRPC(s) \/ \E w \in Workers : Claim(w, s)
  BY <1>1, SubmitStep, OrphanedRPCStep, ClaimStep
<1>2. ASSUME NEW w \in Workers, TeardownPanics(w) PROVE Inv'
  <2>1. {w} \in SUBSET Workers /\ (\A v \in {w} : At(v, "teardown")) /\ RegistryLost({w})
    BY <1>2 DEF TeardownPanics
  <2> QED BY <2>1, RegistryLostStep
<1>3. ASSUME NEW w \in Workers, WorkerStep(w) PROVE Inv'
  BY <1>2, <1>3, SpawnRefusedStep, SpawnVMStep, SpawnReturnsStep, SpawnLostStep, SpawnFailedStep,
     BenchmarkFailedStep, ReadMinIDStep, PollHitStep, PollTimeoutStep, CompleteStep, TeardownVMStep,
     TeardownNotFoundStep, TeardownReturnsStep DEF WorkerStep
<1>4. CASE \E w \in Workers : BenchmarkReturns(w) \/ BenchmarkFails(w)
  BY <1>4, BenchmarkReturnsStep, BenchmarkFailsStep
<1>5. CASE \E t \in topic : Ingest(t)
  BY <1>5, IngestStep
<1>6. CASE ApiCrash
  BY <1>6, ApiCrashStep
<1>7. CASE OrchestratorRestart
  <2>1. {} \in SUBSET Workers /\ (\A v \in {} : At(v, "teardown")) /\ RegistryLost({})
    BY <1>7 DEF OrchestratorRestart
  <2> QED BY <2>1, RegistryLostStep
<1>8. CASE UNCHANGED vars
  BY <1>8, StutterInv
<1> QED BY <1>1, <1>3, <1>4, <1>5, <1>6, <1>7, <1>8 DEF Next

(* The inductive invariant holds whatever the workers, the orchestrator,   *)
(* the ingester and the faults do.                                         *)
THEOREM InductiveInvariant == Spec => []Inv
<1>1. Init => Inv
  BY InitInv
<1>2. Inv /\ [Next]_vars => Inv'
  BY NextInv
<1> QED BY <1>1, <1>2, PTL DEF Spec

(* However many workers there are and however often a submission is sent   *)
(* again, with lost calls, crashes of the API, failed statements and       *)
(* repeated records, one worker benchmarks it, on a VM that is registered  *)
(* until that worker's TeardownVM, as long as the orchestrator keeps its   *)
(* registry: not past its shutdown or a restart of it.                     *)
THEOREM OneBenchmarkHolds == Spec => []OneBenchmarkPerSubmission
<1>1. Inv => OneBenchmarkPerSubmission
  BY DEF Inv, SessionInv, OneBenchmarkPerSubmission
<1> QED BY <1>1, InductiveInvariant, PTL

(* A RUNNING row has its worker until a statement fails or the process     *)
(* dies, a session has one until a call fails or the process dies, with    *)
(* restarts of the orchestrator.                                           *)
THEOREM JobsConsistentHolds == Spec => []JobsConsistent
<1>1. TypeOK /\ Owned => NoAbandonedVM
  <2>1. TypeOK => \A s \in Submissions : sessions[s].phase \in {"none", "starting", "running", "stopping"}
    BY DEF TypeOK, VM!Phases
  <2> QED BY <2>1 DEF Owned, NoAbandonedVM
<1>2. Inv => JobsConsistent
  BY <1>1 DEF Inv, TypeInv, JobsConsistent
<1> QED BY <1>2, InductiveInvariant, PTL

(* Behind a clean baseline pollBenchmarkMetrics finds only the figures of  *)
(* the worker's own run, records delivered late or twice included, while   *)
(* the orchestrator keeps its registry.                                    *)
THEOREM ResultIsOwnHolds == Spec => []ResultIsOwn
<1>1. Inv => ResultIsOwn
  BY DEF Inv, PollInv, ResultIsOwn
<1> QED BY <1>1, InductiveInvariant, PTL

============================================================================
