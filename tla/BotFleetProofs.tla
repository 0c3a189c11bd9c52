-------------------------- MODULE BotFleetProofs --------------------------
(***************************************************************************)
(* Proofs about BotFleet, for requests of any size, channels of any        *)
(* capacity and any number of books in the shadow engine.                  *)
(***************************************************************************)
EXTENDS BotFleet, FiniteSetTheorems, TLAPS

----------------------------------------------------------------------------
(* The inductive invariant                                                 *)

TaskPCs == {"unspawned", "connecting", "recv", "read", "compare", "report", "ended"}
RunPCs == {"called", "rejected", "shadow", "dispatch", "join", "drain", "done"}
Early == {"called", "rejected", "shadow"}
TaskRec == [pc: TaskPCs, order: Order \cup {NoOrder}, answer: Seq(Nat), good: BOOLEAN]

TypeInv ==
    /\ req \in [total_orders: 1..MaxTotal, concurrency: 1..MaxTasks]
    /\ run \in [pc: RunPCs, sent: 0..req.total_orders, ok: Nat, failed: Nat, shadow: BOOLEAN]
    /\ jobs \in Seq(Order) /\ Len(jobs) <= ChanSize
    /\ results \in Seq(BOOLEAN) /\ Len(results) <= ChanSize
    /\ worker \in [Tasks -> TaskRec]
    /\ \A w \in Tasks : At(w, "read") \/ At(w, "compare") => worker[w].order \in Order
    /\ requests \in [Tasks -> Seq(Order)]
    /\ responses \in [Tasks -> Seq(Seq(Nat))]
    /\ engine \in Seq(1..MaxTotal)
    /\ book \in [open: BOOLEAN, seen: Seq(1..MaxTotal)]
    /\ otherBooks \in 0..MaxBooks + 1
    /\ disturbed \in BOOLEAN

(* An order that was sent is in a channel, with a worker, or counted. *)
HasOrder(w) == worker[w].pc \in {"read", "compare", "report"}
Holders == {w \in Tasks : HasOrder(w)}
CountInv ==
    run.sent = Len(jobs) + Cardinality(Holders) + Len(results) + run.ok + run.failed

(* The handler's stages: nothing happens before the workers are spawned,   *)
(* a worker ends when all orders were taken, and the results are counted   *)
(* when all workers have ended.                                            *)
StageInv ==
    /\ run.pc \in Early =>
          /\ run.sent = 0 /\ run.ok = 0 /\ run.failed = 0
          /\ results = <<>> /\ engine = <<>>
          /\ \A w \in Tasks : At(w, "unspawned") /\ requests[w] = <<>> /\ responses[w] = <<>>
    /\ run.pc \in {"join", "drain", "done"} => run.sent = req.total_orders
    /\ \A w \in Tasks : At(w, "ended") => jobs = <<>> /\ run.pc \in {"join", "drain", "done"}
    /\ run.pc \in {"drain", "done"} => \A w \in Tasks : At(w, "ended")
    /\ run.pc = "done" => results = <<>>

(* One worker and no fault: the order in progress is in one place, and the *)
(* shadow book is behind the engine by it once the engine has answered.    *)
Between == book.seen = engine /\ requests[1] = <<>> /\ responses[1] = <<>>
Written == At(1, "read") /\ book.seen = engine /\ requests[1] = <<worker[1].order>> /\ responses[1] = <<>>
Behind == engine = Append(book.seen, worker[1].order.n) /\ requests[1] = <<>>
Answered == At(1, "read") /\ Behind /\ responses[1] = <<Trades(book.seen, worker[1].order)>>
ReadBack == At(1, "compare") /\ Behind /\ responses[1] = <<>> /\ worker[1].answer = Trades(book.seen, worker[1].order)

SoloInv ==
    Undisturbed =>
        /\ run.shadow /\ book.open
        /\ ~At(1, "unspawned")
        /\ ~At(1, "read") /\ ~At(1, "compare") => Between
        /\ At(1, "read") => Written \/ Answered
        /\ At(1, "compare") => ReadBack
        /\ At(1, "report") => worker[1].good
        /\ run.failed = 0 /\ \A i \in 1..Len(results) : results[i]

Inv == TypeInv /\ CountInv /\ StageInv /\ SoloInv

----------------------------------------------------------------------------
(* The parts of a step                                                     *)

(* Task 1 exists, and is alone in a run with one worker. *)
LEMMA TasksFacts ==
    ASSUME TypeInv
    PROVE  /\ 1 \in Tasks /\ IsFiniteSet(Tasks)
           /\ req.concurrency = 1 => \A w \in Tasks : w = 1
<1>1. req.concurrency \in Nat /\ req.concurrency >= 1
  BY RequestAssumption DEF TypeInv
<1>2. IsFiniteSet(Tasks)
  BY <1>1, FS_Interval DEF Tasks
<1> QED BY <1>1, <1>2 DEF Tasks

(* A task that starts, waits for a job or ends has no order. *)
LEMMA TaskFacts ==
    ASSUME NEW pc \in TaskPCs
    PROVE  Task(pc) \in TaskRec /\ Task(pc).pc = pc
BY DEF Task, TaskRec

(* A verdict on an order. *)
LEMMA VerdictFacts ==
    ASSUME NEW good \in BOOLEAN
    PROVE  /\ [Task("report") EXCEPT !.good = good] \in TaskRec
           /\ [Task("report") EXCEPT !.good = good].pc = "report"
           /\ [Task("report") EXCEPT !.good = good].good = good
<1>1. Task("report") \in TaskRec /\ Task("report").pc = "report"
  BY TaskFacts DEF TaskPCs
<1> QED BY <1>1 DEF TaskRec

(* Taking the first element off a channel. *)
LEMMA TailFacts ==
    ASSUME NEW S, NEW s \in Seq(S), s # <<>>
    PROVE  /\ Tail(s) \in Seq(S) /\ Len(Tail(s)) = Len(s) - 1 /\ Len(s) \in Nat /\ Len(s) >= 1
           /\ 1 \in 1..Len(s) /\ Head(s) = s[1] /\ Head(s) \in S
           /\ \A i \in 1..Len(Tail(s)) : i + 1 \in 1..Len(s) /\ Tail(s)[i] = s[i + 1]
OBVIOUS

(* Putting an element into one. *)
LEMMA AppendFacts ==
    ASSUME NEW S, NEW s \in Seq(S), NEW e \in S
    PROVE  /\ Append(s, e) \in Seq(S) /\ Len(Append(s, e)) = Len(s) + 1 /\ Len(s) \in Nat
           /\ Append(s, e)[Len(s) + 1] = e
           /\ \A i \in 1..Len(s) : Append(s, e)[i] = s[i]
OBVIOUS

(* The handler's numbers. *)
LEMMA RunFacts ==
    ASSUME TypeInv
    PROVE  /\ run.sent \in Nat /\ run.ok \in Nat /\ run.failed \in Nat
           /\ req.total_orders \in Nat /\ run.sent <= req.total_orders
           /\ Len(jobs) \in Nat /\ Len(results) \in Nat
<1>1. req.total_orders \in Nat
  BY RequestAssumption DEF TypeInv
<1>2. run.sent \in 0..req.total_orders /\ run.ok \in Nat /\ run.failed \in Nat
  BY DEF TypeInv
<1>3. Len(jobs) \in Nat /\ Len(results) \in Nat
  BY DEF TypeInv
<1> QED BY <1>1, <1>2, <1>3

(* One worker goes on, the others stay where they are. *)
LEMMA BecomesShape ==
    ASSUME TypeInv, NEW w \in Tasks, NEW t \in TaskRec, Becomes(w, t)
    PROVE  /\ worker' \in [Tasks -> TaskRec] /\ worker'[w] = t
           /\ \A v \in Tasks \ {w} : worker'[v] = worker[v]
BY DEF TypeInv, Becomes

(* How many workers have an order. *)
LEMMA HoldersFinite == ASSUME TypeInv PROVE IsFiniteSet(Holders) /\ Cardinality(Holders) \in Nat
<1>1. Holders \subseteq Tasks
  BY DEF Holders
<1> QED BY <1>1, TasksFacts, FS_Subset, FS_CardinalityType

(* A worker takes an order. *)
LEMMA HolderMore ==
    ASSUME TypeInv, NEW w \in Tasks, ~HasOrder(w), HasOrder(w)', UNCHANGED req,
           \A v \in Tasks \ {w} : worker'[v] = worker[v]
    PROVE  Cardinality(Holders)' = Cardinality(Holders) + 1
<1>1. Holders' = Holders \cup {w} /\ w \notin Holders
  BY DEF Holders, HasOrder, Tasks
<1> QED BY <1>1, HoldersFinite, FS_AddElement

(* A worker has reported its order. *)
LEMMA HolderLess ==
    ASSUME TypeInv, NEW w \in Tasks, HasOrder(w), ~HasOrder(w)', UNCHANGED req,
           \A v \in Tasks \ {w} : worker'[v] = worker[v]
    PROVE  Cardinality(Holders)' = Cardinality(Holders) - 1
<1>1. Holders' = Holders \ {w} /\ w \in Holders
  BY DEF Holders, HasOrder, Tasks
<1> QED BY <1>1, HoldersFinite, FS_RemoveElement

(* A worker goes on with its order, or without one. *)
LEMMA HolderSame ==
    ASSUME NEW w \in Tasks, HasOrder(w)' <=> HasOrder(w), UNCHANGED req,
           \A v \in Tasks \ {w} : worker'[v] = worker[v]
    PROVE  Cardinality(Holders)' = Cardinality(Holders)
<1>1. Holders' = Holders
  BY DEF Holders, HasOrder, Tasks
<1> QED BY <1>1

(* A worker that has been spawned, or a line in a socket, means that the   *)
(* handler is past the start.                                              *)
LEMMA PastStart ==
    ASSUME StageInv, NEW w \in Tasks, ~At(w, "unspawned") \/ requests[w] # <<>>
    PROVE  run.pc \notin Early
BY DEF StageInv

----------------------------------------------------------------------------
(* The handler                                                             *)

(* The run gets a permit, or its request is refused. *)
LEMMA AcquireStep ==
    ASSUME Inv, Acquire \/ Reject
    PROVE  Inv'
<1>1. /\ UNCHANGED <<req, jobs, results, worker, requests, responses, engine, book, otherBooks, disturbed>>
      /\ run.pc = "called"
      /\ run' \in [pc: RunPCs, sent: 0..req.total_orders, ok: Nat, failed: Nat, shadow: BOOLEAN]
      /\ run'.pc \in {"shadow", "rejected"}
      /\ run'.sent = run.sent /\ run'.ok = run.ok /\ run'.failed = run.failed
  BY DEF Acquire, Reject, sockets, shadowEngine, Inv, TypeInv, RunPCs
<1>2. TypeInv'
  BY <1>1 DEF Inv, TypeInv, Tasks, At
<1>3. CountInv'
  BY <1>1 DEF Inv, CountInv, Holders, HasOrder, Tasks
<1>4. StageInv'
  BY <1>1 DEF Inv, StageInv, Tasks, At, Early
<1>5. SoloInv'
  BY <1>1 DEF SoloInv, Undisturbed
<1> QED BY <1>2, <1>3, <1>4, <1>5 DEF Inv

(* The shadow engine starts a book or is given up; the workers start. *)
LEMMA StartShadowStep ==
    ASSUME Inv, StartShadow
    PROVE  Inv'
<1> USE DEF Inv
<1>1. /\ UNCHANGED <<req, jobs, results, requests, responses, engine>>
      /\ run.pc = "shadow"
      /\ worker' = [w \in Tasks |-> Task("connecting")]
  BY DEF StartShadow, sockets
<1>2. PICK shadow \in BOOLEAN :
          /\ run' = [run EXCEPT !.pc = "dispatch", !.shadow = shadow]
          /\ \/ shadow /\ StartBook
             \/ disturbed' = TRUE /\ UNCHANGED shadowEngine
  BY DEF StartShadow
<1>3. /\ run' \in [pc: RunPCs, sent: 0..req.total_orders, ok: Nat, failed: Nat, shadow: BOOLEAN]
      /\ run'.pc = "dispatch" /\ run'.shadow = shadow
      /\ run'.sent = run.sent /\ run'.ok = run.ok /\ run'.failed = run.failed
  BY <1>2 DEF TypeInv, RunPCs
<1>4. Task("connecting") \in TaskRec /\ Task("connecting").pc = "connecting"
  BY TaskFacts DEF TaskPCs
<1>5. /\ book' \in [open: BOOLEAN, seen: Seq(1..MaxTotal)] /\ otherBooks' \in 0..MaxBooks + 1
      /\ disturbed' \in BOOLEAN
      /\ ~disturbed' => shadow /\ book'.open /\ book'.seen = <<>>
  <2>1. CASE shadow /\ StartBook
    <3>1. [open |-> TRUE, seen |-> <<>>] \in [open: BOOLEAN, seen: Seq(1..MaxTotal)]
      OBVIOUS
    <3>2. otherBooks' \in 0..MaxBooks + 1
      BY <2>1, SizesAssumption DEF TypeInv, StartBook
    <3>3. book' = [open |-> TRUE, seen |-> <<>>] /\ UNCHANGED disturbed
      BY <2>1 DEF StartBook
    <3> QED BY <2>1, <3>1, <3>2, <3>3 DEF TypeInv
  <2>2. CASE disturbed' = TRUE /\ UNCHANGED shadowEngine
    BY <2>2 DEF TypeInv, shadowEngine
  <2> QED BY <1>2, <2>1, <2>2
<1>6. /\ run.pc \in Early /\ results = <<>> /\ engine = <<>> /\ run.failed = 0
      /\ \A w \in Tasks : At(w, "unspawned") /\ requests[w] = <<>> /\ responses[w] = <<>>
  BY <1>1 DEF StageInv, Early
<1>7. TypeInv'
  BY <1>1, <1>3, <1>4, <1>5 DEF TypeInv, Tasks, At
<1>8. CountInv'
  <2>1. Holders = {} /\ Holders' = {}
    BY <1>1, <1>4, <1>6 DEF Holders, HasOrder, Tasks, At
  <2> QED BY <1>1, <1>3, <2>1 DEF CountInv
<1>9. StageInv'
  BY <1>1, <1>3, <1>4 DEF StageInv, Tasks, At, Early
<1>10. SoloInv'
  <2> SUFFICES ASSUME Undisturbed' PROVE SoloInv'
    BY DEF SoloInv
  <2>1. 1 \in Tasks /\ worker'[1].pc = "connecting" /\ ~disturbed'
    BY <1>1, <1>4, TasksFacts DEF Undisturbed
  <2>2. Between'
    BY <1>1, <1>5, <1>6, <2>1 DEF Between
  <2> QED BY <1>1, <1>3, <1>5, <1>6, <2>1, <2>2 DEF SoloInv, At
<1> QED BY <1>7, <1>8, <1>9, <1>10

(* Dispatch, and the stages of the handler: the workers and what is between *)
(* them and the engines stay as they are.                                  *)
LEMMA HandlerSolo ==
    ASSUME TypeInv, SoloInv, run.pc \notin Early,
           UNCHANGED <<req, worker, requests, responses, engine, book, disturbed>>,
           run'.shadow = run.shadow,
           Undisturbed /\ run.failed = 0 /\ (\A i \in 1..Len(results) : results[i])
              => run'.failed = 0 /\ \A i \in 1..Len(results') : results'[i]
    PROVE  SoloInv'
<1> SUFFICES ASSUME Undisturbed' PROVE SoloInv'
  BY DEF SoloInv
<1>1. Undisturbed
  BY DEF Undisturbed, Early
<1> QED BY <1>1 DEF SoloInv, Between, Written, Behind, Answered, ReadBack, At, Trades

(* An order is made and sent into the channel. *)
LEMMA DispatchStep ==
    ASSUME Inv, Dispatch
    PROVE  Inv'
<1> USE DEF Inv
<1>1. /\ UNCHANGED <<req, results, worker, requests, responses, engine, book, otherBooks, disturbed>>
      /\ run.pc = "dispatch" /\ run.sent < req.total_orders /\ Len(jobs) < ChanSize
      /\ run' = [run EXCEPT !.sent = @ + 1]
  BY DEF Dispatch, sockets, shadowEngine
<1>2. PICK order \in GenerateSingleOrder(run.sent) : jobs' = Append(jobs, order)
  BY DEF Dispatch
<1>3. /\ run' \in [pc: RunPCs, sent: 0..req.total_orders, ok: Nat, failed: Nat, shadow: BOOLEAN]
      /\ run'.pc = "dispatch" /\ run'.sent = run.sent + 1
      /\ run'.ok = run.ok /\ run'.failed = run.failed /\ run'.shadow = run.shadow
  <2>1. run.sent + 1 \in 0..req.total_orders
    BY <1>1, RunFacts
  <2> QED BY <1>1, <2>1 DEF TypeInv
<1>4. order \in Order
  BY <1>1, RequestAssumption DEF TypeInv, GenerateSingleOrder, Order
<1>5. jobs' \in Seq(Order) /\ Len(jobs') = Len(jobs) + 1 /\ Len(jobs') <= ChanSize
  BY <1>1, <1>2, <1>4, SizesAssumption DEF TypeInv
<1>6. TypeInv'
  BY <1>1, <1>3, <1>5 DEF TypeInv, Tasks, At
<1>7. CountInv'
  <2>1. Cardinality(Holders)' = Cardinality(Holders) /\ Cardinality(Holders) \in Nat
    BY <1>1, HoldersFinite DEF Holders, HasOrder, Tasks
  <2>2. run.sent = Len(jobs) + Cardinality(Holders) + Len(results) + run.ok + run.failed
    BY DEF CountInv
  <2>3. /\ run.sent \in Nat /\ run.ok \in Nat /\ run.failed \in Nat
        /\ Len(jobs) \in Nat /\ Len(results) \in Nat
    BY RunFacts
  <2>4. run'.sent = Len(jobs') + Cardinality(Holders)' + Len(results') + run'.ok + run'.failed
    <3>1. /\ run'.sent = run.sent + 1 /\ run'.ok = run.ok /\ run'.failed = run.failed
          /\ Len(jobs') = Len(jobs) + 1 /\ Len(results') = Len(results)
      BY <1>1, <1>3, <1>5
    <3>2. PICK n \in Nat : n = Cardinality(Holders) /\ n = Cardinality(Holders)'
      BY <2>1
    <3>3. run.sent = Len(jobs) + n + Len(results) + run.ok + run.failed
      BY <2>2, <3>2
    <3>4. run'.sent = Len(jobs') + n + Len(results') + run'.ok + run'.failed
      BY <2>3, <3>1, <3>3
    <3> QED BY <3>2, <3>4
  <2> QED BY <2>4 DEF CountInv
<1>8. StageInv'
  BY <1>1, <1>3 DEF StageInv, Tasks, At, Early
<1>9. SoloInv'
  BY <1>1, <1>3, HandlerSolo DEF Early
<1> QED BY <1>6, <1>7, <1>8, <1>9

(* The handler goes from one stage of the run to the next. *)
LEMMA DispatchDoneStep ==
    ASSUME Inv, DispatchDone \/ Join \/ Finish
    PROVE  Inv'
<1> USE DEF Inv
<1>1. /\ UNCHANGED <<req, jobs, results, worker, requests, responses, engine, book, otherBooks, disturbed>>
      /\ run.pc \in {"dispatch", "join", "drain"}
      /\ run.pc = "dispatch" => run.sent = req.total_orders
      /\ run.pc = "join" => \A w \in Tasks : At(w, "ended")
      /\ run.pc = "drain" => results = <<>>
  BY DEF DispatchDone, Join, Finish, sockets, shadowEngine, At
<1>2. /\ run' \in [pc: RunPCs, sent: 0..req.total_orders, ok: Nat, failed: Nat, shadow: BOOLEAN]
      /\ run'.sent = run.sent /\ run'.ok = run.ok /\ run'.failed = run.failed /\ run'.shadow = run.shadow
      /\ run'.pc = CASE run.pc = "dispatch" -> "join" [] run.pc = "join" -> "drain" [] run.pc = "drain" -> "done"
  BY DEF DispatchDone, Join, Finish, TypeInv, RunPCs
<1>3. TypeInv'
  BY <1>1, <1>2 DEF TypeInv, Tasks, At
<1>4. CountInv'
  BY <1>1, <1>2 DEF CountInv, Holders, HasOrder, Tasks
<1>5. StageInv'
  BY <1>1, <1>2 DEF StageInv, Tasks, At, Early
<1>6. SoloInv'
  BY <1>1, <1>2, HandlerSolo DEF Early
<1> QED BY <1>3, <1>4, <1>5, <1>6

(* A result in the channel is counted. *)
LEMMA DrainStep ==
    ASSUME Inv, Drain
    PROVE  Inv'
<1> USE DEF Inv
<1>1. /\ UNCHANGED <<req, jobs, worker, requests, responses, engine, book, otherBooks, disturbed>>
      /\ run.pc = "drain" /\ results # <<>> /\ results' = Tail(results)
      /\ run' = IF Head(results) THEN [run EXCEPT !.ok = @ + 1] ELSE [run EXCEPT !.failed = @ + 1]
  BY DEF Drain, sockets, shadowEngine
<1>2. /\ run' \in [pc: RunPCs, sent: 0..req.total_orders, ok: Nat, failed: Nat, shadow: BOOLEAN]
      /\ run'.pc = "drain" /\ run'.sent = run.sent /\ run'.shadow = run.shadow
      /\ run'.ok + run'.failed = run.ok + run.failed + 1
      /\ Head(results) => run'.failed = run.failed
  <2>1. run.ok + 1 \in Nat /\ run.failed + 1 \in Nat
    BY RunFacts
  <2>2. \/ run' = [run EXCEPT !.ok = @ + 1]
        \/ run' = [run EXCEPT !.failed = @ + 1] /\ ~Head(results)
    BY <1>1, Zenon
  <2>3. run \in [pc: RunPCs, sent: 0..req.total_orders, ok: Nat, failed: Nat, shadow: BOOLEAN]
    BY DEF TypeInv
  <2>4. CASE run' = [run EXCEPT !.ok = @ + 1]
    <3>1. run' \in [pc: RunPCs, sent: 0..req.total_orders, ok: Nat, failed: Nat, shadow: BOOLEAN]
      BY <2>1, <2>3, <2>4
    <3>2. /\ run'.pc = run.pc /\ run'.sent = run.sent /\ run'.shadow = run.shadow
          /\ run'.ok = run.ok + 1 /\ run'.failed = run.failed
      BY <2>3, <2>4
    <3>3. run'.ok + run'.failed = run.ok + run.failed + 1
      BY <3>2, RunFacts
    <3> QED BY <1>1, <3>1, <3>2, <3>3, Zenon
  <2>5. CASE run' = [run EXCEPT !.failed = @ + 1] /\ ~Head(results)
    <3>1. run' \in [pc: RunPCs, sent: 0..req.total_orders, ok: Nat, failed: Nat, shadow: BOOLEAN]
      BY <2>1, <2>3, <2>5
    <3>2. /\ run'.pc = run.pc /\ run'.sent = run.sent /\ run'.shadow = run.shadow
          /\ run'.ok = run.ok /\ run'.failed = run.failed + 1
      BY <2>3, <2>5
    <3>3. run'.ok + run'.failed = run.ok + run.failed + 1
      BY <3>2, RunFacts
    <3> QED BY <1>1, <2>5, <3>1, <3>2, <3>3, Zenon
  <2> QED BY <2>2, <2>4, <2>5
<1>3. /\ results' \in Seq(BOOLEAN) /\ Len(results') = Len(results) - 1 /\ Len(results') <= ChanSize
      /\ \A i \in 1..Len(results') : i + 1 \in 1..Len(results) /\ results'[i] = results[i + 1]
      /\ 1 \in 1..Len(results) /\ Head(results) = results[1]
  <2>1. results \in Seq(BOOLEAN) /\ Len(results) <= ChanSize /\ ChanSize \in Nat
    BY SizesAssumption DEF TypeInv
  <2>2. /\ results' \in Seq(BOOLEAN) /\ Len(results') = Len(results) - 1 /\ Len(results) \in Nat
        /\ 1 \in 1..Len(results) /\ Head(results) = results[1]
        /\ \A i \in 1..Len(results') : i + 1 \in 1..Len(results) /\ results'[i] = results[i + 1]
    BY <1>1, <2>1, TailFacts, Zenon
  <2>3. Len(results') <= ChanSize
    BY <2>1, <2>2
  <2> QED BY <2>2, <2>3
<1>4. TypeInv'
  BY <1>1, <1>2, <1>3 DEF TypeInv, Tasks, At
<1>5. CountInv'
  <2>1. Cardinality(Holders)' = Cardinality(Holders) /\ Cardinality(Holders) \in Nat
    BY <1>1, HoldersFinite DEF Holders, HasOrder, Tasks
  <2>2. run'.ok \in Nat /\ run'.failed \in Nat
    BY <1>2
  <2>3. /\ run'.sent = run.sent /\ run'.ok + run'.failed = run.ok + run.failed + 1
        /\ Len(jobs') = Len(jobs) /\ Len(results') = Len(results) - 1
    BY <1>1, <1>2, <1>3
  <2>4. run.sent = Len(jobs) + Cardinality(Holders) + (Len(results) - 1) + (run.ok + run.failed + 1)
    BY <2>1, RunFacts DEF CountInv
  <2>5. run'.sent = Len(jobs') + Cardinality(Holders)' + Len(results') + (run'.ok + run'.failed)
    BY <2>1, <2>3, <2>4
  <2>6. Len(jobs') + Cardinality(Holders)' + Len(results') \in Int
    BY <2>1, <2>3, RunFacts
  <2> QED BY <2>2, <2>5, <2>6 DEF CountInv
<1>6. StageInv'
  BY <1>1, <1>2 DEF StageInv, Tasks, At, Early
<1>7. SoloInv'
  BY <1>1, <1>2, <1>3, HandlerSolo DEF Early
<1> QED BY <1>4, <1>5, <1>6, <1>7

----------------------------------------------------------------------------
(* The workers                                                             *)

(* What a step of a worker keeps of the handler's stages. *)
LEMMA WorkerStage ==
    ASSUME TypeInv, StageInv, NEW w \in Tasks, ~At(w, "unspawned"), ~At(w, "ended"),
           UNCHANGED <<req, run, engine>>,
           \A v \in Tasks \ {w} : worker'[v] = worker[v],
           ~At(w, "ended")' \/ (jobs = <<>> /\ run.pc = "join"),
           jobs = <<>> => jobs' = <<>>
    PROVE  StageInv'
<1>1. run.pc \notin Early /\ run.pc \notin {"drain", "done"}
  BY PastStart DEF StageInv
<1> QED BY <1>1 DEF StageInv, Tasks, At

(* A worker is connected, and has nothing under way. *)
LEMMA ConnectStep ==
    ASSUME Inv, NEW w \in Tasks, Connect(w)
    PROVE  Inv'
<1> USE DEF Inv
<1>1. /\ UNCHANGED <<req, run, jobs, results, requests, responses, engine, book, otherBooks, disturbed>>
      /\ worker[w].pc = "connecting" /\ Becomes(w, Task("recv"))
  BY DEF Connect, sockets, shadowEngine, At
<1>2. Task("recv") \in TaskRec /\ Task("recv").pc = "recv"
  BY TaskFacts DEF TaskPCs
<1>3. /\ worker' \in [Tasks -> TaskRec] /\ worker'[w].pc = "recv"
      /\ \A v \in Tasks \ {w} : worker'[v] = worker[v]
  BY <1>1, <1>2, BecomesShape
<1>4. TypeInv'
  BY <1>1, <1>3 DEF TypeInv, Tasks, At
<1>5. CountInv'
  <2>1. Cardinality(Holders)' = Cardinality(Holders)
    BY <1>1, <1>3, HolderSame DEF HasOrder
  <2> QED BY <1>1, <2>1 DEF CountInv
<1>6. StageInv'
  BY <1>1, <1>3, WorkerStage DEF At
<1>7. SoloInv'
  <2> SUFFICES ASSUME Undisturbed' PROVE SoloInv'
    BY DEF SoloInv
  <2>1. Undisturbed /\ w = 1
    BY <1>1, TasksFacts DEF Undisturbed
  <2> QED BY <1>1, <1>3, <2>1 DEF SoloInv, Between, At
<1> QED BY <1>4, <1>5, <1>6, <1>7

(* A worker takes a job and writes it to the engine. *)
LEMMA SendOrderStep ==
    ASSUME Inv, NEW w \in Tasks, SendOrder(w)
    PROVE  Inv'
<1> USE DEF Inv
<1> DEFINE o == Head(jobs)
           t == [Task("read") EXCEPT !.order = Head(jobs)]
<1>1. /\ UNCHANGED <<req, run, results, responses, engine, book, otherBooks, disturbed>>
      /\ worker[w].pc = "recv" /\ jobs # <<>> /\ jobs' = Tail(jobs) /\ Becomes(w, t)
      /\ requests' = [requests EXCEPT ![w] = Append(@, o)]
  BY DEF SendOrder, shadowEngine, At
<1>2. jobs \in Seq(Order) /\ Len(jobs) <= ChanSize /\ ChanSize \in Nat
  BY SizesAssumption DEF TypeInv
<1>3. /\ jobs' \in Seq(Order) /\ Len(jobs') = Len(jobs) - 1 /\ Len(jobs) \in Nat /\ Len(jobs') <= ChanSize
      /\ o \in Order
  BY <1>1, <1>2, TailFacts
<1>4. t \in TaskRec /\ t.pc = "read" /\ t.order = o
  <2>1. Task("read") \in TaskRec /\ Task("read").pc = "read"
    BY TaskFacts DEF TaskPCs
  <2> QED BY <1>3, <2>1 DEF TaskRec
<1> HIDE DEF t, o
<1>5. /\ worker' \in [Tasks -> TaskRec] /\ worker'[w].pc = "read" /\ worker'[w].order = o
      /\ \A v \in Tasks \ {w} : worker'[v] = worker[v]
  BY <1>1, <1>4, BecomesShape
<1>6. /\ requests' \in [Tasks -> Seq(Order)]
      /\ requests[w] = <<>> => requests'[w] = <<o>>
  <2>1. requests \in [Tasks -> Seq(Order)]
    BY DEF TypeInv
  <2>2. Append(requests[w], o) \in Seq(Order)
    BY <1>3, <2>1, AppendFacts
  <2>3. requests' \in [Tasks -> Seq(Order)] /\ requests'[w] = Append(requests[w], o)
    BY <1>1, <2>1, <2>2
  <2>4. Append(<<>>, o) = <<o>>
    OBVIOUS
  <2> QED BY <2>3, <2>4
<1>7. TypeInv'
  BY <1>1, <1>3, <1>5, <1>6 DEF TypeInv, Tasks, At
<1>8. CountInv'
  <2>1. Cardinality(Holders)' = Cardinality(Holders) + 1 /\ Cardinality(Holders) \in Nat
    BY <1>1, <1>5, HolderMore, HoldersFinite DEF HasOrder
  <2> QED BY <1>1, <1>3, <2>1, RunFacts DEF CountInv
<1>9. StageInv'
  BY <1>1, <1>5, WorkerStage DEF At
<1>10. SoloInv'
  <2> SUFFICES ASSUME Undisturbed' PROVE SoloInv'
    BY DEF SoloInv
  <2>1. Undisturbed /\ w = 1
    BY <1>1, TasksFacts DEF Undisturbed
  <2>2. Between
    BY <1>1, <2>1 DEF SoloInv, At
  <2>3. Written'
    BY <1>1, <1>5, <1>6, <2>1, <2>2 DEF Between, Written, At
  <2> QED BY <1>1, <1>5, <2>1, <2>3 DEF SoloInv, At
<1> QED BY <1>7, <1>8, <1>9, <1>10

(* A verdict in a run that has met a fault: the count goes on. *)
LEMMA FaultStep ==
    ASSUME Inv, NEW w \in Tasks, HasOrder(w), Verdict(w, FALSE), disturbed' = TRUE,
           UNCHANGED <<req, run, jobs, results, engine, requests, otherBooks>>,
           responses' \in [Tasks -> Seq(Seq(Nat))],
           book' \in [open: BOOLEAN, seen: Seq(1..MaxTotal)]
    PROVE  Inv'
<1> USE DEF Inv
<1> DEFINE t == [Task("report") EXCEPT !.good = FALSE]
<1>1. t \in TaskRec /\ t.pc = "report" /\ Becomes(w, t)
  BY VerdictFacts DEF Verdict
<1> HIDE DEF t
<1>2. /\ worker' \in [Tasks -> TaskRec] /\ worker'[w].pc = "report"
      /\ \A v \in Tasks \ {w} : worker'[v] = worker[v]
  BY <1>1, BecomesShape
<1>3. TypeInv'
  BY <1>2 DEF TypeInv, Tasks, At
<1>4. CountInv'
  <2>1. Cardinality(Holders)' = Cardinality(Holders)
    BY <1>2, HolderSame DEF HasOrder
  <2> QED BY <2>1 DEF CountInv
<1>5. StageInv'
  BY <1>2, WorkerStage DEF At, HasOrder
<1>6. SoloInv'
  BY DEF SoloInv, Undisturbed
<1> QED BY <1>3, <1>4, <1>5, <1>6

(* A failed write is a failure of its order, and a disturbance. *)
LEMMA WriteFailsStep ==
    ASSUME Inv, NEW w \in Tasks, WriteFails(w)
    PROVE  Inv'
<1> USE DEF Inv
<1> DEFINE t == [Task("report") EXCEPT !.good = FALSE]
<1>1. /\ UNCHANGED <<req, run, results, requests, responses, engine, book, otherBooks>> /\ disturbed' = TRUE
      /\ worker[w].pc = "recv" /\ jobs # <<>> /\ jobs' = Tail(jobs) /\ Becomes(w, t)
  BY DEF WriteFails, shadowEngine, sockets, At, Verdict
<1>2. jobs \in Seq(Order) /\ Len(jobs) <= ChanSize /\ ChanSize \in Nat
  BY SizesAssumption DEF TypeInv
<1>3. jobs' \in Seq(Order) /\ Len(jobs') = Len(jobs) - 1 /\ Len(jobs) \in Nat /\ Len(jobs') <= ChanSize
  BY <1>1, <1>2, TailFacts
<1>4. t \in TaskRec /\ t.pc = "report"
  BY VerdictFacts
<1> HIDE DEF t
<1>5. /\ worker' \in [Tasks -> TaskRec] /\ worker'[w].pc = "report"
      /\ \A v \in Tasks \ {w} : worker'[v] = worker[v]
  BY <1>1, <1>4, BecomesShape
<1>6. TypeInv'
  BY <1>1, <1>3, <1>5 DEF TypeInv, Tasks, At
<1>7. CountInv'
  <2>1. Cardinality(Holders)' = Cardinality(Holders) + 1 /\ Cardinality(Holders) \in Nat
    BY <1>1, <1>5, HolderMore, HoldersFinite DEF HasOrder
  <2> QED BY <1>1, <1>3, <2>1, RunFacts DEF CountInv
<1>8. StageInv'
  BY <1>1, <1>5, WorkerStage DEF At
<1>9. SoloInv'
  BY <1>1 DEF SoloInv, Undisturbed
<1> QED BY <1>6, <1>7, <1>8, <1>9

(* The timeouts and errors of an order that was written. *)
LEMMA OrderFaultStep ==
    ASSUME Inv, NEW w \in Tasks, ReadPart(w) \/ ReadFails(w) \/ CompareFails(w)
    PROVE  Inv'
<1> USE DEF Inv
<1>1. /\ UNCHANGED <<req, run, jobs, results, engine, requests, otherBooks>>
      /\ HasOrder(w) /\ Verdict(w, FALSE) /\ disturbed' = TRUE
  BY DEF ReadPart, ReadFails, CompareFails, sockets, shadowEngine, At, HasOrder
<1>2. responses' \in [Tasks -> Seq(Seq(Nat))]
  <2>1. CASE ReadPart(w)
    <3>1. responses \in [Tasks -> Seq(Seq(Nat))] /\ Rest \in Seq(Nat)
      BY DEF TypeInv, Rest
    <3>2. /\ responses' = [responses EXCEPT ![w][1] = Rest]
          /\ responses[w] \in Seq(Seq(Nat)) /\ responses[w] # <<>>
      BY <2>1, <3>1 DEF ReadPart
    <3>3. [responses[w] EXCEPT ![1] = Rest] \in Seq(Seq(Nat))
      BY <3>1, <3>2
    <3> QED BY <3>1, <3>2, <3>3
  <2>2. CASE ReadFails(w) \/ CompareFails(w)
    BY <2>2 DEF ReadFails, CompareFails, sockets, TypeInv
  <2> QED BY <2>1, <2>2
<1>3. book' \in [open: BOOLEAN, seen: Seq(1..MaxTotal)]
  <2>1. book \in [open: BOOLEAN, seen: Seq(1..MaxTotal)]
    BY DEF TypeInv
  <2>2. CASE CompareFails(w)
    <3>1. worker[w].order \in Order
      BY <2>2 DEF CompareFails, TypeInv
    <3>2. BookAfter(worker[w].order) \in [open: BOOLEAN, seen: Seq(1..MaxTotal)]
      BY <2>1, <3>1 DEF BookAfter, Order
    <3> QED BY <2>1, <2>2, <3>2 DEF CompareFails
  <2>3. CASE ReadPart(w) \/ ReadFails(w)
    BY <2>1, <2>3 DEF ReadPart, ReadFails, shadowEngine
  <2> QED BY <2>2, <2>3
<1> QED BY <1>1, <1>2, <1>3, FaultStep

(* The channel is closed and empty. *)
LEMMA JobsClosedStep ==
    ASSUME Inv, NEW w \in Tasks, JobsClosed(w)
    PROVE  Inv'
<1> USE DEF Inv
<1>1. /\ UNCHANGED <<req, run, jobs, results, engine, book, otherBooks, disturbed>>
      /\ worker[w].pc = "recv" /\ jobs = <<>> /\ run.pc = "join" /\ Becomes(w, Task("ended"))
      /\ requests' = [requests EXCEPT ![w] = <<>>] /\ responses' = [responses EXCEPT ![w] = <<>>]
  BY DEF JobsClosed, shadowEngine, At
<1>2. Task("ended") \in TaskRec /\ Task("ended").pc = "ended"
  BY TaskFacts DEF TaskPCs
<1>3. /\ worker' \in [Tasks -> TaskRec] /\ worker'[w].pc = "ended"
      /\ \A v \in Tasks \ {w} : worker'[v] = worker[v]
  BY <1>1, <1>2, BecomesShape
<1>4. /\ requests' \in [Tasks -> Seq(Order)] /\ requests'[w] = <<>>
      /\ responses' \in [Tasks -> Seq(Seq(Nat))] /\ responses'[w] = <<>>
  BY <1>1 DEF TypeInv
<1>5. TypeInv'
  BY <1>1, <1>3, <1>4 DEF TypeInv, Tasks, At
<1>6. CountInv'
  <2>1. Cardinality(Holders)' = Cardinality(Holders)
    BY <1>1, <1>3, HolderSame DEF HasOrder
  <2> QED BY <1>1, <2>1 DEF CountInv
<1>7. StageInv'
  BY <1>1, <1>3, WorkerStage DEF At
<1>8. SoloInv'
  <2> SUFFICES ASSUME Undisturbed' PROVE SoloInv'
    BY DEF SoloInv
  <2>1. Undisturbed /\ w = 1
    BY <1>1, TasksFacts DEF Undisturbed
  <2> QED BY <1>1, <1>3, <1>4, <2>1 DEF SoloInv, Between, At
<1> QED BY <1>5, <1>6, <1>7, <1>8

(* What a correct engine answers is a list of trades, and never the rest   *)
(* of an answer.                                                           *)
LEMMA TradesFacts ==
    ASSUME NEW seen \in Seq(1..MaxTotal), NEW order \in Order
    PROVE  Trades(seen, order) \in Seq(Nat) /\ Trades(seen, order) # Rest
<1>1. order.n \in 1..MaxTotal /\ MaxTotal \in Nat
  BY RequestAssumption DEF Order
<1>2. CASE order.trades
  <2>1. Trades(seen, order) = Append(seen, order.n)
    BY <1>2 DEF Trades
  <2>2. seen \in Seq(Nat) /\ order.n \in Nat /\ order.n # 0
    BY <1>1
  <2>3. Append(seen, order.n) \in Seq(Nat) /\ Append(seen, order.n)[Len(seen) + 1] = order.n
        /\ Len(Append(seen, order.n)) = Len(seen) + 1 /\ Len(seen) \in Nat
    BY <2>2, AppendFacts
  <2>4. Rest[1] = 0 /\ Len(Rest) = 1
    BY DEF Rest
  <2>5. Append(seen, order.n) # Rest
    BY <2>2, <2>3, <2>4
  <2> QED BY <2>1, <2>3, <2>5
<1>3. CASE ~order.trades
  <2>1. Trades(seen, order) = <<>>
    BY <1>3 DEF Trades
  <2> QED BY <2>1 DEF Rest
<1> QED BY <1>2, <1>3

(* The contestant handles a line. *)
LEMMA EngineAnswersStep ==
    ASSUME Inv, NEW w \in Tasks, EngineAnswers(w)
    PROVE  Inv'
<1> USE DEF Inv
<1> DEFINE o == Head(requests[w])
           a == Trades(engine, o)
<1>1. /\ UNCHANGED <<req, run, jobs, results, worker, book, otherBooks, disturbed>>
      /\ requests[w] # <<>> /\ engine' = Append(engine, o.n)
      /\ responses' = [responses EXCEPT ![w] = Append(@, a)]
      /\ requests' = [requests EXCEPT ![w] = Tail(@)]
  BY DEF EngineAnswers, shadowEngine
<1>2. /\ requests \in [Tasks -> Seq(Order)] /\ responses \in [Tasks -> Seq(Seq(Nat))]
      /\ engine \in Seq(1..MaxTotal)
  BY DEF TypeInv
<1>3. o \in Order /\ Tail(requests[w]) \in Seq(Order)
  BY <1>1, <1>2, TailFacts
<1>4. a \in Seq(Nat) /\ Append(responses[w], a) \in Seq(Seq(Nat))
  BY <1>2, <1>3, TradesFacts, AppendFacts
<1>5. o.n \in 1..MaxTotal /\ engine' \in Seq(1..MaxTotal)
  BY <1>1, <1>2, <1>3, AppendFacts DEF Order
<1>6. /\ requests' \in [Tasks -> Seq(Order)] /\ requests'[w] = Tail(requests[w])
      /\ responses' \in [Tasks -> Seq(Seq(Nat))] /\ responses'[w] = Append(responses[w], a)
  BY <1>1, <1>2, <1>3, <1>4
<1>7. run.pc \notin Early
  BY <1>1, PastStart
<1>8. TypeInv'
  BY <1>1, <1>5, <1>6 DEF TypeInv, Tasks, At
<1>9. CountInv'
  BY <1>1 DEF CountInv, Holders, HasOrder, Tasks
<1>10. StageInv'
  BY <1>1, <1>7 DEF StageInv, Tasks, At
<1>11. SoloInv'
  <2> SUFFICES ASSUME Undisturbed' PROVE SoloInv'
    BY DEF SoloInv
  <2>1. Undisturbed /\ w = 1
    BY <1>1, TasksFacts DEF Undisturbed
  <2>2. Written
    BY <1>1, <2>1 DEF SoloInv, Between, Behind, Answered, ReadBack
  <2>3. o = worker[1].order /\ Tail(requests[w]) = <<>> /\ book.seen = engine /\ responses[w] = <<>>
    BY <2>1, <2>2 DEF Written
  <2>4. Append(responses[w], a) = <<a>>
    BY <2>3
  <2>5. Answered'
    BY <1>1, <1>6, <2>1, <2>2, <2>3, <2>4 DEF Written, Answered, Behind, At, Trades
  <2> QED BY <1>1, <2>1, <2>5 DEF SoloInv, Answered, At
<1> QED BY <1>8, <1>9, <1>10, <1>11

(* An answer is read. *)
LEMMA ReadAnswerStep ==
    ASSUME Inv, NEW w \in Tasks, ReadAnswer(w)
    PROVE  Inv'
<1> USE DEF Inv
<1> DEFINE a == Head(responses[w])
           t == [worker[w] EXCEPT !.pc = "compare", !.answer = Head(responses[w])]
<1>1. /\ UNCHANGED <<req, run, jobs, results, requests, engine, book, otherBooks, disturbed>>
      /\ worker[w].pc = "read" /\ responses[w] # <<>> /\ Becomes(w, t)
      /\ responses' = [responses EXCEPT ![w] = Tail(@)]
  BY DEF ReadAnswer, shadowEngine, At
<1>2. responses \in [Tasks -> Seq(Seq(Nat))] /\ worker[w] \in TaskRec /\ worker[w].order \in Order
  BY <1>1 DEF TypeInv, At
<1>3. a \in Seq(Nat) /\ Tail(responses[w]) \in Seq(Seq(Nat))
  BY <1>1, <1>2, TailFacts
<1>4. t \in TaskRec /\ t.pc = "compare" /\ t.answer = a /\ t.order = worker[w].order
  BY <1>2, <1>3 DEF TaskRec, TaskPCs
<1> HIDE DEF t, a
<1>5. /\ worker' \in [Tasks -> TaskRec]
      /\ worker'[w].pc = "compare" /\ worker'[w].order = worker[w].order /\ worker'[w].answer = a
      /\ \A v \in Tasks \ {w} : worker'[v] = worker[v]
  BY <1>1, <1>4, BecomesShape
<1>6. responses' \in [Tasks -> Seq(Seq(Nat))] /\ responses'[w] = Tail(responses[w])
  BY <1>1, <1>2, <1>3
<1>7. TypeInv'
  BY <1>1, <1>2, <1>5, <1>6 DEF TypeInv, Tasks, At
<1>8. CountInv'
  <2>1. Cardinality(Holders)' = Cardinality(Holders)
    BY <1>1, <1>5, HolderSame DEF HasOrder
  <2> QED BY <1>1, <2>1 DEF CountInv
<1>9. StageInv'
  BY <1>1, <1>5, WorkerStage DEF At
<1>10. SoloInv'
  <2> SUFFICES ASSUME Undisturbed' PROVE SoloInv'
    BY DEF SoloInv
  <2>1. Undisturbed /\ w = 1
    BY <1>1, TasksFacts DEF Undisturbed
  <2>2. Answered
    BY <1>1, <2>1 DEF SoloInv, Written, At
  <2>3. a = Trades(book.seen, worker[1].order) /\ Tail(responses[w]) = <<>>
    BY <2>1, <2>2 DEF Answered, a
  <2>4. ReadBack'
    BY <1>1, <1>5, <1>6, <2>1, <2>2, <2>3 DEF Answered, ReadBack, Behind, At, Trades
  <2> QED BY <1>1, <1>5, <2>1, <2>4 DEF SoloInv, At
<1> QED BY <1>7, <1>8, <1>9, <1>10

(* What was read does not parse; one worker meets that only after a fault. *)
LEMMA ReadUnparsableStep ==
    ASSUME Inv, NEW w \in Tasks, ReadUnparsable(w)
    PROVE  Inv'
<1> USE DEF Inv
<1> DEFINE t == [Task("report") EXCEPT !.good = FALSE]
<1>1. /\ UNCHANGED <<req, run, jobs, results, requests, engine, book, otherBooks, disturbed>>
      /\ worker[w].pc = "read" /\ Becomes(w, t)
  BY DEF ReadUnparsable, shadowEngine, At, Verdict
<1>2. \/ responses[w] # <<>> /\ Head(responses[w]) = Rest /\ responses' = [responses EXCEPT ![w] = Tail(@)]
      \/ Len(responses[w]) > 1 /\ responses' = [responses EXCEPT ![w] = <<>>]
  BY DEF ReadUnparsable
<1>3. t \in TaskRec /\ t.pc = "report"
  BY VerdictFacts
<1> HIDE DEF t
<1>4. /\ worker' \in [Tasks -> TaskRec] /\ worker'[w].pc = "report"
      /\ \A v \in Tasks \ {w} : worker'[v] = worker[v]
  BY <1>1, <1>3, BecomesShape
<1>5. responses' \in [Tasks -> Seq(Seq(Nat))]
  <2>1. responses \in [Tasks -> Seq(Seq(Nat))] /\ <<>> \in Seq(Seq(Nat))
    BY DEF TypeInv
  <2>2. responses[w] # <<>> => Tail(responses[w]) \in Seq(Seq(Nat))
    BY <2>1, TailFacts
  <2> QED BY <1>2, <2>1, <2>2
<1>6. TypeInv'
  BY <1>1, <1>4, <1>5 DEF TypeInv, Tasks, At
<1>7. CountInv'
  <2>1. Cardinality(Holders)' = Cardinality(Holders)
    BY <1>1, <1>4, HolderSame DEF HasOrder
  <2> QED BY <1>1, <2>1 DEF CountInv
<1>8. StageInv'
  BY <1>1, <1>4, WorkerStage DEF At
<1>9. SoloInv'
  <2> SUFFICES ASSUME Undisturbed' PROVE FALSE
    BY DEF SoloInv
  <2>1. Undisturbed /\ w = 1
    BY <1>1, TasksFacts DEF Undisturbed
  <2>2. responses[1] \in {<<>>, <<Trades(book.seen, worker[1].order)>>}
    BY <1>1, <2>1 DEF SoloInv, Written, Answered, At
  <2>3. book.seen \in Seq(1..MaxTotal) /\ worker[1].order \in Order
    BY <1>1, <2>1 DEF TypeInv, At
  <2>4. Trades(book.seen, worker[1].order) # Rest
    BY <2>3, TradesFacts
  <2> DEFINE a == Trades(book.seen, worker[1].order)
  <2> HIDE DEF a
  <2>5. Len(<<a>>) = 1 /\ Head(<<a>>) = a /\ ~(Len(<<>>) > 1)
    OBVIOUS
  <2>6. responses[w] \in {<<>>, <<a>>} /\ a # Rest
    BY <2>1, <2>2, <2>4 DEF a
  <2>7. (responses[w] # <<>> /\ Head(responses[w]) = Rest) \/ Len(responses[w]) > 1
    BY <1>2
  <2>8. CASE responses[w] = <<>>
    BY <2>5, <2>7, <2>8
  <2>9. CASE responses[w] = <<a>>
    BY <2>5, <2>6, <2>7, <2>9
  <2> QED BY <2>6, <2>8, <2>9
<1> QED BY <1>6, <1>7, <1>8, <1>9

(* The two answers are compared. *)
LEMMA CompareStep ==
    ASSUME Inv, NEW w \in Tasks, Compare(w)
    PROVE  Inv'
<1> USE DEF Inv
<1>1. /\ UNCHANGED <<req, run, jobs, results, requests, responses, engine, otherBooks, disturbed>>
      /\ worker[w].pc = "compare"
  BY DEF Compare, sockets, At
<1>2. PICK good \in BOOLEAN :
          /\ Verdict(w, good)
          /\ run.shadow => /\ good <=> Trades(book.seen, worker[w].order) = worker[w].answer
                           /\ book' = BookAfter(worker[w].order)
          /\ ~run.shadow => book' = book
  BY DEF Compare
<1> DEFINE t == [Task("report") EXCEPT !.good = good]
<1>3. t \in TaskRec /\ t.pc = "report" /\ t.good = good /\ Becomes(w, t)
  BY <1>2, VerdictFacts DEF Verdict
<1> HIDE DEF t
<1>4. /\ worker' \in [Tasks -> TaskRec] /\ worker'[w].pc = "report" /\ worker'[w].good = good
      /\ \A v \in Tasks \ {w} : worker'[v] = worker[v]
  BY <1>3, BecomesShape
<1>5. book \in [open: BOOLEAN, seen: Seq(1..MaxTotal)] /\ worker[w].order \in Order
  BY <1>1 DEF TypeInv, At
<1>6. /\ BookAfter(worker[w].order) \in [open: BOOLEAN, seen: Seq(1..MaxTotal)]
      /\ BookAfter(worker[w].order).open
      /\ BookAfter(worker[w].order).seen = Append(book.seen, worker[w].order.n)
  BY <1>5 DEF BookAfter, Order
<1>7. TypeInv'
  <2>1. book' \in [open: BOOLEAN, seen: Seq(1..MaxTotal)]
    BY <1>2, <1>5, <1>6
  <2> QED BY <1>1, <1>4, <2>1 DEF TypeInv, Tasks, At
<1>8. CountInv'
  <2>1. Cardinality(Holders)' = Cardinality(Holders)
    BY <1>1, <1>4, HolderSame DEF HasOrder
  <2> QED BY <1>1, <2>1 DEF CountInv
<1>9. StageInv'
  BY <1>1, <1>4, WorkerStage DEF At
<1>10. SoloInv'
  <2> SUFFICES ASSUME Undisturbed' PROVE SoloInv'
    BY DEF SoloInv
  <2>1. Undisturbed /\ w = 1
    BY <1>1, TasksFacts DEF Undisturbed
  <2>2. ReadBack /\ run.shadow
    BY <1>1, <2>1 DEF SoloInv, At
  <2>3. good /\ book' = BookAfter(worker[w].order)
    BY <1>2, <2>1, <2>2 DEF ReadBack
  <2>4. Between' /\ book'.open
    BY <1>1, <1>6, <2>1, <2>2, <2>3 DEF ReadBack, Behind, Between
  <2> QED BY <1>1, <1>4, <2>1, <2>2, <2>3, <2>4 DEF SoloInv, At
<1> QED BY <1>7, <1>8, <1>9, <1>10

(* A verdict goes to the handler. *)
LEMMA ReportStep ==
    ASSUME Inv, NEW w \in Tasks, Report(w)
    PROVE  Inv'
<1> USE DEF Inv
<1>1. /\ UNCHANGED <<req, run, jobs, requests, responses, engine, book, otherBooks, disturbed>>
      /\ worker[w].pc = "report" /\ Len(results) < ChanSize
      /\ results' = Append(results, worker[w].good) /\ Becomes(w, Task("recv"))
  BY DEF Report, sockets, shadowEngine, At
<1>2. Task("recv") \in TaskRec /\ Task("recv").pc = "recv"
  BY TaskFacts DEF TaskPCs
<1>3. /\ worker' \in [Tasks -> TaskRec] /\ worker'[w].pc = "recv"
      /\ \A v \in Tasks \ {w} : worker'[v] = worker[v]
  BY <1>1, <1>2, BecomesShape
<1>4. worker[w].good \in BOOLEAN /\ results \in Seq(BOOLEAN)
  BY DEF TypeInv, TaskRec
<1>5. /\ results' \in Seq(BOOLEAN) /\ Len(results') = Len(results) + 1 /\ Len(results) \in Nat
      /\ results'[Len(results) + 1] = worker[w].good
      /\ \A i \in 1..Len(results) : results'[i] = results[i]
  <2> DEFINE g == worker[w].good
  <2>1. g \in BOOLEAN /\ results' = Append(results, g)
    BY <1>1, <1>4, Zenon
  <2> HIDE DEF g
  <2>2. /\ Append(results, g) \in Seq(BOOLEAN) /\ Len(Append(results, g)) = Len(results) + 1
        /\ Len(results) \in Nat /\ Append(results, g)[Len(results) + 1] = g
        /\ \A i \in 1..Len(results) : Append(results, g)[i] = results[i]
    BY <1>4, <2>1, AppendFacts
  <2> QED BY <2>1, <2>2, Zenon DEF g
<1>6. Len(results') <= ChanSize /\ 1..Len(results') = 1..Len(results) \cup {Len(results) + 1}
  BY <1>1, <1>5, SizesAssumption
<1>7. TypeInv'
  BY <1>1, <1>3, <1>5, <1>6 DEF TypeInv, Tasks, At
<1>8. CountInv'
  <2>1. Cardinality(Holders)' = Cardinality(Holders) - 1 /\ Cardinality(Holders) \in Nat
    BY <1>1, <1>3, HolderLess, HoldersFinite DEF HasOrder
  <2>2. run' = run /\ Len(jobs') = Len(jobs)
    BY <1>1
  <2>3. Cardinality(Holders)' + Len(results') = Cardinality(Holders) + Len(results)
    BY <1>5, <2>1
  <2>4. run.sent = Len(jobs) + (Cardinality(Holders) + Len(results)) + run.ok + run.failed
    BY <2>1, RunFacts DEF CountInv
  <2>5. run.sent = Len(jobs) + (Cardinality(Holders)' + Len(results')) + run.ok + run.failed
    BY <2>3, <2>4
  <2>6. Cardinality(Holders)' \in Int /\ Len(results') \in Int
    BY <1>5, <2>1
  <2> QED BY <2>2, <2>5, <2>6, RunFacts DEF CountInv
<1>9. StageInv'
  BY <1>1, <1>3, WorkerStage DEF At
<1>10. SoloInv'
  <2> SUFFICES ASSUME Undisturbed' PROVE SoloInv'
    BY DEF SoloInv
  <2>1. Undisturbed /\ w = 1
    BY <1>1, TasksFacts DEF Undisturbed
  <2>2. /\ Between /\ worker[1].good /\ run.failed = 0 /\ run.shadow /\ book.open
        /\ \A i \in 1..Len(results) : results[i]
    BY <1>1, <2>1 DEF SoloInv, At
  <2>3. \A i \in 1..Len(results') : results'[i]
    BY <1>5, <1>6, <2>1, <2>2, Zenon
  <2>4. Between'
    BY <1>1, <2>2 DEF Between
  <2>5. run'.failed = 0 /\ run'.shadow /\ book'.open /\ worker'[1].pc = "recv"
    BY <1>1, <1>3, <2>1, <2>2
  <2> QED BY <2>3, <2>4, <2>5 DEF SoloInv, At
<1> QED BY <1>7, <1>8, <1>9, <1>10

----------------------------------------------------------------------------
(* Other submissions, and the invariant                                    *)

(* Another submission starts its book: a run that loses its own is         *)
(* disturbed.                                                              *)
LEMMA OtherStartsBookStep ==
    ASSUME Inv, OtherStartsBook
    PROVE  Inv'
<1> USE DEF Inv
<1>1. UNCHANGED <<req, run, jobs, results, worker, requests, responses, engine>>
  BY DEF OtherStartsBook, sockets
<1>2. /\ book' \in [open: BOOLEAN, seen: Seq(1..MaxTotal)] /\ disturbed' \in BOOLEAN
      /\ ~disturbed' /\ book.open => ~disturbed /\ book' = book
      /\ disturbed => disturbed'
  <2>1. book \in [open: BOOLEAN, seen: Seq(1..MaxTotal)] /\ NoBook \in [open: BOOLEAN, seen: Seq(1..MaxTotal)]
    BY DEF TypeInv, NoBook
  <2>2. disturbed \in BOOLEAN /\ book.open \in BOOLEAN
    BY DEF TypeInv
  <2>3. \/ book' = NoBook /\ disturbed' = (disturbed \/ book.open)
        \/ UNCHANGED <<book, disturbed>>
    BY DEF OtherStartsBook
  <2> QED BY <2>1, <2>2, <2>3
<1>3. otherBooks' \in 0..MaxBooks + 1
  <2>1. otherBooks \in Nat /\ MaxBooks \in Nat /\ otherBooks <= MaxBooks + 1
    BY SizesAssumption DEF TypeInv
  <2>2. CASE BooksLen > MaxBooks
    <3>1. otherBooks' = 1
      BY <2>2 DEF OtherStartsBook
    <3> QED BY <2>1, <3>1
  <2>3. CASE ~(BooksLen > MaxBooks)
    <3>1. otherBooks' \in {otherBooks + 1, otherBooks}
      BY <2>3 DEF OtherStartsBook
    <3>2. BooksLen = otherBooks \/ BooksLen = otherBooks + 1
      BY <2>1 DEF BooksLen
    <3> QED BY <2>1, <2>3, <3>1, <3>2
  <2> QED BY <2>2, <2>3
<1>4. TypeInv'
  BY <1>1, <1>2, <1>3 DEF TypeInv, Tasks, At
<1>5. CountInv'
  BY <1>1 DEF CountInv, Holders, HasOrder, Tasks
<1>6. StageInv'
  BY <1>1 DEF StageInv, Tasks, At
<1>7. SoloInv'
  <2> SUFFICES ASSUME Undisturbed' PROVE SoloInv'
    BY DEF SoloInv
  <2>1. Undisturbed
    BY <1>1, <1>2 DEF Undisturbed
  <2>2. book' = book /\ disturbed' = disturbed
    BY <1>2, <2>1 DEF SoloInv, Undisturbed, TypeInv
  <2> QED BY <1>1, <2>1, <2>2 DEF SoloInv, Between, Written, Behind, Answered, ReadBack, At, Trades
<1> QED BY <1>4, <1>5, <1>6, <1>7

(* A run that has not begun. *)
LEMMA InitInv == Init => Inv
<1> SUFFICES ASSUME Init PROVE Inv
  OBVIOUS
<1>1. /\ req \in [total_orders: 1..MaxTotal, concurrency: 1..MaxTasks]
      /\ run = [pc |-> "called", sent |-> 0, ok |-> 0, failed |-> 0, shadow |-> FALSE]
      /\ jobs = <<>> /\ results = <<>> /\ engine = <<>> /\ otherBooks = 0 /\ disturbed = FALSE
      /\ worker = [w \in Tasks |-> Task("unspawned")]
      /\ requests = [w \in Tasks |-> <<>>] /\ responses = [w \in Tasks |-> <<>>]
      /\ book \in {NoBook, [open |-> TRUE, seen |-> <<1>>]}
  BY DEF Init
<1>2. Task("unspawned") \in TaskRec /\ Task("unspawned").pc = "unspawned"
  BY TaskFacts DEF TaskPCs
<1>3. run \in [pc: RunPCs, sent: 0..req.total_orders, ok: Nat, failed: Nat, shadow: BOOLEAN]
  <2>1. 0 \in 0..req.total_orders /\ "called" \in RunPCs
    BY <1>1, RequestAssumption DEF RunPCs
  <2> QED BY <1>1, <2>1
<1>4. book \in [open: BOOLEAN, seen: Seq(1..MaxTotal)]
  <2>1. <<1>> \in Seq(1..MaxTotal) /\ <<>> \in Seq(1..MaxTotal)
    BY RequestAssumption
  <2>2. NoBook \in [open: BOOLEAN, seen: Seq(1..MaxTotal)]
    BY DEF NoBook
  <2>3. [open |-> TRUE, seen |-> <<1>>] \in [open: BOOLEAN, seen: Seq(1..MaxTotal)]
    BY <2>1
  <2> QED BY <1>1, <2>2, <2>3
<1>5. TypeInv
  <2>1. jobs \in Seq(Order) /\ Len(jobs) = 0 /\ results \in Seq(BOOLEAN) /\ Len(results) = 0
    BY <1>1
  <2>2. 0 <= ChanSize /\ 0 \in 0..MaxBooks + 1
    BY SizesAssumption
  <2>3. worker \in [Tasks -> TaskRec] /\ \A w \in Tasks : ~At(w, "read") /\ ~At(w, "compare")
    BY <1>1, <1>2 DEF At
  <2>4. requests \in [Tasks -> Seq(Order)] /\ responses \in [Tasks -> Seq(Seq(Nat))]
    BY <1>1
  <2>5. engine \in Seq(1..MaxTotal)
    BY <1>1
  <2> QED BY <1>1, <1>3, <1>4, <2>1, <2>2, <2>3, <2>4, <2>5 DEF TypeInv
<1>6. CountInv
  <2>1. Holders = {}
    BY <1>1, <1>2 DEF Holders, HasOrder
  <2>2. Cardinality(Holders) = 0
    BY <2>1, FS_EmptySet
  <2> QED BY <1>1, <2>2 DEF CountInv
<1>7. StageInv
  BY <1>1, <1>2 DEF StageInv, At, Early
<1>8. SoloInv
  BY <1>1 DEF SoloInv, Undisturbed
<1> QED BY <1>5, <1>6, <1>7, <1>8 DEF Inv

(* A step that changes nothing. *)
LEMMA StutterInv == Inv /\ UNCHANGED vars => Inv'
<1> SUFFICES ASSUME Inv, UNCHANGED vars PROVE Inv'
  OBVIOUS
<1>1. UNCHANGED <<req, run, jobs, results, worker, requests, responses, engine, book, otherBooks, disturbed>>
  BY DEF vars, sockets, shadowEngine
<1>2. TypeInv' /\ StageInv'
  BY <1>1 DEF Inv, TypeInv, StageInv, Tasks, At
<1>3. CountInv'
  BY <1>1 DEF Inv, CountInv, Holders, HasOrder, Tasks
<1>4. SoloInv'
  BY <1>1 DEF Inv, SoloInv, Undisturbed, Between, Written, Behind, Answered, ReadBack, At, Trades
<1> QED BY <1>2, <1>3, <1>4 DEF Inv

(* Every step keeps the invariant. *)
LEMMA NextInv == Inv /\ [Next]_vars => Inv'
<1> SUFFICES ASSUME Inv, Next PROVE Inv'
  BY StutterInv
<1>1. CASE Acquire \/ Reject \/ Handler
  BY <1>1, AcquireStep, StartShadowStep, DispatchStep, DispatchDoneStep, DrainStep DEF Handler, HandlerRuns
<1>2. ASSUME NEW w \in Tasks, Connect(w) \/ WorkerStep(w) \/ EngineAnswers(w) PROVE Inv'
  <2>1. CASE Connect(w) \/ EngineAnswers(w)
    BY <2>1, ConnectStep, EngineAnswersStep
  <2>2. CASE SendOrder(w) \/ WriteFails(w) \/ JobsClosed(w)
    BY <2>2, SendOrderStep, WriteFailsStep, JobsClosedStep
  <2>3. CASE ReadPart(w) \/ ReadFails(w) \/ CompareFails(w)
    BY <2>3, OrderFaultStep
  <2>4. CASE ReadAnswer(w) \/ ReadUnparsable(w)
    BY <2>4, ReadAnswerStep, ReadUnparsableStep
  <2>5. CASE Compare(w) \/ Report(w)
    BY <2>5, CompareStep, ReportStep
  <2> QED BY <1>2, <2>1, <2>2, <2>3, <2>4, <2>5 DEF WorkerStep, WorkerRuns
<1>3. CASE OtherStartsBook
  BY <1>3, OtherStartsBookStep
<1> QED BY <1>1, <1>2, <1>3 DEF Next

(* Inv holds in every state of a run. *)
THEOREM InductiveInvariant == Spec => []Inv
BY InitInv, NextInv, PTL DEF Spec

(* Every order of a finished run is counted once, for any number of        *)
(* workers and orders, any channel capacity and any timeouts, and both     *)
(* channels keep their limits.                                             *)
THEOREM RunConsistentHolds == Spec => []RunConsistent
<1>1. Inv => RunConsistent
  <2> SUFFICES ASSUME Inv PROVE RunConsistent
    OBVIOUS
  <2> USE DEF Inv
  <2>1. Cardinality(Holders) \in Nat
    BY HoldersFinite
  <2>2. {run.sent, run.ok, run.failed} \subseteq 0..req.total_orders
    <3>1. run.ok <= run.sent /\ run.failed <= run.sent
      BY <2>1, RunFacts DEF CountInv
    <3> QED BY <3>1, RunFacts
  <2>3. TypeOK
    BY <2>2 DEF TypeInv, TypeOK, TaskRec, TaskPCs, RunPCs
  <2>4. ASSUME run.pc = "done" PROVE run.ok + run.failed = req.total_orders
    <3>1. results = <<>> /\ jobs = <<>> /\ run.sent = req.total_orders /\ \A w \in Tasks : At(w, "ended")
      BY <2>4, TasksFacts DEF StageInv
    <3>2. Holders = {}
      BY <3>1 DEF Holders, HasOrder, At
    <3>3. Cardinality(Holders) = 0
      BY <3>2, FS_EmptySet
    <3> QED BY <3>1, <3>3, RunFacts DEF CountInv
  <2> QED BY <2>3, <2>4 DEF RunConsistent, EveryOrderCounted
<1> QED BY <1>1, InductiveInvariant, PTL

(* One worker: the shadow book sees the orders as the engine did, and is   *)
(* behind by at most the order in progress.                                *)
THEOREM ShadowInStepHolds == Spec => []ShadowInStep
<1>1. Inv => ShadowInStep
  BY DEF Inv, SoloInv, ShadowInStep, Between, Written, Answered, ReadBack, Behind
<1> QED BY <1>1, InductiveInvariant, PTL

(* One worker: the benchmark counts no failure against a correct engine    *)
(* unless the run met a fault.                                             *)
THEOREM CorrectEngineScoresHolds == Spec => []CorrectEngineScores
<1>1. Inv => CorrectEngineScores
  BY DEF Inv, SoloInv, CorrectEngineScores
<1> QED BY <1>1, InductiveInvariant, PTL

============================================================================
