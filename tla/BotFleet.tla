------------------------------ MODULE BotFleet ------------------------------
(***************************************************************************)
(* One run of the bot fleet (services/bot-fleet): start_benchmark          *)
(* generates orders, worker tasks send each to the contestant's engine and *)
(* then to the shadow engine, compare the two answers and report; the      *)
(* handler counts the reports.  The runtime of the shadow engine           *)
(* (services/shadow-engine) keeps one book per submission, and other       *)
(* submissions start theirs at any time.                                   *)
(*                                                                         *)
(* The contestant is a CORRECT engine: it and the shadow book answer an    *)
(* order by the same function of the orders they have seen, so a mismatch  *)
(* is the benchmark's own doing.  An order is its number and whether it    *)
(* trades; a list of trades is empty, or stands for all the orders that    *)
(* led to it.                                                              *)
(***************************************************************************)
EXTENDS Naturals, Sequences

CONSTANTS
    MaxTotal,  \* MAX_TOTAL_ORDERS (1_000_000; the API asks for 1000)
    MaxTasks,  \* MAX_CONCURRENCY (10_000; the API asks for 1)
    ChanSize,  \* WORKER_CHANNEL_SIZE (4096)
    MaxBooks   \* books above which the shadow engine clears them (100)

ASSUME RequestAssumption == MaxTotal \in Nat \ {0} /\ MaxTasks \in Nat \ {0}
ASSUME SizesAssumption == ChanSize \in Nat \ {0} /\ MaxBooks \in Nat

VARIABLES
    req,         \* total_orders and concurrency of the request
    run,         \* the handler: where it is, orders sent, counts, shadow client
    jobs,        \* channel from the handler to the workers
    results,     \* channel from the workers to the handler
    worker,      \* worker[w]: a worker task
    requests,    \* requests[w]: lines written to the engine, not yet handled
    responses,   \* responses[w]: answers in the socket, not yet read
    engine,      \* numbers of the orders the contestant has handled
    book,        \* this submission's book in the shadow engine, if there is one
    otherBooks,  \* number of books of other submissions
    \* bookkeeping that no program variable holds
    disturbed    \* has the run met a fault: a timeout, a split read, a lost
                 \* call, a cleared book?

sockets == <<requests, responses>>
shadowEngine == <<book, otherBooks>>
vars == <<req, run, jobs, results, worker, sockets, engine, shadowEngine, disturbed>>

Tasks == 1..req.concurrency
Order == [n: 1..MaxTotal, trades: BOOLEAN]
NoOrder == [n |-> 0, trades |-> FALSE]
NoBook == [open |-> FALSE, seen |-> <<>>]
Task(pc) == [pc |-> pc, order |-> NoOrder, answer |-> <<>>, good |-> FALSE]

(* The request has passed validate_request (Reject is what happens to the  *)
(* others); the book is one of an earlier run of the submission, or none.  *)
Init ==
    /\ req \in [total_orders: 1..MaxTotal, concurrency: 1..MaxTasks]
    /\ run = [pc |-> "called", sent |-> 0, ok |-> 0, failed |-> 0, shadow |-> FALSE]
    /\ jobs = <<>>
    /\ results = <<>>
    /\ worker = [w \in Tasks |-> Task("unspawned")]
    /\ requests = [w \in Tasks |-> <<>>]
    /\ responses = [w \in Tasks |-> <<>>]
    /\ engine = <<>>
    /\ book \in {NoBook, [open |-> TRUE, seen |-> <<1>>]}
    /\ otherBooks = 0
    /\ disturbed = FALSE

----------------------------------------------------------------------------
(* start_benchmark: permit, validation, shadow engine *)

(* A permit becomes free: up to eight runs, other ones included, have one. *)
Acquire ==
    /\ run.pc = "called"
    /\ run' = [run EXCEPT !.pc = "shadow"]
    /\ UNCHANGED <<req, jobs, results, worker, sockets, engine, shadowEngine, disturbed>>

(* validate_request refuses: the handler returns, and with it the permit. *)
Reject ==
    /\ run.pc = "called"
    /\ run' = [run EXCEPT !.pc = "rejected"]
    /\ UNCHANGED <<req, jobs, results, worker, sockets, engine, shadowEngine, disturbed>>

BooksLen == otherBooks + (IF book.open THEN 1 ELSE 0)

\* Mutant of StartBook: the book of an earlier run is kept.
KeepBook ==
    /\ book' = [book EXCEPT !.open = TRUE]
    /\ otherBooks' = IF BooksLen > MaxBooks THEN 0 ELSE otherBooks
    /\ UNCHANGED disturbed

(* start_benchmark of the shadow engine: with more than MaxBooks books all *)
(* are cleared, then the submission gets a new one.                        *)
StartBook ==
    /\ book' = [open |-> TRUE, seen |-> <<>>]
    /\ otherBooks' = IF BooksLen > MaxBooks THEN 0 ELSE otherBooks
    /\ UNCHANGED disturbed

(* The same call for another submission, which may have had a book before. *)
OtherStartsBook ==
    /\ IF BooksLen > MaxBooks
       THEN /\ book' = NoBook
            /\ otherBooks' = 1
            /\ disturbed' = (disturbed \/ book.open)
       ELSE /\ otherBooks' \in {otherBooks + 1} \cup ({otherBooks} \ {0})
            /\ UNCHANGED <<book, disturbed>>
    /\ UNCHANGED <<req, run, jobs, results, worker, sockets, engine>>

(* The shadow engine is reached and starts a book, is not reached (None),  *)
(* or fails the call, which is only logged.  Then the workers are spawned. *)
StartShadow ==
    /\ run.pc = "shadow"
    /\ \E shadow \in BOOLEAN :
          /\ run' = [run EXCEPT !.pc = "dispatch", !.shadow = shadow]
          /\ \/ shadow /\ StartBook
             \/ disturbed' = TRUE /\ UNCHANGED shadowEngine
    /\ worker' = [w \in Tasks |-> Task("connecting")]
    /\ UNCHANGED <<req, jobs, results, sockets, engine>>

----------------------------------------------------------------------------
(* start_benchmark: dispatch, join, drain, publish *)

\* The order made for an index: its id is the next one, and whether it trades
\* is left open (a market order may, a limit order may, a cancel does not).
GenerateSingleOrder(index) == [n: {index + 1}, trades: BOOLEAN]

(* An order is made and sent; the send blocks while the channel is full. *)
Dispatch ==
    /\ run.pc = "dispatch"
    /\ run.sent < req.total_orders
    /\ Len(jobs) < ChanSize
    /\ \E order \in GenerateSingleOrder(run.sent) : jobs' = Append(jobs, order)
    /\ run' = [run EXCEPT !.sent = @ + 1]
    /\ UNCHANGED <<req, results, worker, sockets, engine, shadowEngine, disturbed>>

(* drop(job_tx) closes the channel. *)
DispatchDone ==
    /\ run.pc = "dispatch"
    /\ run.sent = req.total_orders
    /\ run' = [run EXCEPT !.pc = "join"]
    /\ UNCHANGED <<req, jobs, results, worker, sockets, engine, shadowEngine, disturbed>>

(* Every worker is awaited before the first result is received. *)
Join ==
    /\ run.pc = "join"
    /\ \A w \in Tasks : worker[w].pc = "ended"
    /\ run' = [run EXCEPT !.pc = "drain"]
    /\ UNCHANGED <<req, jobs, results, worker, sockets, engine, shadowEngine, disturbed>>

Drain ==
    /\ run.pc = "drain"
    /\ results # <<>>
    /\ results' = Tail(results)
    /\ run' = IF Head(results) THEN [run EXCEPT !.ok = @ + 1] ELSE [run EXCEPT !.failed = @ + 1]
    /\ UNCHANGED <<req, jobs, worker, sockets, engine, shadowEngine, disturbed>>

(* The senders are gone and the channel is empty: percentiles, telemetry   *)
(* (a failure to publish is logged), the permit is dropped, the response.  *)
Finish ==
    /\ run.pc = "drain"
    /\ results = <<>>
    /\ run' = [run EXCEPT !.pc = "done"]
    /\ UNCHANGED <<req, jobs, results, worker, sockets, engine, shadowEngine, disturbed>>

----------------------------------------------------------------------------
(* A worker *)

At(w, pc) == worker[w].pc = pc
Becomes(w, task) == worker' = [worker EXCEPT ![w] = task]
Verdict(w, good) == Becomes(w, [Task("report") EXCEPT !.good = good])

(* The connect loop, which retries without limit, has succeeded. *)
Connect(w) ==
    /\ At(w, "connecting")
    /\ Becomes(w, Task("recv"))
    /\ UNCHANGED <<req, run, jobs, results, sockets, engine, shadowEngine, disturbed>>

(* A job is received and written to the engine. *)
SendOrder(w) ==
    /\ At(w, "recv")
    /\ jobs # <<>>
    /\ jobs' = Tail(jobs)
    /\ Becomes(w, [Task("read") EXCEPT !.order = Head(jobs)])
    /\ requests' = [requests EXCEPT ![w] = Append(@, Head(jobs))]
    /\ UNCHANGED <<req, run, results, responses, engine, shadowEngine, disturbed>>

(* The write times out or fails: neither engine gets the order. *)
WriteFails(w) ==
    /\ At(w, "recv")
    /\ jobs # <<>>
    /\ jobs' = Tail(jobs)
    /\ Verdict(w, FALSE)
    /\ disturbed' = TRUE
    /\ UNCHANGED <<req, run, results, sockets, engine, shadowEngine>>

(* The channel is closed and empty: the task ends and its socket with it. *)
JobsClosed(w) ==
    /\ At(w, "recv")
    /\ jobs = <<>>
    /\ run.pc = "join"
    /\ Becomes(w, Task("ended"))
    /\ requests' = [requests EXCEPT ![w] = <<>>]
    /\ responses' = [responses EXCEPT ![w] = <<>>]
    /\ UNCHANGED <<req, run, jobs, results, engine, shadowEngine, disturbed>>

\* What a correct book answers to an order after the orders seen.
Trades(seen, order) == IF order.trades THEN Append(seen, order.n) ELSE <<>>

(* The contestant handles a line, perhaps after the worker stopped waiting. *)
EngineAnswers(w) ==
    /\ requests[w] # <<>>
    /\ engine' = Append(engine, Head(requests[w]).n)
    /\ responses' = [responses EXCEPT ![w] = Append(@, Trades(engine, Head(requests[w])))]
    /\ requests' = [requests EXCEPT ![w] = Tail(@)]
    /\ UNCHANGED <<req, run, jobs, results, worker, shadowEngine, disturbed>>

\* The rest of an answer whose first part has been read; it does not parse.
Rest == <<0>>

(* blast_single_order reads the socket once.  It takes one answer,         *)
(* whichever order that was for.                                           *)
ReadAnswer(w) ==
    /\ At(w, "read")
    /\ responses[w] # <<>>
    /\ Head(responses[w]) # Rest
    /\ Becomes(w, [worker[w] EXCEPT !.pc = "compare", !.answer = Head(responses[w])])
    /\ responses' = [responses EXCEPT ![w] = Tail(@)]
    /\ UNCHANGED <<req, run, jobs, results, requests, engine, shadowEngine, disturbed>>

(* A list of trades longer than the 1024 bytes of the buffer is read in part. *)
ReadPart(w) ==
    /\ At(w, "read")
    /\ responses[w] # <<>>
    /\ Head(responses[w]) \notin {<<>>, Rest}
    /\ Verdict(w, FALSE)
    /\ responses' = [responses EXCEPT ![w][1] = Rest]
    /\ disturbed' = TRUE
    /\ UNCHANGED <<req, run, jobs, results, requests, engine, shadowEngine>>

(* The rest of an answer, or two answers read at once, do not parse. *)
ReadUnparsable(w) ==
    /\ At(w, "read")
    /\ \/ responses[w] # <<>> /\ Head(responses[w]) = Rest /\ responses' = [responses EXCEPT ![w] = Tail(@)]
       \/ Len(responses[w]) > 1 /\ responses' = [responses EXCEPT ![w] = <<>>]
    /\ Verdict(w, FALSE)
    /\ UNCHANGED <<req, run, jobs, results, requests, engine, shadowEngine, disturbed>>

\* Mutant of ReadFails: the worker drops the order it waited for.
ReadFailsUnreported(w) ==
    /\ At(w, "read")
    /\ Becomes(w, Task("recv"))
    /\ disturbed' = TRUE
    /\ UNCHANGED <<req, run, jobs, results, sockets, engine, shadowEngine>>

(* The read times out (the answer may still come) or fails. *)
ReadFails(w) ==
    /\ At(w, "read")
    /\ Verdict(w, FALSE)
    /\ disturbed' = TRUE
    /\ UNCHANGED <<req, run, jobs, results, sockets, engine, shadowEngine>>

\* Mutant of BookAfter: orders that do not trade are not forwarded.
BookAfterTradesOnly(order) ==
    [open |-> TRUE, seen |-> IF order.trades THEN Append(book.seen, order.n) ELSE book.seen]

\* match_order and cancel_order of the shadow engine: a book that is not
\* there is made.
BookAfter(order) == [open |-> TRUE, seen |-> Append(book.seen, order.n)]

(* Without a shadow client no trades are expected. *)
Compare(w) ==
    /\ At(w, "compare")
    /\ IF run.shadow
       THEN /\ Verdict(w, Trades(book.seen, worker[w].order) = worker[w].answer)
            /\ book' = BookAfter(worker[w].order)
       ELSE /\ Verdict(w, worker[w].answer = <<>>)
            /\ UNCHANGED book
    /\ UNCHANGED <<req, run, jobs, results, sockets, engine, otherBooks, disturbed>>

(* The call fails, before or after it took effect. *)
CompareFails(w) ==
    /\ At(w, "compare")
    /\ run.shadow
    /\ book' \in {book, BookAfter(worker[w].order)}
    /\ Verdict(w, FALSE)
    /\ disturbed' = TRUE
    /\ UNCHANGED <<req, run, jobs, results, sockets, engine, otherBooks>>

\* Mutant of Report: the last slot of the channel is not used.
ReportKeepsSlot(w) ==
    /\ At(w, "report")
    /\ Len(results) + 1 < ChanSize
    /\ results' = Append(results, worker[w].good)
    /\ Becomes(w, Task("recv"))
    /\ UNCHANGED <<req, run, jobs, sockets, engine, shadowEngine, disturbed>>

(* The send blocks while the result channel is full. *)
Report(w) ==
    /\ At(w, "report")
    /\ Len(results) < ChanSize
    /\ results' = Append(results, worker[w].good)
    /\ Becomes(w, Task("recv"))
    /\ UNCHANGED <<req, run, jobs, sockets, engine, shadowEngine, disturbed>>

----------------------------------------------------------------------------
HandlerRuns == Dispatch \/ DispatchDone \/ Join \/ Drain \/ Finish
Handler == StartShadow \/ HandlerRuns

WorkerRuns(w) ==
    \/ SendOrder(w) \/ WriteFails(w) \/ JobsClosed(w)
    \/ ReadAnswer(w) \/ ReadPart(w) \/ ReadUnparsable(w) \/ ReadFails(w)
    \/ Report(w)
WorkerStep(w) == WorkerRuns(w) \/ Compare(w) \/ CompareFails(w)

Next ==
    \/ Acquire \/ Reject \/ Handler
    \/ \E w \in Tasks : Connect(w) \/ WorkerStep(w) \/ EngineAnswers(w)
    \/ OtherStartsBook

Spec == Init /\ [][Next]_vars

(* The runtime polls every task, reads and writes of the socket have a     *)
(* timeout of three seconds, and so has the telemetry of Finish (five).    *)
(* Nothing is assumed of the contestant: it need not answer, nor ever      *)
(* listen.  Nothing is assumed of the shadow engine either, whose calls in *)
(* StartShadow and Compare have no deadline: only without a client is      *)
(* there nothing to wait for.                                              *)
Fairness ==
    /\ WF_vars(HandlerRuns)
    /\ \A w \in 1..MaxTasks :
          WF_vars(w \in Tasks /\ (WorkerRuns(w) \/ (~run.shadow /\ Compare(w))))
FairSpec == Spec /\ Fairness

----------------------------------------------------------------------------
(* Properties *)

(* Type correctness; both channels stay within their capacity. *)
TypeOK ==
    /\ run.pc \in {"called", "rejected", "shadow", "dispatch", "join", "drain", "done"}
    /\ {run.sent, run.ok, run.failed} \subseteq 0..req.total_orders
    /\ jobs \in Seq(Order) /\ Len(jobs) <= ChanSize
    /\ results \in Seq(BOOLEAN) /\ Len(results) <= ChanSize
    /\ engine \in Seq(1..MaxTotal)
    /\ book.seen \in Seq(1..MaxTotal)
    /\ otherBooks \in 0..MaxBooks + 1
    /\ \A w \in Tasks :
        /\ worker[w].pc \in {"unspawned", "connecting", "recv", "read", "compare", "report", "ended"}
        /\ worker[w].order \in Order \cup {NoOrder}
        /\ requests[w] \in Seq(Order)

(* Every order of a finished run is counted once, as a success or as a     *)
(* failure, whatever times out and however the workers share the jobs:     *)
(* the success rate is over all the orders.                                *)
EveryOrderCounted == run.pc = "done" => run.ok + run.failed = req.total_orders

(* The channels keep their limits and no order is lost or counted twice. *)
RunConsistent == TypeOK /\ EveryOrderCounted

Undisturbed == req.concurrency = 1 /\ ~disturbed /\ run.pc \notin {"called", "rejected", "shadow"}

(* With one worker the shadow book sees the orders in the order in which   *)
(* the engine did, and is at most the order in progress behind, as long as *)
(* the run meets no fault.                                                 *)
ShadowInStep ==
    Undisturbed =>
        \/ book.seen = engine
        \/ /\ At(1, "read") \/ At(1, "compare")
           /\ Append(book.seen, worker[1].order.n) = engine

(* So a correct engine loses no order to the benchmark itself: with one    *)
(* worker, a failure is counted only in a run that met a fault.            *)
CorrectEngineScores ==
    Undisturbed => run.failed = 0 /\ \A i \in 1..Len(results) : results[i]

EngineListens == []<>(\A w \in Tasks : ~At(w, "connecting"))

ShadowAnswers ==
    /\ []<>(run.pc # "shadow")
    /\ \A w \in 1..MaxTasks : []<>~(w \in Tasks /\ run.shadow /\ At(w, "compare"))

(* A run whose orders fit the result channel ends once its workers have    *)
(* connected and the shadow engine answers what it is asked, even if the   *)
(* contestant's engine never answers.                                      *)
RunEnds ==
    req.total_orders <= ChanSize /\ EngineListens /\ ShadowAnswers
        => (run.pc = "shadow" ~> run.pc = "done")
=============================================================================
