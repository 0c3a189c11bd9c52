------------------------- MODULE TelemetryIngester -------------------------
(***************************************************************************)
(* services/telemetry-ingester: the consumer group member that moves the   *)
(* records of the topic "benchmark-results" into the table                 *)
(* benchmark_metrics.                                                      *)
(*                                                                         *)
(* Two goroutines share a bounded channel.  runConsumerLoop polls Kafka,   *)
(* parses each record and sends the valid ones; runStorageWorker collects  *)
(* them into a buffer, writes the buffer in one transaction and then       *)
(* commits the Kafka offsets by hand (auto commit is disabled).  SIGTERM   *)
(* cancels the context both share; the container is restarted after a      *)
(* crash or a shutdown and resumes from the offsets the broker holds.      *)
(*                                                                         *)
(* A record is abstracted to its partition and offset; its payload to      *)
(* whether parseTelemetryRecord accepts it.                                *)
(***************************************************************************)
EXTENDS Naturals, Sequences

CONSTANTS
    Partitions,          \* partitions of the topic
    ChanCap,             \* capacity of recordChan (10_000)
    MaxBatchSize,        \* buffer length that forces a flush (500)
    ErrorsCarryRecords,  \* may a fetch that reports an error also hold records?
    MaxRecords,          \* bound: records produced per partition
    MaxStops,            \* bound: crashes and shutdown signals
    MaxRows              \* bound: table length up to which a commit may be ambiguous

ASSUME ChanCapAssumption == ChanCap \in Nat \ {0}
ASSUME MaxBatchSizeAssumption == MaxBatchSize \in Nat \ {0}
ASSUME ErrorsCarryRecordsAssumption == ErrorsCarryRecords \in BOOLEAN
ASSUME BoundsAssumption ==
    MaxRecords \in Nat /\ MaxStops \in Nat /\ MaxRows \in Nat

VARIABLES
    \* Kafka and PostgreSQL, which survive the process
    log,        \* log[p]: the payloads of partition p, "valid" or "invalid"
    committed,  \* committed[p]: the consumer group's offset
    table,      \* rows of benchmark_metrics in id order
    \* the process
    up,         \* is the container running?
    cancelled,  \* has ctx been cancelled?
    consumer,   \* control state of runConsumerLoop
    position,   \* position[p]: the client's next offset to fetch
    fetched,    \* records of the current PollFetches not yet iterated
    recordChan, \* the channel between the two goroutines
    worker,     \* control state of runStorageWorker
    exiting,    \* will the worker return after the flush in progress?
    buffer,     \* the worker's batch
    \* bookkeeping that no program variable holds
    stops,      \* crashes and signals so far, bounded by MaxStops
    dropped     \* records fetched together with an error and discarded

external == <<log, committed, table>>
memory == <<cancelled, consumer, position, fetched, recordChan, worker, exiting, buffer>>
vars == <<external, up, memory, stops, dropped>>

Payload == {"valid", "invalid"}
StorageRecord == [part: Partitions, off: Nat]

Rec(p, o) == [part |-> p, off |-> o]
Elems(s) == {s[i] : i \in 1..Len(s)}

\* Offsets count from 0, sequences from 1.
Exists(r) == r.off < Len(log[r.part])
PayloadOf(r) == log[r.part][r.off + 1]

\* Mutant of ParsesOK: nothing is validated.
AcceptAnything(r) == TRUE

(* parseTelemetryRecord: JSON that unmarshals, with a submission_id. *)
ParsesOK(r) == PayloadOf(r) = "valid"

Init ==
    /\ log = [p \in Partitions |-> <<>>]
    /\ committed = [p \in Partitions |-> 0]
    /\ table = <<>>
    /\ up = TRUE
    /\ cancelled = FALSE
    /\ consumer = "top"
    /\ position = [p \in Partitions |-> 0]
    /\ fetched = <<>>
    /\ recordChan = <<>>
    /\ worker = "select"
    /\ exiting = FALSE
    /\ buffer = <<>>
    /\ stops = 0
    /\ dropped = {}

----------------------------------------------------------------------------
(* The producer: publish_telemetry of the bot fleet, or anything else that *)
(* writes to the topic.                                                    *)

Produce(p, payload) ==
    /\ Len(log[p]) < MaxRecords
    /\ log' = [log EXCEPT ![p] = Append(@, payload)]
    /\ UNCHANGED <<committed, table, up, memory, stops, dropped>>

----------------------------------------------------------------------------
(* runConsumerLoop                                                         *)

(* The top of the loop returns when ctx is done, and polls otherwise. *)
LoopTop ==
    /\ up
    /\ consumer = "top"
    /\ consumer' = IF cancelled THEN "returned" ELSE "polling"
    /\ UNCHANGED <<external, up, cancelled, position, fetched, recordChan,
                   worker, exiting, buffer, stops, dropped>>

(* PollFetches gathers what the brokers returned, a record at a time, and  *)
(* moves the client's position past it.                                    *)
PollGather(p) ==
    /\ up
    /\ consumer = "polling"
    /\ position[p] < Len(log[p])
    /\ fetched' = Append(fetched, Rec(p, position[p]))
    /\ position' = [position EXCEPT ![p] = @ + 1]
    /\ UNCHANGED <<external, up, cancelled, consumer, recordChan, worker,
                   exiting, buffer, stops, dropped>>

(* PollFetches returns records and no error. *)
PollReturn ==
    /\ up
    /\ consumer = "polling"
    /\ fetched # <<>>
    /\ consumer' = "iterating"
    /\ UNCHANGED <<external, up, cancelled, position, fetched, recordChan,
                   worker, exiting, buffer, stops, dropped>>

(* fetches.Errors() is not empty (a poll that timed out or was cancelled   *)
(* reports its context's error this way): the errors are logged and the    *)
(* loop continues.  What other partitions returned in the same fetch is    *)
(* never iterated.                                                         *)
PollReturnError ==
    /\ up
    /\ consumer = "polling"
    /\ fetched # <<>> => ErrorsCarryRecords
    /\ consumer' = "top"
    /\ dropped' = dropped \cup Elems(fetched)
    /\ fetched' = <<>>
    /\ UNCHANGED <<external, up, cancelled, position, recordChan, worker,
                   exiting, buffer, stops>>

(* A record that does not parse is logged and skipped. *)
IterateInvalid ==
    /\ up
    /\ consumer = "iterating"
    /\ fetched # <<>>
    /\ ~ParsesOK(Head(fetched))
    /\ fetched' = Tail(fetched)
    /\ UNCHANGED <<external, up, cancelled, consumer, position, recordChan,
                   worker, exiting, buffer, stops, dropped>>

\* Mutant of IterateSend: the channel is not bounded.
SendUnbounded ==
    /\ up
    /\ consumer = "iterating"
    /\ fetched # <<>>
    /\ ParsesOK(Head(fetched))
    /\ recordChan' = Append(recordChan, Head(fetched))
    /\ fetched' = Tail(fetched)
    /\ UNCHANGED <<external, up, cancelled, consumer, position, worker,
                   exiting, buffer, stops, dropped>>

(* The send blocks while the channel is full. *)
IterateSend ==
    /\ up
    /\ consumer = "iterating"
    /\ fetched # <<>>
    /\ ParsesOK(Head(fetched))
    /\ Len(recordChan) < ChanCap
    /\ recordChan' = Append(recordChan, Head(fetched))
    /\ fetched' = Tail(fetched)
    /\ UNCHANGED <<external, up, cancelled, consumer, position, worker,
                   exiting, buffer, stops, dropped>>

(* The iterator is done: back to the top of the loop. *)
IterateDone ==
    /\ up
    /\ consumer = "iterating"
    /\ fetched = <<>>
    /\ consumer' = "top"
    /\ UNCHANGED <<external, up, cancelled, position, fetched, recordChan,
                   worker, exiting, buffer, stops, dropped>>

(* The select around the send also returns once ctx is done, abandoning    *)
(* the rest of the fetch.  When the loop has returned main closes          *)
(* recordChan.                                                             *)
IterateCancelled ==
    /\ up
    /\ consumer = "iterating"
    /\ fetched # <<>>
    /\ ParsesOK(Head(fetched))
    /\ cancelled
    /\ consumer' = "returned"
    /\ UNCHANGED <<external, up, cancelled, position, fetched, recordChan,
                   worker, exiting, buffer, stops, dropped>>

----------------------------------------------------------------------------
(* runStorageWorker                                                        *)

(* A record arrives; a full batch is flushed at once. *)
WorkerReceive ==
    /\ up
    /\ worker = "select"
    /\ recordChan # <<>>
    /\ buffer' = Append(buffer, Head(recordChan))
    /\ recordChan' = Tail(recordChan)
    /\ worker' = IF Len(buffer') >= MaxBatchSize THEN "flush" ELSE "select"
    /\ UNCHANGED <<external, up, cancelled, consumer, position, fetched,
                   exiting, stops, dropped>>

(* The flush ticker fires; with an empty buffer flush does nothing. *)
WorkerTick ==
    /\ up
    /\ worker = "select"
    /\ buffer # <<>>
    /\ worker' = "flush"
    /\ UNCHANGED <<external, up, cancelled, consumer, position, fetched,
                   recordChan, exiting, buffer, stops, dropped>>

(* ctx is done, or the channel is closed and drained: one last flush. *)
WorkerLastFlush ==
    /\ up
    /\ worker = "select"
    /\ \/ cancelled
       \/ consumer = "returned" /\ recordChan = <<>>
    /\ worker' = "flush"
    /\ exiting' = TRUE
    /\ UNCHANGED <<external, up, cancelled, consumer, position, fetched,
                   recordChan, buffer, stops, dropped>>

\* Mutants of AfterFlush: the exit is forgotten; the worker ends on any flush.
NeverExits == "select"
AlwaysExits == "returned"

AfterFlush == IF exiting THEN "returned" ELSE "select"

\* Mutant of FlushNothing: a batch that could not be written is discarded.
DiscardBatch ==
    /\ up
    /\ worker = "flush"
    /\ worker' = AfterFlush
    /\ buffer' = <<>>
    /\ UNCHANGED <<external, up, cancelled, consumer, position, fetched,
                   recordChan, exiting, stops, dropped>>

(* An empty buffer, or persistBatch failed: flush returns and the buffer   *)
(* is kept for the next flush.  A cancelled ctx always fails BeginTx.      *)
FlushNothing ==
    /\ up
    /\ worker = "flush"
    /\ worker' = AfterFlush
    /\ UNCHANGED <<external, up, cancelled, consumer, position, fetched,
                   recordChan, exiting, buffer, stops, dropped>>

(* tx.Commit reports an error after the server has committed: the rows are *)
(* there, and the buffer is kept as after any other failure.               *)
PersistAmbiguous ==
    /\ up
    /\ worker = "flush"
    /\ ~cancelled
    /\ buffer # <<>>
    /\ Len(table) + Len(buffer) <= MaxRows
    /\ table' = table \o buffer
    /\ worker' = AfterFlush
    /\ UNCHANGED <<log, committed, up, cancelled, consumer, position, fetched,
                   recordChan, exiting, buffer, stops, dropped>>

(* persistBatch: every record of the buffer is a row of one transaction. *)
PersistBatch ==
    /\ up
    /\ worker = "flush"
    /\ ~cancelled
    /\ buffer # <<>>
    /\ table' = table \o buffer
    /\ worker' = "commit"
    /\ UNCHANGED <<log, committed, up, cancelled, consumer, position, fetched,
                   recordChan, exiting, buffer, stops, dropped>>

(* CommitRecords stores, per partition, one past the highest offset given. *)
OffsetsIn(p, recs) == {r.off : r \in {x \in Elems(recs) : x.part = p}}
HighestOffset(p, recs) ==
    CHOOSE o \in OffsetsIn(p, recs) : \A x \in OffsetsIn(p, recs) : x <= o
\* Mutant of OffsetsToCommit: automatic commits, up to what was polled.
CommitClientPosition(recs) == position

OffsetsToCommit(recs) ==
    [p \in Partitions |->
        IF OffsetsIn(p, recs) = {} THEN committed[p] ELSE HighestOffset(p, recs) + 1]

(* The commit succeeds, or fails and is only logged; the buffer is emptied *)
(* in both cases.                                                          *)
CommitRecords ==
    /\ up
    /\ worker = "commit"
    /\ committed' \in {committed, OffsetsToCommit(buffer)}
    /\ buffer' = <<>>
    /\ worker' = AfterFlush
    /\ UNCHANGED <<log, table, up, cancelled, consumer, position, fetched,
                   recordChan, exiting, stops, dropped>>

----------------------------------------------------------------------------
(* The process                                                             *)

(* SIGTERM or SIGINT: setupGracefulShutdown cancels ctx. *)
Signal ==
    /\ up
    /\ ~cancelled
    /\ stops < MaxStops
    /\ cancelled' = TRUE
    /\ stops' = stops + 1
    /\ UNCHANGED <<external, up, consumer, position, fetched, recordChan,
                   worker, exiting, buffer, dropped>>

(* main returns when both goroutines have. *)
ShutdownComplete ==
    /\ up
    /\ consumer = "returned"
    /\ worker = "returned"
    /\ up' = FALSE
    /\ UNCHANGED <<external, memory, stops, dropped>>

(* The process dies at any point. *)
Crash ==
    /\ up
    /\ stops < MaxStops
    /\ up' = FALSE
    /\ stops' = stops + 1
    /\ UNCHANGED <<external, memory, dropped>>

\* Mutant of Restart: the group's offsets are ignored.
RestartFromBeginning ==
    /\ ~up
    /\ up' = TRUE
    /\ cancelled' = FALSE
    /\ consumer' = "top"
    /\ position' = [p \in Partitions |-> 0]
    /\ worker' = "select"
    /\ exiting' = FALSE
    /\ fetched' = <<>> /\ recordChan' = <<>> /\ buffer' = <<>>
    /\ UNCHANGED <<external, stops, dropped>>

(* The container restarts with an empty memory; the group resumes where it *)
(* last committed, or at the start of a partition it never committed.      *)
Restart ==
    /\ ~up
    /\ up' = TRUE
    /\ cancelled' = FALSE
    /\ consumer' = "top"
    /\ position' = committed
    /\ fetched' = <<>>
    /\ recordChan' = <<>>
    /\ worker' = "select"
    /\ exiting' = FALSE
    /\ buffer' = <<>>
    /\ UNCHANGED <<external, stops, dropped>>

----------------------------------------------------------------------------
Next ==
    \/ \E p \in Partitions, payload \in Payload : Produce(p, payload)
    \/ LoopTop
    \/ \E p \in Partitions : PollGather(p)
    \/ PollReturn
    \/ PollReturnError
    \/ IterateInvalid
    \/ IterateSend
    \/ IterateDone
    \/ IterateCancelled
    \/ WorkerReceive
    \/ WorkerTick
    \/ WorkerLastFlush
    \/ FlushNothing
    \/ PersistAmbiguous
    \/ PersistBatch
    \/ CommitRecords
    \/ Signal
    \/ ShutdownComplete
    \/ Crash
    \/ Restart

Spec == Init /\ [][Next]_vars

(* The goroutines run and the container is restarted (docker-compose:      *)
(* restart unless-stopped).  Weak fairness for every step a goroutine can  *)
(* take by itself; strong fairness where the code offers a choice again    *)
(* and again: a poll that may time out, a select that picks among ready    *)
(* cases at random, a transaction that may fail and is retried.            *)
Fairness ==
    /\ WF_vars(LoopTop)
    /\ \A p \in Partitions : SF_vars(PollGather(p))
    /\ WF_vars(PollReturn \/ PollReturnError)
    /\ WF_vars(IterateInvalid \/ IterateSend \/ IterateDone \/ IterateCancelled)
    /\ SF_vars(WorkerReceive)
    /\ WF_vars(WorkerTick \/ WorkerReceive \/ WorkerLastFlush)
    /\ SF_vars(PersistBatch)
    /\ WF_vars(FlushNothing \/ PersistBatch)
    /\ WF_vars(CommitRecords)
    /\ SF_vars(WorkerLastFlush)
    /\ WF_vars(ShutdownComplete)
    /\ WF_vars(Restart)

FairSpec == Spec /\ Fairness

----------------------------------------------------------------------------
(* Properties                                                              *)

Consumer == {"top", "polling", "iterating", "returned"}
Worker == {"select", "flush", "commit", "returned"}

(* Every variable has its type; the channel never holds more than its      *)
(* capacity (make(chan StorageRecord, 10_000)).                            *)
TypeOK ==
    /\ log \in [Partitions -> Seq(Payload)]
    /\ committed \in [Partitions -> Nat]
    /\ table \in Seq(StorageRecord)
    /\ up \in BOOLEAN
    /\ cancelled \in BOOLEAN
    /\ consumer \in Consumer
    /\ position \in [Partitions -> Nat]
    /\ fetched \in Seq(StorageRecord)
    /\ recordChan \in Seq(StorageRecord)
    /\ Len(recordChan) <= ChanCap
    /\ worker \in Worker
    /\ exiting \in BOOLEAN
    /\ buffer \in Seq(StorageRecord)
    /\ stops \in Nat
    /\ dropped \subseteq StorageRecord

Published(r) == Exists(r) /\ ParsesOK(r)
Persisted(r) == r \in Elems(table)

(* At-least-once delivery: the group's offset never passes a valid record  *)
(* that is not a row of benchmark_metrics.  CommitRecords runs only after  *)
(* persistBatch, for exactly the records it wrote, and the records still   *)
(* in the channel or in the fetch are later in their partition.            *)
AtLeastOnce ==
    \A p \in Partitions : \A o \in 0..committed[p] - 1 :
        ParsesOK(Rec(p, o)) => Persisted(Rec(p, o))

(* The only way a valid record is lost is the continue after a fetch error *)
(* that came with records.                                                 *)
LossOnlyOnFetchError ==
    \A p \in Partitions : \A o \in 0..committed[p] - 1 :
        ParsesOK(Rec(p, o)) => Persisted(Rec(p, o)) \/ Rec(p, o) \in dropped

(* A row is written only when every earlier valid record of its partition  *)
(* was written before it or in the same batch: whatever fails, the rows    *)
(* never have a hole that a later restart would have to fill.              *)
NoHoles ==
    \A i \in 1..Len(table) : \A o \in 0..table[i].off - 1 :
        LET r == Rec(table[i].part, o)
        IN  ParsesOK(r) => r \in dropped \/ \E j \in 1..i - 1 : table[j] = r

(* The committed offset of a partition never moves back: a retried batch   *)
(* or a batch redelivered after a restart never commits below what an      *)
(* earlier commit reached.                                                 *)
OffsetsNeverRegress ==
    [][\A p \in Partitions : committed'[p] >= committed[p]]_vars

(* Every valid record is eventually a row, whatever crashes, failed        *)
(* transactions and failed commits happen on the way.                      *)
EventuallyPersisted ==
    \A p \in Partitions : \A o \in 0..MaxRecords - 1 :
        (o < Len(log[p]) /\ ParsesOK(Rec(p, o))) ~> Persisted(Rec(p, o))

(* After a signal the process ends: the consumer is never left blocked on  *)
(* a full channel whose reader has returned, and main's wg.Wait returns.   *)
ShutdownTerminates == cancelled ~> ~up

(* The ingester implements at-least-once delivery: a row is a delivery and *)
(* the group's offset the acknowledgement; polls, buffering, failures,     *)
(* crashes and restarts change neither.                                    *)
Delivery == INSTANCE AtLeastOnceDelivery
                WITH delivered <- Elems(table), acked <- committed
ImplementsDelivery == Delivery!AbsSpec

----------------------------------------------------------------------------
(* The inductive invariant behind the properties above                     *)

InPipeline == Elems(buffer) \cup Elems(recordChan) \cup Elems(fetched)

\* R is ahead of Q: in each partition, its offsets are lower.
Precedes(R, Q) == \A r \in R, q \in Q : r.part = q.part => r.off < q.off
Increasing(s) ==
    \A i, j \in 1..Len(s) : i < j /\ s[i].part = s[j].part => s[i].off < s[j].off

(* The process works on records in offset order: buffer, then channel,     *)
(* then fetch.  That is why committing the highest offset of the buffer    *)
(* acknowledges nothing that is still on its way.                          *)
PipelineOrdered ==
    /\ Increasing(buffer) /\ Increasing(recordChan) /\ Increasing(fetched)
    /\ Precedes(Elems(buffer), Elems(recordChan))
    /\ Precedes(Elems(buffer), Elems(fetched))
    /\ Precedes(Elems(recordChan), Elems(fetched))

PipelineBetweenOffsets ==
    \A r \in InPipeline : committed[r.part] <= r.off /\ r.off < position[r.part]

OffsetsInLog ==
    \A p \in Partitions : committed[p] <= position[p] /\ position[p] <= Len(log[p])

OnlyParsed == \A r \in Elems(buffer) \cup Elems(recordChan) : ParsesOK(r)

(* Nothing fetched is forgotten. *)
FetchedAccountedFor ==
    \A p \in Partitions : \A o \in 0..position[p] - 1 :
        ParsesOK(Rec(p, o)) =>
            \/ Persisted(Rec(p, o))
            \/ Rec(p, o) \in dropped
            \/ Rec(p, o) \in InPipeline

CommitBacked == worker = "commit" => \A r \in Elems(buffer) : Persisted(r)

RowsPublished == \A r \in Elems(table) : Published(r)

(* The conjunction is inductive: it holds initially, every step preserves  *)
(* it, and it implies LossOnlyOnFetchError and ImplementsDelivery.         *)
IInv ==
    /\ PipelineOrdered
    /\ PipelineBetweenOffsets
    /\ OffsetsInLog
    /\ OnlyParsed
    /\ FetchedAccountedFor
    /\ CommitBacked
    /\ RowsPublished
============================================================================
