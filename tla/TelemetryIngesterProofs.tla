---------------------- MODULE TelemetryIngesterProofs ----------------------
(***************************************************************************)
(* Proofs about TelemetryIngester, for any number of partitions, any       *)
(* channel capacity and batch size, and any number of failures.            *)
(***************************************************************************)
EXTENDS TelemetryIngester, SequenceTheorems, TLAPS

----------------------------------------------------------------------------
(* Sequences of records and the sets of their elements                     *)

(* Append adds one element. *)
LEMMA ElemsAppend ==
    ASSUME NEW S, NEW s \in Seq(S), NEW e \in S
    PROVE  Elems(Append(s, e)) = Elems(s) \cup {e}
<1> DEFINE t == Append(s, e)
<1>1. /\ Len(t) = Len(s) + 1
      /\ \A i \in 1..Len(s) : t[i] = s[i]
      /\ t[Len(s) + 1] = e
      /\ Len(s) \in Nat
  BY AppendProperties
<1>2. ASSUME NEW x \in Elems(t) PROVE x \in Elems(s) \cup {e}
  <2>1. PICK i \in 1..Len(t) : x = t[i]
    BY DEF Elems
  <2>2. CASE i = Len(s) + 1
    BY <1>1, <2>1, <2>2
  <2>3. CASE i \in 1..Len(s)
    BY <1>1, <2>1, <2>3 DEF Elems
  <2> QED BY <1>1, <2>2, <2>3
<1>3. ASSUME NEW x \in Elems(s) PROVE x \in Elems(t)
  <2>1. PICK i \in 1..Len(s) : x = s[i]
    BY DEF Elems
  <2>2. i \in 1..Len(t) /\ x = t[i]
    BY <1>1, <2>1
  <2> QED BY <2>2 DEF Elems
<1>4. e \in Elems(t)
  <2>1. Len(s) + 1 \in 1..Len(t)
    BY <1>1
  <2> QED BY <1>1, <2>1 DEF Elems
<1> HIDE DEF t
<1>5. Elems(t) = Elems(s) \cup {e}
  BY <1>2, <1>3, <1>4
<1> QED BY <1>5 DEF t

(* A nonempty sequence holds its head and its tail. *)
LEMMA ElemsHeadTail ==
    ASSUME NEW S, NEW s \in Seq(S), s # <<>>
    PROVE  /\ Elems(s) = {Head(s)} \cup Elems(Tail(s))
           /\ Head(s) \in S
           /\ Tail(s) \in Seq(S)
<1> DEFINE t == Tail(s)
<1>1. /\ t \in Seq(S)
      /\ Head(s) \in S
      /\ Len(t) = Len(s) - 1
      /\ \A i \in 1..Len(t) : t[i] = s[i + 1]
  BY HeadTailProperties
<1>2. Len(s) \in Nat \ {0} /\ Head(s) = s[1]
  BY EmptySeq
<1>3. ASSUME NEW x \in Elems(s) PROVE x \in {Head(s)} \cup Elems(t)
  <2>1. PICK i \in 1..Len(s) : x = s[i]
    BY DEF Elems
  <2>2. CASE i = 1
    BY <1>2, <2>1, <2>2
  <2>3. CASE i # 1
    <3>1. i - 1 \in 1..Len(t) /\ x = t[i - 1]
      BY <1>1, <1>2, <2>1, <2>3
    <3> QED BY <3>1 DEF Elems
  <2> QED BY <2>2, <2>3
<1>4. ASSUME NEW x \in Elems(t) PROVE x \in Elems(s)
  <2>1. PICK i \in 1..Len(t) : x = t[i]
    BY DEF Elems
  <2>2. i + 1 \in 1..Len(s) /\ x = s[i + 1]
    BY <1>1, <1>2, <2>1
  <2> QED BY <2>2 DEF Elems
<1>5. Head(s) \in Elems(s)
  <2>1. 1 \in 1..Len(s)
    BY <1>2
  <2> QED BY <1>2, <2>1 DEF Elems
<1> HIDE DEF t
<1>6. Elems(s) = {Head(s)} \cup Elems(t)
  BY <1>3, <1>4, <1>5
<1> QED BY <1>1, <1>6 DEF t

(* Elements of a concatenation. *)
LEMMA ElemsConcat ==
    ASSUME NEW S, NEW s \in Seq(S), NEW t \in Seq(S)
    PROVE  Elems(s \o t) = Elems(s) \cup Elems(t)
<1>1. s \o t \in Seq(S)
  BY ConcatProperties
<1>2. ASSUME NEW u \in Seq(S) PROVE Elems(u) = Range(u)
  BY RangeEquality DEF Elems
<1>3. Range(s \o t) = Range(s) \cup Range(t)
  BY RangeConcatenation
<1>4. Elems(s \o t) = Range(s \o t)
  BY <1>1, <1>2
<1> QED BY <1>2, <1>3, <1>4

(* The empty sequence has no elements. *)
LEMMA ElemsEmpty == Elems(<<>>) = {}
BY DEF Elems

(* The elements of a sequence over S are in S. *)
LEMMA ElemsType ==
    ASSUME NEW S, NEW s \in Seq(S)
    PROVE  Elems(s) \subseteq S
BY ElementOfSeq DEF Elems

----------------------------------------------------------------------------
(* Type correctness                                                        *)

(* The offset CommitRecords sends for a partition is well defined when the *)
(* batch has a highest offset.  Batches grow by one record at a time, so   *)
(* this is an invariant rather than an induction over finite sets.         *)
HasHighest(p, recs) ==
    OffsetsIn(p, recs) # {} =>
        \E m \in OffsetsIn(p, recs) : \A x \in OffsetsIn(p, recs) : x <= m

TypeInv == TypeOK /\ \A p \in Partitions : HasHighest(p, buffer)

(* Offsets of records are natural numbers. *)
LEMMA OffsetsInType ==
    ASSUME NEW p, NEW s \in Seq(StorageRecord)
    PROVE  OffsetsIn(p, s) \subseteq Nat
<1>1. Elems(s) \subseteq StorageRecord
  BY ElemsType
<1> QED BY <1>1 DEF OffsetsIn, StorageRecord

(* A record received adds its offset to its partition's, and to no other's. *)
LEMMA OffsetsInAppend ==
    ASSUME NEW p, NEW s \in Seq(StorageRecord), NEW e \in StorageRecord
    PROVE  OffsetsIn(p, Append(s, e)) =
             IF e.part = p THEN OffsetsIn(p, s) \cup {e.off} ELSE OffsetsIn(p, s)
<1>1. Elems(Append(s, e)) = Elems(s) \cup {e}
  BY ElemsAppend
<1>2. CASE e.part = p
  BY <1>1, <1>2 DEF OffsetsIn
<1>3. CASE e.part # p
  BY <1>1, <1>3 DEF OffsetsIn
<1> QED BY <1>2, <1>3

(* A batch that grows by one record still has a highest offset to commit. *)
LEMMA HasHighestAppend ==
    ASSUME NEW p, NEW s \in Seq(StorageRecord), NEW e \in StorageRecord,
           HasHighest(p, s)
    PROVE  HasHighest(p, Append(s, e))
<1>1. OffsetsIn(p, s) \subseteq Nat /\ e.off \in Nat
  BY OffsetsInType DEF StorageRecord
<1>2. CASE e.part # p
  BY <1>2, OffsetsInAppend DEF HasHighest
<1>3. CASE e.part = p /\ OffsetsIn(p, s) = {}
  <2>1. OffsetsIn(p, Append(s, e)) = {e.off}
    BY <1>3, OffsetsInAppend
  <2> QED BY <1>1, <2>1 DEF HasHighest
<1>4. CASE e.part = p /\ OffsetsIn(p, s) # {}
  <2>1. OffsetsIn(p, Append(s, e)) = OffsetsIn(p, s) \cup {e.off}
    BY <1>4, OffsetsInAppend
  <2>2. PICK m \in OffsetsIn(p, s) : \A x \in OffsetsIn(p, s) : x <= m
    BY <1>4 DEF HasHighest
  <2> DEFINE n == IF e.off <= m THEN m ELSE e.off
  <2>3. n \in OffsetsIn(p, s) \cup {e.off} /\ \A x \in OffsetsIn(p, s) \cup {e.off} : x <= n
    BY <1>1, <2>2
  <2> QED BY <2>1, <2>3 DEF HasHighest
<1> QED BY <1>2, <1>3, <1>4

(* An empty batch has nothing to commit. *)
LEMMA HasHighestEmpty ==
    ASSUME NEW p PROVE HasHighest(p, <<>>)
BY ElemsEmpty DEF HasHighest, OffsetsIn

(* What CommitRecords sends for a partition of the batch. *)
LEMMA HighestOffsetProperties ==
    ASSUME NEW p, NEW s \in Seq(StorageRecord), HasHighest(p, s), OffsetsIn(p, s) # {}
    PROVE  /\ HighestOffset(p, s) \in OffsetsIn(p, s)
           /\ HighestOffset(p, s) \in Nat
           /\ \A x \in OffsetsIn(p, s) : x <= HighestOffset(p, s)
BY OffsetsInType DEF HasHighest, HighestOffset

(* What CommitRecords stores is an offset for every partition. *)
LEMMA OffsetsToCommitType ==
    ASSUME TypeInv
    PROVE  OffsetsToCommit(buffer) \in [Partitions -> Nat]
<1> SUFFICES ASSUME NEW p \in Partitions
             PROVE  (IF OffsetsIn(p, buffer) = {} THEN committed[p]
                     ELSE HighestOffset(p, buffer) + 1) \in Nat
  BY DEF OffsetsToCommit
<1>1. committed[p] \in Nat /\ buffer \in Seq(StorageRecord) /\ HasHighest(p, buffer)
  BY DEF TypeInv, TypeOK
<1>2. CASE OffsetsIn(p, buffer) # {}
  <2>1. HighestOffset(p, buffer) \in Nat
    BY <1>1, <1>2, HighestOffsetProperties
  <2> QED BY <1>2, <2>1
<1> QED BY <1>1, <1>2

(* Every reachable state is well typed and every batch has a highest       *)
(* offset to commit.                                                       *)
THEOREM TypeInvariant == Spec => []TypeInv
<1>1. Init => TypeInv
  <2> SUFFICES ASSUME Init PROVE TypeInv
    OBVIOUS
  <2>1. TypeOK
    <3>1. Len(recordChan) <= ChanCap
      BY ChanCapAssumption DEF Init
    <3>2. up \in BOOLEAN /\ cancelled \in BOOLEAN /\ exiting \in BOOLEAN
      BY DEF Init
    <3> QED BY <3>1, <3>2 DEF Init, TypeOK, Consumer, Worker
  <2>2. buffer = <<>>
    BY DEF Init
  <2> QED BY <2>1, <2>2, HasHighestEmpty DEF TypeInv
<1>2. TypeInv /\ [Next]_vars => TypeInv'
  <2> SUFFICES ASSUME TypeInv, [Next]_vars
               PROVE  TypeInv'
    OBVIOUS
  <2> USE DEF TypeInv, TypeOK, Consumer, Worker, external, memory
  <2>1. ASSUME NEW p \in Partitions, NEW payload \in Payload, Produce(p, payload)
        PROVE  TypeInv'
    BY <2>1 DEF Produce
  <2>2. CASE LoopTop
    BY <2>2 DEF LoopTop
  <2>3. ASSUME NEW p \in Partitions, PollGather(p)
        PROVE  TypeInv'
    BY <2>3 DEF PollGather, Rec, StorageRecord
  <2>4. CASE PollReturn
    BY <2>4 DEF PollReturn
  <2>5. CASE PollReturnError
    <3>1. Elems(fetched) \subseteq StorageRecord
      BY ElemsType
    <3> QED BY <2>5, <3>1 DEF PollReturnError
  <2>6. CASE IterateInvalid
    BY <2>6 DEF IterateInvalid
  <2>7. CASE IterateSend
    <3>1. Head(fetched) \in StorageRecord /\ Tail(fetched) \in Seq(StorageRecord)
      BY <2>7, ElemsHeadTail DEF IterateSend
    <3>2. Len(recordChan') <= ChanCap
      BY <2>7, <3>1, ChanCapAssumption DEF IterateSend
    <3> QED BY <2>7, <3>1, <3>2 DEF IterateSend
  <2>8. CASE IterateDone
    BY <2>8 DEF IterateDone
  <2>9. CASE IterateCancelled
    BY <2>9 DEF IterateCancelled
  <2>10. CASE WorkerReceive
    <3>1. Head(recordChan) \in StorageRecord /\ Tail(recordChan) \in Seq(StorageRecord)
          /\ Len(Tail(recordChan)) = Len(recordChan) - 1
      BY <2>10, HeadTailProperties DEF WorkerReceive
    <3>2. Len(recordChan') <= ChanCap
      BY <2>10, <3>1, ChanCapAssumption DEF WorkerReceive
    <3> QED BY <2>10, <3>1, <3>2, HasHighestAppend DEF WorkerReceive
  <2>11. CASE WorkerTick
    BY <2>11 DEF WorkerTick
  <2>12. CASE WorkerLastFlush
    BY <2>12 DEF WorkerLastFlush
  <2>13. CASE FlushNothing
    BY <2>13 DEF FlushNothing, AfterFlush
  <2>14. CASE PersistAmbiguous
    BY <2>14 DEF PersistAmbiguous, AfterFlush
  <2>15. CASE PersistBatch
    BY <2>15 DEF PersistBatch
  <2>16. CASE CommitRecords
    <3>1. committed' \in [Partitions -> Nat]
      BY <2>16, OffsetsToCommitType DEF CommitRecords
    <3>2. \A p \in Partitions : HasHighest(p, buffer')
      <4>1. buffer' = <<>>
        BY <2>16 DEF CommitRecords
      <4> QED BY <4>1, HasHighestEmpty
    <3> QED BY <2>16, <3>1, <3>2 DEF CommitRecords, AfterFlush
  <2>17. CASE Signal
    BY <2>17 DEF Signal
  <2>18. CASE ShutdownComplete
    BY <2>18 DEF ShutdownComplete
  <2>19. CASE Crash
    <3>1. stops' \in Nat
      BY <2>19 DEF Crash
    <3> QED BY <2>19, <3>1 DEF Crash
  <2>20. CASE Restart
    <3>1. \A p \in Partitions : HasHighest(p, buffer')
      <4>1. buffer' = <<>>
        BY <2>20 DEF Restart
      <4> QED BY <4>1, HasHighestEmpty
    <3>2. Len(recordChan') <= ChanCap
      BY <2>20, ChanCapAssumption DEF Restart
    <3>3. up' \in BOOLEAN /\ cancelled' \in BOOLEAN /\ exiting' \in BOOLEAN
      BY <2>20 DEF Restart
    <3> QED BY <2>20, <3>1, <3>2, <3>3 DEF Restart
  <2>21. CASE UNCHANGED vars
    BY <2>21 DEF vars
  <2> QED BY <2>1, <2>2, <2>3, <2>4, <2>5, <2>6, <2>7, <2>8, <2>9, <2>10, <2>11,
             <2>12, <2>13, <2>14, <2>15, <2>16, <2>17, <2>18, <2>19, <2>20, <2>21
          DEF Next
<1> QED BY <1>1, <1>2, PTL DEF Spec

(* Every reachable state is well typed, and no step overfills recordChan:  *)
(* the consumer's send blocks.                                             *)
THEOREM TypeCorrect == Spec => []TypeOK
<1>1. TypeInv => TypeOK
  BY DEF TypeInv
<1> QED BY <1>1, TypeInvariant, PTL

----------------------------------------------------------------------------
(* Order of the records on their way                                       *)

(* The empty sequence is in offset order. *)
LEMMA IncreasingEmpty == Increasing(<<>>)
BY DEF Increasing

(* A later record keeps a sequence in offset order. *)
LEMMA IncreasingAppend ==
    ASSUME NEW s \in Seq(StorageRecord), NEW e \in StorageRecord,
           Increasing(s), Precedes(Elems(s), {e})
    PROVE  Increasing(Append(s, e))
<1> DEFINE t == Append(s, e)
<1>1. /\ Len(t) = Len(s) + 1
      /\ \A i \in 1..Len(s) : t[i] = s[i]
      /\ t[Len(s) + 1] = e
      /\ Len(s) \in Nat
  BY AppendProperties
<1>2. \A i \in 1..Len(s) : s[i].part = e.part => s[i].off < e.off
  BY DEF Precedes, Elems
<1> HIDE DEF t
<1>3. SUFFICES ASSUME NEW i \in 1..Len(t), NEW j \in 1..Len(t), i < j, t[i].part = t[j].part
               PROVE  t[i].off < t[j].off
  BY DEF Increasing, t
<1>4. i \in 1..Len(s)
  BY <1>1, <1>3
<1>5. CASE j = Len(s) + 1
  BY <1>1, <1>2, <1>3, <1>4, <1>5
<1>6. CASE j \in 1..Len(s)
  BY <1>1, <1>3, <1>4, <1>6 DEF Increasing
<1> QED BY <1>1, <1>5, <1>6

(* So does taking the head off, which precedes the rest. *)
LEMMA IncreasingTail ==
    ASSUME NEW s \in Seq(StorageRecord), s # <<>>, Increasing(s)
    PROVE  Increasing(Tail(s)) /\ Precedes({Head(s)}, Elems(Tail(s)))
<1> DEFINE t == Tail(s)
<1>1. /\ Len(t) = Len(s) - 1
      /\ \A i \in 1..Len(t) : t[i] = s[i + 1]
  BY HeadTailProperties
<1>2. Len(s) \in Nat \ {0} /\ Head(s) = s[1]
  BY EmptySeq
<1>3. Increasing(t)
  BY <1>1, <1>2 DEF Increasing
<1>4. Precedes({Head(s)}, Elems(t))
  <2> SUFFICES ASSUME NEW i \in 1..Len(t), Head(s).part = t[i].part
               PROVE  Head(s).off < t[i].off
    BY DEF Precedes, Elems
  <2>1. 1 \in 1..Len(s) /\ i + 1 \in 1..Len(s) /\ 1 < i + 1 /\ t[i] = s[i + 1]
    BY <1>1, <1>2
  <2> QED BY <1>2, <2>1 DEF Increasing
<1> QED BY <1>3, <1>4

----------------------------------------------------------------------------
(* The inductive step                                                      *)

\* What IInv depends on.
core == <<log, committed, table, position, fetched, recordChan, buffer, dropped>>

(* A step that leaves the records where they are preserves IInv. *)
LEMMA CoreUnchanged ==
    ASSUME IInv, UNCHANGED core, worker' = "commit" => worker = "commit"
    PROVE  IInv'
BY DEF core, IInv, PipelineOrdered, PipelineBetweenOffsets, OffsetsInLog, OnlyParsed,
       FetchedAccountedFor, CommitBacked, RowsPublished, InPipeline, Persisted,
       Published, Exists, ParsesOK, PayloadOf

(* Everything in the process is at most at the end of the log. *)
LEMMA PipelineExists ==
    ASSUME TypeOK, IInv, NEW r \in InPipeline
    PROVE  r \in StorageRecord /\ Exists(r)
<1>1. r \in StorageRecord
  BY ElemsType DEF InPipeline, TypeOK
<1>2. r.off < position[r.part] /\ position[r.part] <= Len(log[r.part])
  BY <1>1 DEF IInv, PipelineBetweenOffsets, OffsetsInLog, StorageRecord
<1>3. r.off \in Nat /\ position[r.part] \in Nat /\ Len(log[r.part]) \in Nat
  BY <1>1 DEF StorageRecord, TypeOK
<1> QED BY <1>1, <1>2, <1>3 DEF Exists

(* Appending to the log changes no record that exists. *)
LEMMA ProduceKeepsRecords ==
    ASSUME TypeOK, NEW p \in Partitions, NEW payload \in Payload, Produce(p, payload),
           NEW r \in StorageRecord, Exists(r)
    PROVE  Exists(r)' /\ PayloadOf(r)' = PayloadOf(r)
<1>1. log[r.part] \in Seq(Payload) /\ r.off \in Nat /\ r.part \in Partitions
  BY DEF TypeOK, StorageRecord
<1>2. CASE r.part = p
  <2>1. log'[r.part] = Append(log[r.part], payload)
    BY <1>1, <1>2 DEF Produce, TypeOK
  <2> QED BY <1>1, <2>1, AppendProperties DEF Exists, PayloadOf
<1>3. CASE r.part # p
  <2>1. log'[r.part] = log[r.part]
    BY <1>1, <1>3 DEF Produce, TypeOK
  <2> QED BY <2>1 DEF Exists, PayloadOf
<1> QED BY <1>2, <1>3

(* A new record at the end of a partition. *)
LEMMA PreserveProduce ==
    ASSUME TypeOK, IInv, NEW p \in Partitions, NEW payload \in Payload, Produce(p, payload)
    PROVE  IInv'
<1> USE DEF external, memory
<1>1. UNCHANGED <<committed, table, position, fetched, recordChan, buffer, dropped, worker>>
  BY DEF Produce
<1>2. PipelineOrdered' /\ PipelineBetweenOffsets' /\ CommitBacked'
  BY <1>1 DEF IInv, PipelineOrdered, PipelineBetweenOffsets, InPipeline, CommitBacked, Persisted
<1>3. \A q \in Partitions : Len(log[q]) <= Len(log'[q]) /\ Len(log[q]) \in Nat /\ Len(log'[q]) \in Nat
  <2> SUFFICES ASSUME NEW q \in Partitions
               PROVE  Len(log[q]) <= Len(log'[q]) /\ Len(log[q]) \in Nat /\ Len(log'[q]) \in Nat
    OBVIOUS
  <2>1. log[q] \in Seq(Payload) /\ (log'[q] = log[q] \/ log'[q] = Append(log[q], payload))
    BY DEF Produce, TypeOK
  <2> QED BY <2>1, AppendProperties
<1>4. OffsetsInLog'
  <2> SUFFICES ASSUME NEW q \in Partitions
               PROVE  committed[q] <= position[q] /\ position[q] <= Len(log'[q])
    BY <1>1 DEF OffsetsInLog
  <2>1. committed[q] <= position[q] /\ position[q] <= Len(log[q]) /\ position[q] \in Nat
    BY DEF IInv, OffsetsInLog, TypeOK
  <2> QED BY <1>3, <2>1
<1>5. OnlyParsed'
  <2> SUFFICES ASSUME NEW r \in Elems(buffer) \cup Elems(recordChan)
               PROVE  ParsesOK(r)'
    BY <1>1 DEF OnlyParsed
  <2>1. r \in StorageRecord /\ Exists(r)
    BY PipelineExists DEF InPipeline
  <2>2. ParsesOK(r)
    BY DEF IInv, OnlyParsed
  <2> QED BY <2>1, <2>2, ProduceKeepsRecords DEF ParsesOK
<1>6. FetchedAccountedFor'
  <2> SUFFICES ASSUME NEW q \in Partitions, NEW o \in 0..position[q] - 1, ParsesOK(Rec(q, o))'
               PROVE  Persisted(Rec(q, o)) \/ Rec(q, o) \in dropped \/ Rec(q, o) \in InPipeline
    BY <1>1 DEF FetchedAccountedFor, Persisted, InPipeline
  <2>1. position[q] \in Nat /\ Len(log[q]) \in Nat /\ position[q] <= Len(log[q])
    BY <1>3 DEF IInv, OffsetsInLog, TypeOK
  <2>2. Rec(q, o) \in StorageRecord /\ Exists(Rec(q, o))
    BY <2>1 DEF Rec, StorageRecord, Exists
  <2>3. ParsesOK(Rec(q, o))
    BY <2>2, ProduceKeepsRecords DEF ParsesOK
  <2> QED BY <2>3 DEF IInv, FetchedAccountedFor
<1>7. RowsPublished'
  <2> SUFFICES ASSUME NEW r \in Elems(table)
               PROVE  Published(r)'
    BY <1>1 DEF RowsPublished
  <2>1. r \in StorageRecord /\ Exists(r) /\ ParsesOK(r)
    BY ElemsType DEF IInv, RowsPublished, Published, TypeOK
  <2> QED BY <2>1, ProduceKeepsRecords DEF Published, ParsesOK
<1> QED BY <1>2, <1>4, <1>5, <1>6, <1>7 DEF IInv

(* A record enters the fetch, behind everything fetched before. *)
LEMMA PreservePollGather ==
    ASSUME TypeOK, IInv, NEW p \in Partitions, PollGather(p)
    PROVE  IInv'
<1> USE DEF external, memory
<1> DEFINE e == Rec(p, position[p])
<1>1. /\ UNCHANGED <<log, committed, table, recordChan, buffer, dropped, worker>>
      /\ fetched' = Append(fetched, e)
      /\ position' = [position EXCEPT ![p] = @ + 1]
      /\ position[p] < Len(log[p])
  BY DEF PollGather
<1>2. e \in StorageRecord /\ e.part = p /\ e.off = position[p]
  BY DEF Rec, StorageRecord, TypeOK
<1>3. Elems(fetched') = Elems(fetched) \cup {e}
  BY <1>1, <1>2, ElemsAppend DEF TypeOK
<1>4. InPipeline' = InPipeline \cup {e}
  BY <1>1, <1>3 DEF InPipeline
<1>5. \A r \in InPipeline : r.part = p => r.off < e.off
  BY <1>2 DEF IInv, PipelineBetweenOffsets
<1> HIDE DEF e
<1>6. PipelineOrdered'
  <2>1. Precedes(Elems(fetched), {e}) /\ Precedes(Elems(buffer), {e})
        /\ Precedes(Elems(recordChan), {e})
    BY <1>2, <1>5 DEF Precedes, InPipeline
  <2>2. Increasing(fetched')
    BY <1>1, <1>2, <2>1, IncreasingAppend DEF IInv, PipelineOrdered, TypeOK
  <2> QED BY <1>1, <1>3, <2>1, <2>2 DEF IInv, PipelineOrdered, Precedes
<1>7. PipelineBetweenOffsets'
  <2> SUFFICES ASSUME NEW r \in InPipeline \cup {e}
               PROVE  committed[r.part] <= r.off /\ r.off < position'[r.part]
    BY <1>1, <1>4 DEF PipelineBetweenOffsets
  <2>1. r \in StorageRecord
    BY <1>2, PipelineExists
  <2>2. committed[p] <= position[p]
    BY DEF IInv, OffsetsInLog
  <2>3. CASE r = e
    BY <1>1, <1>2, <2>2, <2>3 DEF TypeOK
  <2>4. CASE r \in InPipeline
    BY <1>1, <2>1, <2>4 DEF TypeOK, IInv, PipelineBetweenOffsets, StorageRecord
  <2> QED BY <2>3, <2>4
<1>8. OffsetsInLog'
  BY <1>1 DEF IInv, OffsetsInLog, TypeOK
<1>9. OnlyParsed' /\ CommitBacked' /\ RowsPublished'
  BY <1>1 DEF IInv, OnlyParsed, CommitBacked, RowsPublished, Persisted, Published, Exists,
              ParsesOK, PayloadOf
<1>10. FetchedAccountedFor'
  <2> SUFFICES ASSUME NEW q \in Partitions, NEW o \in 0..position'[q] - 1, ParsesOK(Rec(q, o))
               PROVE  \/ Persisted(Rec(q, o)) \/ Rec(q, o) \in dropped
                      \/ Rec(q, o) \in InPipeline \cup {e}
    BY <1>1, <1>4 DEF FetchedAccountedFor, Persisted, ParsesOK, PayloadOf
  <2>1. CASE q = p /\ o = position[p]
    BY <2>1 DEF e
  <2>2. CASE ~(q = p /\ o = position[p])
    <3>1. o \in 0..position[q] - 1
      BY <1>1, <2>2 DEF TypeOK
    <3> QED BY <3>1 DEF IInv, FetchedAccountedFor
  <2> QED BY <2>1, <2>2
<1> QED BY <1>6, <1>7, <1>8, <1>9, <1>10 DEF IInv

(* A fetch discarded because of an error moves to dropped. *)
LEMMA PreservePollReturnError ==
    ASSUME TypeOK, IInv, PollReturnError
    PROVE  IInv'
<1> USE DEF external, memory
<1>1. /\ UNCHANGED <<log, committed, table, position, recordChan, buffer, worker>>
      /\ dropped' = dropped \cup Elems(fetched)
      /\ fetched' = <<>>
  BY DEF PollReturnError
<1>2. InPipeline' \cup dropped' = InPipeline \cup dropped /\ InPipeline' \subseteq InPipeline
  BY <1>1, ElemsEmpty DEF InPipeline
<1>3. PipelineOrdered'
  BY <1>1, ElemsEmpty, IncreasingEmpty DEF IInv, PipelineOrdered, Precedes
<1>4. PipelineBetweenOffsets' /\ OffsetsInLog' /\ OnlyParsed' /\ CommitBacked' /\ RowsPublished'
  BY <1>1, <1>2 DEF IInv, PipelineBetweenOffsets, OffsetsInLog, OnlyParsed, CommitBacked,
                    RowsPublished, Persisted, Published, Exists, ParsesOK, PayloadOf
<1>5. FetchedAccountedFor'
  BY <1>1, <1>2 DEF IInv, FetchedAccountedFor, Persisted, ParsesOK, PayloadOf
<1> QED BY <1>3, <1>4, <1>5 DEF IInv

(* A record that does not parse leaves the fetch. *)
LEMMA PreserveIterateInvalid ==
    ASSUME TypeOK, IInv, IterateInvalid
    PROVE  IInv'
<1> USE DEF external, memory
<1> DEFINE h == Head(fetched)
<1>1. /\ UNCHANGED <<log, committed, table, position, recordChan, buffer, worker, dropped>>
      /\ fetched # <<>>
      /\ fetched' = Tail(fetched)
      /\ ~ParsesOK(h)
  BY DEF IterateInvalid
<1>2. Elems(fetched) = {h} \cup Elems(fetched') /\ Increasing(fetched')
  BY <1>1, ElemsHeadTail, IncreasingTail DEF IInv, PipelineOrdered, TypeOK
<1> HIDE DEF h
<1>3. InPipeline = InPipeline' \cup {h}
  BY <1>1, <1>2 DEF InPipeline
<1>4. PipelineOrdered'
  BY <1>1, <1>2 DEF IInv, PipelineOrdered, Precedes
<1>5. PipelineBetweenOffsets' /\ OffsetsInLog' /\ OnlyParsed' /\ CommitBacked' /\ RowsPublished'
  BY <1>1, <1>3 DEF IInv, PipelineBetweenOffsets, OffsetsInLog, OnlyParsed, CommitBacked,
                    RowsPublished, Persisted, Published, Exists, ParsesOK, PayloadOf
<1>6. FetchedAccountedFor'
  <2> SUFFICES ASSUME NEW q \in Partitions, NEW o \in 0..position[q] - 1, ParsesOK(Rec(q, o))
               PROVE  \/ Persisted(Rec(q, o)) \/ Rec(q, o) \in dropped
                      \/ Rec(q, o) \in InPipeline'
    BY <1>1 DEF FetchedAccountedFor, Persisted, ParsesOK, PayloadOf
  <2>1. Rec(q, o) # h
    BY <1>1
  <2> QED BY <1>3, <2>1 DEF IInv, FetchedAccountedFor
<1> QED BY <1>4, <1>5, <1>6 DEF IInv

(* A record moves from the fetch to the channel. *)
LEMMA PreserveIterateSend ==
    ASSUME TypeOK, IInv, IterateSend
    PROVE  IInv'
<1> USE DEF external, memory
<1> DEFINE h == Head(fetched)
<1>1. /\ UNCHANGED <<log, committed, table, position, buffer, worker, dropped>>
      /\ fetched # <<>>
      /\ fetched' = Tail(fetched)
      /\ recordChan' = Append(recordChan, h)
      /\ ParsesOK(h)
  BY DEF IterateSend
<1>2. /\ h \in StorageRecord
      /\ Elems(fetched) = {h} \cup Elems(fetched')
      /\ Increasing(fetched')
      /\ Precedes({h}, Elems(fetched'))
  BY <1>1, ElemsHeadTail, IncreasingTail DEF IInv, PipelineOrdered, TypeOK
<1>3. Elems(recordChan') = Elems(recordChan) \cup {h}
  BY <1>1, <1>2, ElemsAppend DEF TypeOK
<1> HIDE DEF h
<1>4. InPipeline' = InPipeline
  BY <1>1, <1>2, <1>3 DEF InPipeline
<1>5. PipelineOrdered'
  <2>1. Precedes(Elems(recordChan), {h})
    BY <1>2 DEF IInv, PipelineOrdered, Precedes
  <2>2. Increasing(recordChan')
    BY <1>1, <1>2, <2>1, IncreasingAppend DEF IInv, PipelineOrdered, TypeOK
  <2> QED BY <1>1, <1>2, <1>3, <2>2 DEF IInv, PipelineOrdered, Precedes
<1>6. PipelineBetweenOffsets' /\ OffsetsInLog' /\ OnlyParsed' /\ CommitBacked' /\ RowsPublished'
  BY <1>1, <1>3, <1>4 DEF IInv, PipelineBetweenOffsets, OffsetsInLog, OnlyParsed, CommitBacked,
                    RowsPublished, Persisted, Published, Exists, ParsesOK, PayloadOf
<1>7. FetchedAccountedFor'
  BY <1>1, <1>4 DEF IInv, FetchedAccountedFor, Persisted, ParsesOK, PayloadOf
<1> QED BY <1>5, <1>6, <1>7 DEF IInv

(* A record moves from the channel to the buffer. *)
LEMMA PreserveWorkerReceive ==
    ASSUME TypeOK, IInv, WorkerReceive
    PROVE  IInv'
<1> USE DEF external, memory
<1> DEFINE h == Head(recordChan)
<1>1. /\ UNCHANGED <<log, committed, table, position, fetched, dropped>>
      /\ recordChan # <<>>
      /\ recordChan' = Tail(recordChan)
      /\ buffer' = Append(buffer, h)
      /\ worker' # "commit"
  BY DEF WorkerReceive
<1>2. /\ h \in StorageRecord
      /\ Elems(recordChan) = {h} \cup Elems(recordChan')
      /\ Increasing(recordChan')
      /\ Precedes({h}, Elems(recordChan'))
  BY <1>1, ElemsHeadTail, IncreasingTail DEF IInv, PipelineOrdered, TypeOK
<1>3. Elems(buffer') = Elems(buffer) \cup {h}
  BY <1>1, <1>2, ElemsAppend DEF TypeOK
<1> HIDE DEF h
<1>4. InPipeline' = InPipeline
  BY <1>1, <1>2, <1>3 DEF InPipeline
<1>5. PipelineOrdered'
  <2>1. Precedes(Elems(buffer), {h})
    BY <1>2 DEF IInv, PipelineOrdered, Precedes
  <2>2. Increasing(buffer')
    BY <1>1, <1>2, <2>1, IncreasingAppend DEF IInv, PipelineOrdered, TypeOK
  <2> QED BY <1>1, <1>2, <1>3, <2>2 DEF IInv, PipelineOrdered, Precedes
<1>6. PipelineBetweenOffsets' /\ OffsetsInLog' /\ OnlyParsed' /\ CommitBacked' /\ RowsPublished'
  BY <1>1, <1>2, <1>3, <1>4
     DEF IInv, PipelineBetweenOffsets, OffsetsInLog, OnlyParsed, CommitBacked,
         RowsPublished, Persisted, Published, Exists, ParsesOK, PayloadOf
<1>7. FetchedAccountedFor'
  BY <1>1, <1>4 DEF IInv, FetchedAccountedFor, Persisted, ParsesOK, PayloadOf
<1> QED BY <1>5, <1>6, <1>7 DEF IInv

(* A transaction adds the buffer to the table, whether or not the worker   *)
(* learns of it.                                                           *)
LEMMA PreservePersist ==
    ASSUME TypeOK, IInv, PersistBatch \/ PersistAmbiguous
    PROVE  IInv'
<1> USE DEF external, memory
<1>1. /\ UNCHANGED <<log, committed, position, fetched, recordChan, buffer, dropped>>
      /\ table' = table \o buffer
  BY DEF PersistBatch, PersistAmbiguous
<1>2. Elems(table') = Elems(table) \cup Elems(buffer)
  BY <1>1, ElemsConcat DEF TypeOK
<1>3. InPipeline' = InPipeline
  BY <1>1 DEF InPipeline
<1>4. PipelineOrdered' /\ PipelineBetweenOffsets' /\ OffsetsInLog' /\ OnlyParsed'
  BY <1>1, <1>3 DEF IInv, PipelineOrdered, PipelineBetweenOffsets, OffsetsInLog, OnlyParsed,
                    ParsesOK, PayloadOf
<1>5. FetchedAccountedFor' /\ CommitBacked'
  BY <1>1, <1>2, <1>3 DEF IInv, FetchedAccountedFor, CommitBacked, Persisted, ParsesOK, PayloadOf
<1>6. RowsPublished'
  <2>1. \A r \in Elems(buffer) : Exists(r) /\ ParsesOK(r)
    BY PipelineExists DEF IInv, OnlyParsed, InPipeline
  <2> QED BY <1>1, <1>2, <2>1 DEF IInv, RowsPublished, Published, Exists, ParsesOK, PayloadOf
<1> QED BY <1>4, <1>5, <1>6 DEF IInv

(* Per partition, the new offset is past the buffer and not past what      *)
(* follows it.                                                             *)
LEMMA CommittedBetween ==
    ASSUME TypeInv, IInv, CommitRecords, NEW p \in Partitions
    PROVE  /\ committed[p] <= committed'[p]
           /\ committed'[p] <= position[p]
           /\ \A r \in Elems(recordChan) \cup Elems(fetched) : r.part = p => committed'[p] <= r.off
<1>1. /\ buffer \in Seq(StorageRecord) /\ HasHighest(p, buffer)
      /\ committed[p] \in Nat /\ position[p] \in Nat
  BY DEF TypeInv, TypeOK
<1>2. /\ committed[p] <= position[p]
      /\ \A r \in InPipeline : committed[r.part] <= r.off /\ r.off < position[r.part]
      /\ Precedes(Elems(buffer), Elems(recordChan))
      /\ Precedes(Elems(buffer), Elems(fetched))
  BY DEF IInv, OffsetsInLog, PipelineBetweenOffsets, PipelineOrdered
<1>3. \A r \in InPipeline : r \in StorageRecord
  BY PipelineExists DEF TypeInv
<1>4. CASE committed'[p] = committed[p]
  BY <1>1, <1>2, <1>3, <1>4 DEF InPipeline
<1>5. CASE OffsetsIn(p, buffer) # {} /\ committed'[p] = HighestOffset(p, buffer) + 1
  <2> DEFINE m == HighestOffset(p, buffer)
  <2>1. m \in OffsetsIn(p, buffer) /\ m \in Nat
    BY <1>1, <1>5, HighestOffsetProperties
  <2> HIDE DEF m
  <2>2. PICK b \in Elems(buffer) : b.part = p /\ b.off = m
    BY <2>1 DEF OffsetsIn
  <2>3. committed[p] <= m /\ m < position[p]
    BY <1>2, <2>2 DEF InPipeline
  <2>4. ASSUME NEW r \in Elems(recordChan) \cup Elems(fetched), r.part = p
        PROVE  m + 1 <= r.off
    <3>1. r.off \in Nat
      BY <1>3 DEF InPipeline, StorageRecord
    <3>2. m < r.off
      BY <1>2, <2>2, <2>4 DEF Precedes
    <3> QED BY <2>1, <3>1, <3>2
  <2> QED BY <1>1, <1>5, <2>1, <2>3, <2>4 DEF m
<1>6. committed'[p] = committed[p]
      \/ (OffsetsIn(p, buffer) # {} /\ committed'[p] = HighestOffset(p, buffer) + 1)
  BY DEF CommitRecords, OffsetsToCommit
<1> QED BY <1>4, <1>5, <1>6

(* The batch, all of it in the table, leaves the process. *)
LEMMA PreserveCommitRecords ==
    ASSUME TypeInv, IInv, CommitRecords
    PROVE  IInv'
<1> USE DEF external, memory
<1>1. /\ UNCHANGED <<log, table, position, fetched, recordChan, dropped>>
      /\ buffer' = <<>>
      /\ worker = "commit"
      /\ worker' # "commit"
  BY DEF CommitRecords, AfterFlush
<1>2. /\ Elems(buffer') = {}
      /\ InPipeline' = Elems(recordChan) \cup Elems(fetched)
      /\ InPipeline = InPipeline' \cup Elems(buffer)
  BY <1>1, ElemsEmpty DEF InPipeline
<1>3. PipelineOrdered'
  BY <1>1, <1>2, IncreasingEmpty DEF IInv, PipelineOrdered, Precedes
<1>4. PipelineBetweenOffsets'
  <2> SUFFICES ASSUME NEW r \in Elems(recordChan) \cup Elems(fetched)
               PROVE  committed'[r.part] <= r.off /\ r.off < position[r.part]
    BY <1>1, <1>2 DEF PipelineBetweenOffsets
  <2>1. r \in StorageRecord /\ r \in InPipeline
    BY PipelineExists DEF InPipeline, TypeInv
  <2>2. r.off < position[r.part]
    BY <2>1 DEF IInv, PipelineBetweenOffsets
  <2> QED BY <2>1, <2>2, CommittedBetween DEF StorageRecord
<1>5. OffsetsInLog'
  BY <1>1, CommittedBetween DEF IInv, OffsetsInLog
<1>6. OnlyParsed' /\ CommitBacked' /\ RowsPublished'
  BY <1>1, <1>2 DEF IInv, OnlyParsed, CommitBacked, RowsPublished, Published, Exists, ParsesOK,
                    PayloadOf
<1>7. FetchedAccountedFor'
  <2>1. \A r \in Elems(buffer) : Persisted(r)
    BY <1>1 DEF IInv, CommitBacked
  <2> QED BY <1>1, <1>2, <2>1 DEF IInv, FetchedAccountedFor, Persisted, ParsesOK, PayloadOf
<1> QED BY <1>3, <1>4, <1>5, <1>6, <1>7 DEF IInv

(* What is below the committed offset has left the process for good. *)
LEMMA CommittedAccountedFor ==
    ASSUME TypeOK, IInv
    PROVE  LossOnlyOnFetchError
<1> SUFFICES ASSUME NEW p \in Partitions, NEW o \in 0..committed[p] - 1, ParsesOK(Rec(p, o))
             PROVE  Persisted(Rec(p, o)) \/ Rec(p, o) \in dropped
  BY DEF LossOnlyOnFetchError
<1>1. committed[p] \in Nat /\ position[p] \in Nat /\ committed[p] <= position[p]
  BY DEF TypeOK, IInv, OffsetsInLog
<1>2. o \in 0..position[p] - 1
  BY <1>1
<1>3. Rec(p, o) \notin InPipeline
  <2> SUFFICES ASSUME Rec(p, o) \in InPipeline PROVE FALSE
    OBVIOUS
  <2>1. Rec(p, o).part = p /\ Rec(p, o).off = o
    BY DEF Rec
  <2>2. committed[p] <= o
    BY <2>1 DEF IInv, PipelineBetweenOffsets
  <2> QED BY <1>1, <2>2
<1> QED BY <1>2, <1>3 DEF IInv, FetchedAccountedFor

(* A restart resumes from the committed offsets with nothing in memory. *)
LEMMA PreserveRestart ==
    ASSUME TypeOK, IInv, Restart
    PROVE  IInv'
<1> USE DEF external, memory
<1>1. /\ UNCHANGED <<log, committed, table, dropped>>
      /\ position' = committed
      /\ fetched' = <<>> /\ recordChan' = <<>> /\ buffer' = <<>>
      /\ worker' = "select"
  BY DEF Restart
<1>2. Elems(fetched') = {} /\ Elems(recordChan') = {} /\ Elems(buffer') = {} /\ InPipeline' = {}
  BY <1>1, ElemsEmpty DEF InPipeline
<1>3. PipelineOrdered'
  BY <1>1, <1>2, IncreasingEmpty DEF PipelineOrdered, Precedes
<1>4. PipelineBetweenOffsets' /\ OnlyParsed' /\ CommitBacked' /\ RowsPublished'
  BY <1>1, <1>2 DEF IInv, PipelineBetweenOffsets, OnlyParsed, CommitBacked, RowsPublished,
                    Persisted, Published, Exists, ParsesOK, PayloadOf
<1>5. OffsetsInLog'
  <2> SUFFICES ASSUME NEW p \in Partitions
               PROVE  committed[p] <= committed[p] /\ committed[p] <= Len(log[p])
    BY <1>1 DEF OffsetsInLog
  <2>1. committed[p] \in Nat /\ position[p] \in Nat /\ Len(log[p]) \in Nat
    BY DEF TypeOK
  <2> QED BY <2>1 DEF IInv, OffsetsInLog
<1>6. FetchedAccountedFor'
  <2>1. LossOnlyOnFetchError
    BY CommittedAccountedFor
  <2> QED BY <1>1, <2>1 DEF LossOnlyOnFetchError, FetchedAccountedFor, Persisted, ParsesOK,
                            PayloadOf
<1> QED BY <1>3, <1>4, <1>5, <1>6 DEF IInv

(* IInv holds in every reachable state. *)
THEOREM InductiveInvariant == Spec => []IInv
<1>1. Init => IInv
  <2> SUFFICES ASSUME Init PROVE IInv
    OBVIOUS
  <2>1. /\ table = <<>> /\ fetched = <<>> /\ recordChan = <<>> /\ buffer = <<>>
        /\ worker = "select"
        /\ \A p \in Partitions : committed[p] = 0 /\ position[p] = 0 /\ Len(log[p]) = 0
    BY DEF Init
  <2>2. Elems(table) = {} /\ Elems(fetched) = {} /\ Elems(recordChan) = {} /\ Elems(buffer) = {}
        /\ InPipeline = {}
    BY <2>1, ElemsEmpty DEF InPipeline
  <2> QED BY <2>1, <2>2, IncreasingEmpty
          DEF IInv, PipelineOrdered, Precedes, PipelineBetweenOffsets, OffsetsInLog, OnlyParsed,
              FetchedAccountedFor, CommitBacked, RowsPublished
<1>2. TypeInv /\ IInv /\ [Next]_vars => IInv'
  <2> SUFFICES ASSUME TypeInv, IInv, [Next]_vars
               PROVE  IInv'
    OBVIOUS
  <2>1. TypeOK
    BY DEF TypeInv
  <2>2. ASSUME NEW p \in Partitions, NEW payload \in Payload, Produce(p, payload)
        PROVE  IInv'
    BY <2>1, <2>2, PreserveProduce
  <2>3. ASSUME NEW p \in Partitions, PollGather(p)
        PROVE  IInv'
    BY <2>1, <2>3, PreservePollGather
  <2>4. CASE PollReturnError
    BY <2>1, <2>4, PreservePollReturnError
  <2>5. CASE IterateInvalid
    BY <2>1, <2>5, PreserveIterateInvalid
  <2>6. CASE IterateSend
    BY <2>1, <2>6, PreserveIterateSend
  <2>7. CASE WorkerReceive
    BY <2>1, <2>7, PreserveWorkerReceive
  <2>8. CASE PersistAmbiguous \/ PersistBatch
    BY <2>1, <2>8, PreservePersist
  <2>9. CASE CommitRecords
    BY <2>9, PreserveCommitRecords
  <2>10. CASE Restart
    BY <2>1, <2>10, PreserveRestart
  <2>11. CASE LoopTop \/ PollReturn \/ IterateDone \/ IterateCancelled \/ WorkerTick
              \/ WorkerLastFlush \/ FlushNothing \/ Signal \/ ShutdownComplete \/ Crash
              \/ UNCHANGED vars
    <3>1. UNCHANGED core /\ (worker' = "commit" => worker = "commit")
      BY <2>11 DEF LoopTop, PollReturn, IterateDone, IterateCancelled, WorkerTick,
                   WorkerLastFlush, FlushNothing, AfterFlush, Signal, ShutdownComplete, Crash,
                   vars, external, memory, core
    <3> QED BY <3>1, CoreUnchanged
  <2> QED BY <2>2, <2>3, <2>4, <2>5, <2>6, <2>7, <2>8, <2>9, <2>10, <2>11 DEF Next
<1> QED BY <1>1, <1>2, TypeInvariant, PTL DEF Spec

----------------------------------------------------------------------------
(* What it establishes                                                     *)

(* A valid record below the committed offset is in the table unless the    *)
(* consumer discarded it together with a fetch error.                      *)
THEOREM LossOnlyOnFetchErrorHolds == Spec => []LossOnlyOnFetchError
<1>1. TypeOK /\ IInv => LossOnlyOnFetchError
  BY CommittedAccountedFor
<1> QED BY <1>1, TypeCorrect, InductiveInvariant, PTL

NoneDropped == dropped = {}

(* Nothing is dropped when a fetch with an error holds no records. *)
LEMMA NothingDropped ==
    ASSUME ~ErrorsCarryRecords
    PROVE  Spec => []NoneDropped
<1>1. Init => NoneDropped
  BY DEF Init, NoneDropped
<1>2. NoneDropped /\ [Next]_vars => NoneDropped'
  <2> SUFFICES ASSUME dropped = {}, [Next]_vars
               PROVE  dropped' = {}
    BY DEF NoneDropped
  <2>1. CASE PollReturnError
    BY <2>1, ElemsEmpty DEF PollReturnError
  <2>2. CASE ~PollReturnError
    BY <2>2 DEF Next, vars, Produce, LoopTop, PollGather, PollReturn, IterateInvalid,
        IterateSend, IterateDone, IterateCancelled, WorkerReceive, WorkerTick,
        WorkerLastFlush, FlushNothing, PersistAmbiguous, PersistBatch, CommitRecords,
        Signal, ShutdownComplete, Crash, Restart
  <2> QED BY <2>1, <2>2
<1> QED BY <1>1, <1>2, PTL DEF Spec

(* Without such fetches the ingester is at-least-once: no crash, restart,  *)
(* failed or ambiguous transaction, or failed commit loses a record.       *)
THEOREM AtLeastOnceHolds ==
    ASSUME ~ErrorsCarryRecords
    PROVE  Spec => []AtLeastOnce
<1>1. LossOnlyOnFetchError /\ NoneDropped => AtLeastOnce
  BY DEF NoneDropped, LossOnlyOnFetchError, AtLeastOnce
<1>2. Spec => []NoneDropped
  BY NothingDropped
<1> QED BY <1>1, <1>2, LossOnlyOnFetchErrorHolds, PTL

(* No step moves a committed offset back. *)
THEOREM OffsetsNeverRegressHolds == Spec => OffsetsNeverRegress
<1>1. TypeInv /\ IInv /\ [Next]_vars =>
        [\A p \in Partitions : committed'[p] >= committed[p]]_vars
  <2> SUFFICES ASSUME TypeInv, IInv, Next, NEW p \in Partitions
               PROVE  committed'[p] >= committed[p]
    OBVIOUS
  <2>1. committed[p] \in Nat
    BY DEF TypeInv, TypeOK
  <2>2. CASE CommitRecords
    BY <2>1, <2>2, CommittedBetween
  <2>3. CASE ~CommitRecords
    <3>1. committed' = committed
      BY <2>3 DEF Next, external, Produce, LoopTop, PollGather, PollReturn, PollReturnError,
          IterateInvalid, IterateSend, IterateDone, IterateCancelled, WorkerReceive,
          WorkerTick, WorkerLastFlush, FlushNothing, PersistAmbiguous, PersistBatch, Signal,
          ShutdownComplete, Crash, Restart
    <3> QED BY <2>1, <3>1
  <2> QED BY <2>2, <2>3
<1> QED BY <1>1, TypeInvariant, InductiveInvariant, PTL DEF Spec, OffsetsNeverRegress

(* A batch never leaves a hole behind it. *)
LEMMA PersistLeavesNoHole ==
    ASSUME TypeOK, IInv, NoHoles, PersistBatch \/ PersistAmbiguous
    PROVE  NoHoles'
<1> USE DEF external, memory
<1>1. UNCHANGED <<log, dropped>> /\ table' = table \o buffer
  BY DEF PersistBatch, PersistAmbiguous
<1>2. /\ Len(table) \in Nat /\ Len(buffer) \in Nat
      /\ Len(table') = Len(table) + Len(buffer)
      /\ \A i \in 1..Len(table) : table'[i] = table[i]
      /\ \A i \in 1..Len(buffer) : table'[Len(table) + i] = buffer[i]
  BY <1>1, ConcatProperties DEF TypeOK
<1> SUFFICES ASSUME NEW i \in 1..Len(table'), NEW o \in 0..table'[i].off - 1,
                    ParsesOK(Rec(table'[i].part, o)), Rec(table'[i].part, o) \notin dropped
             PROVE  \E j \in 1..i - 1 : table'[j] = Rec(table'[i].part, o)
  BY <1>1 DEF NoHoles, ParsesOK, PayloadOf
<1>3. CASE i \in 1..Len(table)
  <2>1. \E j \in 1..i - 1 : table[j] = Rec(table[i].part, o)
    BY <1>2, <1>3 DEF NoHoles
  <2> QED BY <1>2, <1>3, <2>1
<1>4. CASE i \notin 1..Len(table)
  <2> DEFINE k == i - Len(table)
             r == buffer[k]
             x == Rec(r.part, o)
  <2>1. k \in 1..Len(buffer) /\ table'[i] = r
    BY <1>2, <1>4
  <2>2. r \in StorageRecord /\ r \in Elems(buffer) /\ r \in InPipeline
    BY <2>1, ElementOfSeq DEF TypeOK, Elems, InPipeline
  <2> HIDE DEF k, r
  <2>3. x.part = r.part /\ x.off = o /\ o \in Nat /\ o < r.off
    BY <2>1, <2>2 DEF Rec, StorageRecord
  <2>4. Persisted(x) \/ x \in InPipeline
    <3>1. position[r.part] \in Nat /\ r.off < position[r.part] /\ r.part \in Partitions
      BY <2>2 DEF TypeOK, IInv, PipelineBetweenOffsets, StorageRecord
    <3>2. o \in 0..position[r.part] - 1
      BY <2>2, <2>3, <3>1 DEF StorageRecord
    <3> QED BY <2>1, <3>1, <3>2 DEF IInv, FetchedAccountedFor
  <2>5. CASE Persisted(x)
    <3>1. PICK j \in 1..Len(table) : x = table[j]
      BY <2>5 DEF Persisted, Elems
    <3>2. j \in 1..i - 1 /\ table'[j] = x
      BY <1>2, <1>4, <3>1
    <3> QED BY <2>1, <3>2
  <2>6. CASE x \in Elems(buffer)
    <3>1. PICK m \in 1..Len(buffer) : x = buffer[m]
      BY <2>6 DEF Elems
    <3>2. r = buffer[k]
      BY DEF r
    <3>3. m < k
      <4>1. ASSUME k < m PROVE FALSE
        <5>1. r.off < x.off
          BY <2>1, <2>3, <3>1, <3>2, <4>1 DEF IInv, PipelineOrdered, Increasing
        <5> QED BY <2>2, <2>3, <5>1 DEF StorageRecord
      <4>2. k # m
        BY <2>2, <2>3, <3>1, <3>2 DEF StorageRecord
      <4> QED BY <2>1, <4>1, <4>2
    <3>4. Len(table) + m \in 1..i - 1 /\ table'[Len(table) + m] = x
      BY <1>2, <2>1, <3>1, <3>3 DEF k
    <3> QED BY <2>1, <3>4
  <2>7. CASE x \in Elems(recordChan) \cup Elems(fetched)
    <3>1. r.off < x.off
      BY <2>2, <2>3, <2>7 DEF IInv, PipelineOrdered, Precedes
    <3> QED BY <2>2, <2>3, <3>1 DEF StorageRecord
  <2> QED BY <2>4, <2>5, <2>6, <2>7 DEF InPipeline
<1> QED BY <1>3, <1>4

(* Publishing a record opens no hole below a row. *)
LEMMA ProduceLeavesNoHole ==
    ASSUME TypeOK, IInv, NoHoles, NEW p \in Partitions, NEW payload \in Payload,
           Produce(p, payload)
    PROVE  NoHoles'
<1>1. UNCHANGED <<table, dropped>>
  BY DEF Produce
<1> SUFFICES ASSUME NEW i \in 1..Len(table), NEW o \in 0..table[i].off - 1,
                    ParsesOK(Rec(table[i].part, o))'
             PROVE  \/ Rec(table[i].part, o) \in dropped
                    \/ \E j \in 1..i - 1 : table[j] = Rec(table[i].part, o)
  BY <1>1 DEF NoHoles
<1>2. table[i] \in StorageRecord /\ table[i].off < Len(log[table[i].part])
  BY ElementOfSeq DEF IInv, RowsPublished, Published, Exists, Elems, TypeOK
<1>3. Len(log[table[i].part]) \in Nat
  BY <1>2 DEF TypeOK, StorageRecord
<1>4. Rec(table[i].part, o) \in StorageRecord /\ Exists(Rec(table[i].part, o))
  BY <1>2, <1>3 DEF StorageRecord, Rec, Exists
<1>5. ParsesOK(Rec(table[i].part, o))
  BY <1>1, <1>4, ProduceKeepsRecords DEF ParsesOK
<1> QED BY <1>5 DEF NoHoles

(* The rows of a partition appear without holes. *)
THEOREM NoHolesHolds == Spec => []NoHoles
<1>1. Init => NoHoles
  <2> SUFFICES ASSUME table = <<>> PROVE NoHoles
    BY DEF Init
  <2>1. 1..Len(table) = {}
    OBVIOUS
  <2> QED BY <2>1 DEF NoHoles
<1>2. TypeInv /\ IInv /\ NoHoles /\ [Next]_vars => NoHoles'
  <2> SUFFICES ASSUME TypeOK, IInv, NoHoles, [Next]_vars
               PROVE  NoHoles'
    BY DEF TypeInv
  <2>1. ASSUME NEW p \in Partitions, NEW payload \in Payload, Produce(p, payload)
        PROVE  NoHoles'
    BY <2>1, ProduceLeavesNoHole
  <2>2. CASE PersistAmbiguous \/ PersistBatch
    BY <2>2, PersistLeavesNoHole
  <2>3. CASE UNCHANGED <<log, table>> /\ dropped \subseteq dropped'
    BY <2>3 DEF NoHoles, ParsesOK, PayloadOf
  <2>4. \/ \E p \in Partitions, payload \in Payload : Produce(p, payload)
        \/ PersistAmbiguous \/ PersistBatch
        \/ (UNCHANGED <<log, table>> /\ dropped \subseteq dropped')
    BY DEF Next, vars, external, LoopTop, PollGather, PollReturn, PollReturnError,
        IterateInvalid, IterateSend, IterateDone, IterateCancelled, WorkerReceive,
        WorkerTick, WorkerLastFlush, FlushNothing, CommitRecords, Signal,
        ShutdownComplete, Crash, Restart
  <2> QED BY <2>1, <2>2, <2>3, <2>4
<1> QED BY <1>1, <1>2, TypeInvariant, InductiveInvariant, PTL DEF Spec

----------------------------------------------------------------------------
(* Refinement                                                              *)

(* A published record is a valid record of the log. *)
LEMMA PublishedIsValid ==
    ASSUME TypeOK, NEW r \in StorageRecord, Published(r)
    PROVE  r \in Delivery!Valid
<1>1. Exists(r) /\ ParsesOK(r)
  BY DEF Published
<1>2. Len(log[r.part]) \in Nat /\ r.part \in Partitions /\ r.off \in Nat
  BY DEF TypeOK, StorageRecord
<1>3. r.off + 1 \in 1..Len(log[r.part]) /\ log[r.part][r.off + 1] = "valid"
  BY <1>1, <1>2 DEF Exists, ParsesOK, PayloadOf
<1>4. r = [part |-> r.part, off |-> (r.off + 1) - 1]
  BY <1>2 DEF StorageRecord
<1> QED BY <1>2, <1>3, <1>4 DEF Delivery!Valid

(* A valid record of the log, in the terms of this specification. *)
LEMMA ValidIsPublished ==
    ASSUME TypeOK, NEW r \in Delivery!Valid
    PROVE  r \in StorageRecord /\ r = Rec(r.part, r.off) /\ ParsesOK(r)
<1>1. PICK p \in Partitions :
        \E i \in {j \in 1..Len(log[p]) : log[p][j] = "valid"} : r = [part |-> p, off |-> i - 1]
  BY DEF Delivery!Valid
<1> PICK i \in {j \in 1..Len(log[p]) : log[p][j] = "valid"} : r = [part |-> p, off |-> i - 1]
  BY <1>1
<1>2. i - 1 \in Nat /\ (i - 1) + 1 = i /\ log[p][i] = "valid"
  BY <1>1 DEF TypeOK
<1> QED BY <1>1, <1>2 DEF StorageRecord, Rec, ParsesOK, PayloadOf

(* Without fetches that mix errors and records the ingester implements the *)
(* abstract specification of at-least-once delivery.                       *)
THEOREM ImplementsDeliveryHolds ==
    ASSUME ~ErrorsCarryRecords
    PROVE  Spec => ImplementsDelivery
<1>1. Init => Delivery!AbsInit
  BY ElemsEmpty DEF Init, Delivery!AbsInit
<1>2. /\ TypeInv /\ TypeInv' /\ IInv /\ IInv' /\ AtLeastOnce' /\ [Next]_vars
      => [Delivery!AbsNext]_(Delivery!absVars)
  <2> SUFFICES ASSUME TypeInv, TypeInv', IInv, IInv', AtLeastOnce', [Next]_vars
               PROVE  Delivery!AbsNext \/ UNCHANGED <<log, Elems(table), committed>>
    BY DEF Delivery!absVars
  <2>1. TypeOK /\ TypeOK'
    BY DEF TypeInv
  <2>2. ASSUME NEW p \in Partitions, NEW payload \in Payload, Produce(p, payload)
        PROVE  Delivery!Publish
    BY <2>2 DEF Produce, Payload, Delivery!Publish, external
  <2>3. CASE PersistAmbiguous \/ PersistBatch
    <3>1. UNCHANGED <<log, committed>> /\ table' = table \o buffer
      BY <2>3 DEF PersistAmbiguous, PersistBatch
    <3>2. Elems(table') = Elems(table) \cup Elems(buffer)
      BY <2>1, <3>1, ElemsConcat DEF TypeOK
    <3>3. ASSUME NEW r \in Elems(table') PROVE r \in Delivery!Valid
      <4>1. r \in StorageRecord
        BY <2>1, <3>2, ElemsType DEF TypeOK
      <4>2. CASE r \in Elems(table)
        BY <2>1, <4>1, <4>2, PublishedIsValid DEF IInv, RowsPublished
      <4>3. CASE r \in Elems(buffer)
        <5>1. Published(r)
          BY <2>1, <4>3, PipelineExists DEF IInv, OnlyParsed, InPipeline, Published
        <5> QED BY <2>1, <4>1, <5>1, PublishedIsValid
      <4> QED BY <3>2, <4>2, <4>3
    <3>4. Delivery!Deliver
      BY <3>1, <3>2, <3>3 DEF Delivery!Deliver
    <3> QED BY <3>4 DEF Delivery!AbsNext
  <2>4. CASE CommitRecords
    <3>1. UNCHANGED <<log, table, position>>
      BY <2>4 DEF CommitRecords
    <3>2. ASSUME NEW p \in Partitions
          PROVE  committed[p] <= committed'[p] /\ committed'[p] <= Len(log[p])
      <4>1. committed[p] <= committed'[p] /\ committed'[p] <= position[p]
            /\ position[p] <= Len(log[p])
        BY <2>4, CommittedBetween DEF IInv, OffsetsInLog
      <4>2. committed'[p] \in Nat /\ position[p] \in Nat /\ Len(log[p]) \in Nat
        BY <2>1 DEF TypeOK
      <4> QED BY <4>1, <4>2
    <3>3. ASSUME NEW r \in Delivery!Valid, r.off < committed'[r.part]
          PROVE  r \in Elems(table)
      <4>1. r \in StorageRecord /\ r = Rec(r.part, r.off) /\ ParsesOK(r)
        BY <2>1, ValidIsPublished
      <4>2. r.part \in Partitions /\ r.off \in 0..committed'[r.part] - 1
        <5>1. r.part \in Partitions /\ r.off \in Nat
          BY <4>1 DEF StorageRecord
        <5>2. committed'[r.part] \in Nat
          BY <2>1, <5>1 DEF TypeOK
        <5> QED BY <3>3, <5>1, <5>2
      <4>3. ParsesOK(r)'
        BY <3>1, <4>1 DEF ParsesOK, PayloadOf
      <4> QED BY <3>1, <4>1, <4>2, <4>3 DEF AtLeastOnce, Persisted
    <3>4. Delivery!Acknowledge
      BY <3>1, <3>2, <3>3 DEF Delivery!Acknowledge
    <3> QED BY <3>4 DEF Delivery!AbsNext
  <2>5. \/ \E p \in Partitions, payload \in Payload : Produce(p, payload)
        \/ PersistAmbiguous \/ PersistBatch \/ CommitRecords
        \/ UNCHANGED <<log, table, committed>>
    BY DEF Next, vars, external, LoopTop, PollGather, PollReturn, PollReturnError,
        IterateInvalid, IterateSend, IterateDone, IterateCancelled, WorkerReceive,
        WorkerTick, WorkerLastFlush, FlushNothing, Signal, ShutdownComplete, Crash, Restart
  <2>6. CASE UNCHANGED <<log, table, committed>>
    BY <2>6
  <2> QED BY <2>2, <2>3, <2>4, <2>5, <2>6 DEF Delivery!AbsNext
<1>3. Spec => []AtLeastOnce
  BY AtLeastOnceHolds
<1> QED BY <1>1, <1>2, <1>3, TypeInvariant, InductiveInvariant, PTL
        DEF Spec, ImplementsDelivery, Delivery!AbsSpec
============================================================================
