----------------------------- MODULE TapProber -----------------------------
(***************************************************************************)
(* The eBPF latency prober of one TAP interface: the kernel programs of    *)
(* tc_latency.c, the attach and detach sequence of ebpf_prober.go and the  *)
(* consumer goroutine of ebpf_consumer.go.  SpawnVM has the call of        *)
(* AttachProber commented out at this commit; what is modelled is the      *)
(* prober as its own files and the calls left in main.go use it.           *)
(*                                                                         *)
(* The n-th segment the host transmits is transmission n; a time stamp is  *)
(* the number of the transmission it was taken for.  The interface has one *)
(* queue, so its ingress program handles one packet at a time, while       *)
(* egress runs on other CPUs in between.                                   *)
(***************************************************************************)
EXTENDS Naturals, Sequences, FiniteSets

CONSTANTS
    SeqNos,      \* TCP sequence numbers
    Lengths,     \* payload lengths of segments
    RingSize,    \* records the ring buffer holds (8192)
    FlushSize,   \* probeFlushSize (256)
    MaxSent      \* bound: transmissions

ASSUME ProberAssumption ==
    /\ SeqNos \subseteq Nat /\ Lengths \subseteq Nat
    /\ RingSize \in Nat \ {0} /\ FlushSize \in Nat \ {0} /\ MaxSent \in Nat

VARIABLES
    life,        \* how far attach, start, stop and detach have come
    hooks,       \* the programs attached to the interface
    objsOpen,    \* are the file descriptors of programs and maps open?
    sent,        \* the transmissions: sequence of [seq, len]
    tsStore,     \* ts_store: sequence number -> transmission, 0: no entry
    ingress,     \* what tc_ingress looked up and has not handled yet
    ring,        \* the records of latency_rb nobody has read
    dropped,     \* measurements counted by drop_counter
    kafka,       \* was the consumer given a Kafka client?
    cancelled,   \* the consumer's context is cancelled
    consumer,    \* where run is
    batch,       \* events read and not flushed
    published,   \* events forwarded (Kafka) or logged (no client)
    lost         \* events of a flush that failed

kernel == <<sent, tsStore, ingress, ring, dropped>>
consumerVars == <<consumer, batch, published, lost>>
vars == <<life, hooks, objsOpen, kernel, kafka, cancelled, consumerVars>>

NoPacket == [key |-> 0, tx |-> 0]

Init ==
    /\ life = "tap"
    /\ hooks = {}
    /\ objsOpen = FALSE
    /\ sent = <<>>
    /\ tsStore = [s \in SeqNos |-> 0]
    /\ ingress = NoPacket
    /\ ring = <<>>
    /\ dropped = {}
    /\ kafka \in BOOLEAN
    /\ cancelled = FALSE
    /\ consumer = "none"
    /\ batch = <<>>
    /\ published = {}
    /\ lost = {}

----------------------------------------------------------------------------
(* AttachProber, after SetupTapInterface.  On an error the VM goes on      *)
(* without kernel metrics.                                                 *)

(* The interface is looked up, clsact is added or reused, the directory    *)
(* for pins is made, the objects are loaded; nothing is undone when one of *)
(* these fails: clsact goes with the interface, the directory stays, and   *)
(* is empty, for no map asks to be pinned.                                 *)
LoadObjects ==
    /\ life = "tap"
    /\ \/ life' = "loaded" /\ objsOpen' = TRUE
       \/ life' = "unprobed" /\ UNCHANGED objsOpen
    /\ UNCHANGED <<hooks, kernel, kafka, cancelled, consumerVars>>

(* TCX, or a netlink filter on kernels without it. *)
AttachBPFProg(hook) == hooks' = hooks \cup {hook}

(* Closing a link may fail; the hook then stays until the interface goes.  *)
(* The netlink fallback does not even return the error.                    *)
CloseLink(hook) == hooks' \in {hooks, hooks \ {hook}}

(* The ring buffer lives as long as a descriptor of its map is open or the *)
(* program that writes it is attached; what nobody has read goes with it.  *)
RingAlive == objsOpen \/ "ingress" \in hooks
ReleaseRing == ring' = IF RingAlive' THEN ring ELSE <<>>

(* objs.Close closes every program and every map. *)
CloseObjects == objsOpen' = FALSE /\ ReleaseRing

otherKernel == <<sent, tsStore, ingress, dropped>>

AttachEgress ==
    /\ life = "loaded"
    /\ \/ life' = "egress" /\ AttachBPFProg("egress") /\ UNCHANGED <<objsOpen, ring>>
       \/ life' = "unprobed" /\ UNCHANGED hooks /\ CloseObjects
    /\ UNCHANGED <<otherKernel, kafka, cancelled, consumerVars>>

(* On an error the egress hook is closed, whose result is not looked at,   *)
(* and the objects are.                                                    *)
AttachIngress ==
    /\ life = "egress"
    /\ \/ life' = "attached" /\ AttachBPFProg("ingress") /\ UNCHANGED <<objsOpen, ring>>
       \/ life' = "unprobed" /\ CloseLink("egress") /\ CloseObjects
    /\ UNCHANGED <<otherKernel, kafka, cancelled, consumerVars>>

(* The image or the boot fails after the attach: SpawnVM removes the       *)
(* interface, with its hooks, and returns without DetachProber.            *)
SpawnFails ==
    /\ life = "attached"
    /\ life' = "leaked"
    /\ hooks' = {}
    /\ UNCHANGED <<objsOpen, kernel, kafka, cancelled, consumerVars>>

\* Mutant of StopProbeConsumer: it waits for the goroutine it has not cancelled.
StopWithoutCancel ==
    /\ life = "running"
    /\ life' = "stopping"
    /\ UNCHANGED <<hooks, objsOpen, kernel, kafka, cancelled, consumerVars>>

(* The VM has booted: the goroutine runs from now on. *)
StartProbeConsumer ==
    /\ life = "attached"
    /\ life' = "running"
    /\ consumer' = "start"
    /\ UNCHANGED <<hooks, objsOpen, kernel, kafka, cancelled, batch, published, lost>>

(* StopProbeConsumer: cancel, then wait for done. *)
StopProbeConsumer ==
    /\ life = "running"
    /\ life' = "stopping"
    /\ cancelled' = TRUE
    /\ UNCHANGED <<hooks, objsOpen, kernel, kafka, consumerVars>>

\* Mutant of ConsumerStopped: nobody waits for done.
StopWithoutWaiting ==
    /\ life = "stopping"
    /\ life' = "stopped"
    /\ UNCHANGED <<hooks, objsOpen, kernel, kafka, cancelled, consumerVars>>

ConsumerStopped ==
    /\ life = "stopping"
    /\ consumer = "done"
    /\ life' = "stopped"
    /\ UNCHANGED <<hooks, objsOpen, kernel, kafka, cancelled, consumerVars>>

(* DetachProber: ingress, egress, then the objects; errors are logged. *)
CloseIngress ==
    /\ life = "stopped"
    /\ life' = "unhooked"
    /\ CloseLink("ingress")
    /\ UNCHANGED <<objsOpen, kernel, kafka, cancelled, consumerVars>>

CloseEgress ==
    /\ life = "unhooked"
    /\ life' = "detached"
    /\ CloseLink("egress")
    /\ CloseObjects
    /\ UNCHANGED <<otherKernel, kafka, cancelled, consumerVars>>

(* CleanupTapInterface deletes the interface, and with it clsact and every *)
(* filter on it; when that fails, the VM's life ends without it.           *)
CleanupTapInterface ==
    /\ life \in {"detached", "unprobed"}
    /\ life' = "gone"
    /\ hooks' = {}
    /\ UNCHANGED <<objsOpen, otherKernel, kafka, cancelled, consumerVars>>
    /\ ReleaseRing

(* The next VM: a new interface, a new prober with objects of its own      *)
(* (those an earlier one leaked are not seen any more).                    *)
NextVM ==
    /\ life \in {"gone", "leaked"}
    /\ life' = "tap" /\ objsOpen' = FALSE /\ cancelled' = FALSE /\ consumer' = "none"
    /\ sent' = <<>> /\ tsStore' = [s \in SeqNos |-> 0] /\ ingress' = NoPacket
    /\ ring' = <<>> /\ batch' = <<>>
    /\ dropped' = {} /\ published' = {} /\ lost' = {}
    /\ UNCHANGED <<hooks, kafka>>

----------------------------------------------------------------------------
(* tc_egress: the stamp of an earlier segment with this sequence number is *)
(* overwritten.  Segments with SYN, FIN or RST are not looked at.          *)
Egress(seq, len) ==
    /\ "egress" \in hooks
    /\ Len(sent) < MaxSent
    /\ sent' = Append(sent, [seq |-> seq, len |-> len])
    /\ tsStore' = [tsStore EXCEPT ![seq] = Len(sent) + 1]
    /\ UNCHANGED <<life, hooks, objsOpen, ingress, ring, dropped, kafka, cancelled, consumerVars>>

(* The LRU map gives up an entry. *)
Evict(seq) ==
    /\ tsStore[seq] # 0
    /\ tsStore' = [tsStore EXCEPT ![seq] = 0]
    /\ UNCHANGED <<life, hooks, objsOpen, sent, ingress, ring, dropped, kafka, cancelled, consumerVars>>

Acks == {sent[n].seq + sent[n].len : n \in 1..Len(sent)}

(* tc_ingress, first part: the key is the acknowledged byte, ack_seq - 1.  *)
(* The guest may acknowledge again, and late.  The stamp is copied here;   *)
(* the program reads it a few instructions later through the pointer into  *)
(* the LRU map, where the element may by then belong to another key.       *)
IngressLookup(ack) ==
    /\ "ingress" \in hooks
    /\ ingress = NoPacket
    /\ ack - 1 \in SeqNos
    /\ tsStore[ack - 1] # 0
    /\ ingress' = [key |-> ack - 1, tx |-> tsStore[ack - 1]]
    /\ UNCHANGED <<life, hooks, objsOpen, sent, tsStore, ring, dropped, kafka, cancelled, consumerVars>>

\* Mutant of IngressConsume: the entry is not deleted.
IngressKeep == ingress' = NoPacket /\ UNCHANGED tsStore

(* One response consumes one request slot, whatever the slot holds by now. *)
IngressConsume ==
    /\ ingress' = NoPacket
    /\ tsStore' = [tsStore EXCEPT ![ingress.key] = 0]

(* The latency is out of the range 100 ns .. 100 ms, or the ring buffer    *)
(* goes with the program, detached while it handles its last packet.       *)
IngressOutOfRange ==
    /\ ingress # NoPacket
    /\ IngressConsume
    /\ UNCHANGED <<life, hooks, objsOpen, sent, ring, dropped, kafka, cancelled, consumerVars>>

\* Mutant of IngressMeasure: a record is put into a full ring buffer.
IngressOverwrite ==
    /\ ingress # NoPacket /\ RingAlive
    /\ IngressConsume
    /\ ring' = Append(IF Len(ring) < RingSize THEN ring ELSE Tail(ring), ingress.tx)
    /\ UNCHANGED <<life, hooks, objsOpen, sent, dropped, kafka, cancelled, consumerVars>>

(* A record is reserved and submitted, or counted as dropped. *)
IngressMeasure ==
    /\ ingress # NoPacket /\ RingAlive
    /\ IngressConsume
    /\ IF Len(ring) < RingSize
       THEN ring' = Append(ring, ingress.tx) /\ UNCHANGED dropped
       ELSE dropped' = dropped \cup {ingress.tx} /\ UNCHANGED ring
    /\ UNCHANGED <<life, hooks, objsOpen, sent, kafka, cancelled, consumerVars>>

----------------------------------------------------------------------------
(* run *)

Consume(pc) ==
    /\ consumer' = pc
    /\ UNCHANGED <<life, hooks, objsOpen, sent, tsStore, ingress, dropped, kafka, cancelled>>

NewReader ==
    /\ consumer = "start"
    /\ \E pc \in {"loop", "done"} : Consume(pc)
    /\ UNCHANGED <<ring, batch, published, lost>>

\* Mutant of LoopStop: the batch is forgotten.
StopAtOnce ==
    /\ consumer = "loop" /\ cancelled
    /\ Consume("done")
    /\ UNCHANGED <<ring, batch, published, lost>>

(* The select takes any ready case: the cancelled context, ... *)
LoopStop ==
    /\ consumer = "loop" /\ cancelled
    /\ Consume(IF batch = <<>> THEN "done" ELSE "lastFlush")
    /\ UNCHANGED <<ring, batch, published, lost>>

(* ... the ticker (5 ms), ... *)
LoopTick ==
    /\ consumer = "loop"
    /\ Consume(IF batch = <<>> THEN "read" ELSE "tickFlush")
    /\ UNCHANGED <<ring, batch, published, lost>>

(* ... or none of them. *)
LoopDefault ==
    /\ consumer = "loop" /\ ~cancelled
    /\ Consume("read")
    /\ UNCHANGED <<ring, batch, published, lost>>

(* ReadInto returns a record, or an error after 2 ms. *)
ReadRecord ==
    /\ consumer = "read" /\ ring # <<>>
    /\ ring' = Tail(ring)
    /\ batch' = Append(batch, Head(ring))
    /\ Consume(IF Len(batch) + 1 >= FlushSize THEN "fullFlush" ELSE "loop")
    /\ UNCHANGED <<published, lost>>

ReadTimeout ==
    /\ consumer = "read"
    /\ Consume("loop")
    /\ UNCHANGED <<ring, batch, published, lost>>

Flushing == consumer \in {"lastFlush", "tickFlush", "fullFlush"}
AfterFlush == CASE consumer = "lastFlush" -> "done"
                [] consumer = "tickFlush" -> "read"
                [] OTHER -> "loop"
Events == {batch[i] : i \in 1..Len(batch)}

(* flush: all records are acknowledged, or, without a client, logged.      *)
FlushOK ==
    /\ Flushing
    /\ published' = published \cup Events
    /\ batch' = <<>>
    /\ Consume(AfterFlush)
    /\ UNCHANGED <<ring, lost>>

(* ProduceSync returns an error, which is logged; the batch is emptied all *)
(* the same.  A record whose request is on its way to the broker does not  *)
(* fail when the context is cancelled: the client waits for the answer.    *)
FlushFails ==
    /\ Flushing /\ kafka
    /\ lost' = lost \cup Events
    /\ batch' = <<>>
    /\ Consume(AfterFlush)
    /\ UNCHANGED <<ring, published>>

FlushLogged == ~kafka /\ FlushOK

ConsumerStep ==
    \/ NewReader \/ LoopStop \/ LoopTick \/ LoopDefault \/ ReadRecord \/ ReadTimeout
    \/ FlushLogged

Next ==
    \/ LoadObjects \/ AttachEgress \/ AttachIngress \/ StartProbeConsumer
    \/ StopProbeConsumer \/ ConsumerStopped \/ CloseIngress \/ CloseEgress
    \/ SpawnFails \/ CleanupTapInterface \/ NextVM
    \/ \E seq \in SeqNos : Evict(seq) \/ \E len \in Lengths : Egress(seq, len)
    \/ \E ack \in Acks : IngressLookup(ack)
    \/ IngressOutOfRange \/ IngressMeasure
    \/ ConsumerStep \/ FlushOK \/ FlushFails

Spec == Init /\ [][Next]_vars

(* The goroutine and the handler run.  Nothing is assumed of the broker: a *)
(* flush through a Kafka client may wait for ever.  Go's select chooses at *)
(* random, so a ready case is not passed over for ever.                    *)
Fairness ==
    /\ WF_vars(ConsumerStep)
    /\ SF_vars(LoopStop)
    /\ WF_vars(ConsumerStopped \/ CloseIngress \/ CloseEgress)
FairSpec == Spec /\ Fairness

----------------------------------------------------------------------------
(* Properties *)

Sent == 1..Len(sent)
InRing == {ring[i] : i \in 1..Len(ring)}
Measurements == dropped \cup InRing \cup Events \cup published \cup lost

(* Type correctness; the ring buffer and the batch keep their limits. *)
TypeOK ==
    /\ life \in {"tap", "loaded", "egress", "attached", "running", "stopping", "stopped",
                 "unhooked", "detached", "unprobed", "gone", "leaked"}
    /\ hooks \subseteq {"egress", "ingress"}
    /\ {objsOpen, kafka, cancelled} \subseteq BOOLEAN
    /\ tsStore \in [SeqNos -> 0..Len(sent)]
    /\ ingress.tx \in 0..Len(sent)
    /\ ring \in Seq(Sent) /\ Len(ring) <= RingSize
    /\ batch \in Seq(Sent) /\ Len(batch) <= FlushSize
    /\ dropped \cup published \cup lost \subseteq Sent
    /\ consumer \in {"none", "start", "loop", "read", "lastFlush", "tickFlush", "fullFlush", "done"}

(* The consumer never touches the ring buffer after its maps are closed:   *)
(* "must be called before DetachProber to prevent a use-after-free".       *)
ReaderOnOpenMap == consumer \notin {"none", "done"} => objsOpen

(* A transmission is measured at most once, however often the guest        *)
(* acknowledges it and whatever is retransmitted between the lookup and    *)
(* the deletion of its stamp.                                              *)
MeasuredOnce ==
    /\ Cardinality(dropped) + Len(ring) + Len(batch) + Cardinality(published) + Cardinality(lost)
         = Cardinality(Measurements)
    /\ ingress # NoPacket => ingress.tx \notin Measurements

(* Without a Kafka client, as SpawnVM starts it, the consumer loses        *)
(* nothing it has read: when it is done the last batch has been logged.    *)
ReadIsLogged ==
    ~kafka => lost = {} /\ (consumer = "done" => batch = <<>>)

(* On every path through DetachProber, and on every one where AttachProber *)
(* failed, nothing is left when the interface is gone, detach errors on    *)
(* the way or not: no hook, no open map, no ring buffer, no goroutine.     *)
(* Where the spawn fails after the attach the maps stay open; the hooks    *)
(* went with the interface and no goroutine was started.                   *)
ProberLeavesNothing ==
    /\ life = "gone" => hooks = {} /\ ~objsOpen /\ ring = <<>> /\ consumer \in {"none", "done"}
    /\ life = "leaked" => hooks = {} /\ consumer = "none"

(* Buffers keep their limits, and hooks, maps and goroutine end in order. *)
ProberConsistent == TypeOK /\ ReaderOnOpenMap /\ ProberLeavesNothing

(* A measurement disappears in one way only: with the ring buffer, unread, *)
(* when DetachProber closes the maps.  Before and otherwise, what was in   *)
(* the ring buffer or in the batch is still there, was forwarded, or was   *)
(* lost by a failed flush.  (ebpf_consumer.go:106 promises more, that      *)
(* StopProbeConsumer waits for the consumer "to drain".)                   *)
OnlyUnreadVanish ==
    \/ Measurements \subseteq Measurements'
    \/ RingAlive /\ ~RingAlive' /\ Measurements \ InRing \subseteq Measurements'
NothingVanishes == [][life' # "tap" => OnlyUnreadVanish]_vars

(* StopProbeConsumer returns though events keep coming, unless a Kafka     *)
(* client was given and its broker leaves a flush unanswered for ever.     *)
BrokerAnswers == []<>(~kafka \/ ~Flushing)
StopReturns == BrokerAnswers => (life = "stopping" ~> life = "detached")
============================================================================
