-------------------------- MODULE TapProberProofs --------------------------
(***************************************************************************)
(* Proofs about TapProber, for any sequence numbers and lengths, any size  *)
(* of the ring buffer and of a flush, and any number of transmissions.     *)
(***************************************************************************)
EXTENDS TapProber, SequenceTheorems, FiniteSetTheorems, TLAPS

----------------------------------------------------------------------------
(* Sequences without repetition                                            *)

Distinct(s) == \A i, j \in 1..Len(s) : s[i] = s[j] => i = j

(* Append adds one element, and keeps a sequence free of repetition when   *)
(* that element is new.                                                    *)
LEMMA AppendDistinct ==
    ASSUME NEW S, NEW s \in Seq(S), NEW e \in S
    PROVE  /\ Range(Append(s, e)) = Range(s) \cup {e}
           /\ Distinct(s) /\ e \notin Range(s) => Distinct(Append(s, e))
<1> DEFINE t == Append(s, e)
<1>1. /\ t \in Seq(S)
      /\ Len(t) = Len(s) + 1
      /\ \A i \in 1..Len(s) : t[i] = s[i]
      /\ t[Len(s) + 1] = e
      /\ Len(s) \in Nat
  BY AppendProperties
<1>2. /\ Range(s) = {s[i] : i \in 1..Len(s)}
      /\ Range(t) = {t[i] : i \in 1..Len(t)}
  BY <1>1, RangeEquality
<1> HIDE DEF t
<1>3. Range(t) = Range(s) \cup {e}
  <2>1. ASSUME NEW x \in Range(t) PROVE x \in Range(s) \cup {e}
    <3>1. PICK i \in 1..Len(t) : x = t[i]
      BY <1>2
    <3>2. i \in 1..Len(s) \/ i = Len(s) + 1
      BY <1>1
    <3> QED BY <1>1, <1>2, <3>1, <3>2
  <2>2. ASSUME NEW x \in Range(s) PROVE x \in Range(t)
    <3>1. PICK i \in 1..Len(s) : x = s[i]
      BY <1>2
    <3>2. i \in 1..Len(t) /\ x = t[i]
      BY <1>1, <3>1
    <3> QED BY <1>2, <3>2
  <2>3. e \in Range(t)
    <3>1. Len(s) + 1 \in 1..Len(t)
      BY <1>1
    <3> QED BY <1>1, <1>2, <3>1
  <2> QED BY <2>1, <2>2, <2>3
<1>4. ASSUME Distinct(s), e \notin Range(s), NEW i \in 1..Len(t), NEW j \in 1..Len(t), t[i] = t[j]
      PROVE  i = j
  <2>1. \A k \in 1..Len(s) : s[k] # e
    BY <1>2, <1>4
  <2>2. (i \in 1..Len(s) \/ i = Len(s) + 1) /\ (j \in 1..Len(s) \/ j = Len(s) + 1)
    BY <1>1
  <2> QED BY <1>1, <1>4, <2>1, <2>2 DEF Distinct
<1> QED BY <1>3, <1>4 DEF Distinct, t

(* Taking the head off a sequence. *)
LEMMA TailDistinct ==
    ASSUME NEW S, NEW s \in Seq(S), s # <<>>
    PROVE  /\ Range(s) = {Head(s)} \cup Range(Tail(s))
           /\ Distinct(s) => Distinct(Tail(s)) /\ Head(s) \notin Range(Tail(s))
<1> DEFINE t == Tail(s)
<1>1. /\ t \in Seq(S)
      /\ Len(t) = Len(s) - 1
      /\ \A i \in 1..Len(t) : t[i] = s[i + 1]
      /\ Len(s) \in Nat \ {0}
      /\ Head(s) = s[1]
  BY HeadTailProperties, EmptySeq
<1>2. /\ Range(s) = {s[i] : i \in 1..Len(s)}
      /\ Range(t) = {t[i] : i \in 1..Len(t)}
  BY <1>1, RangeEquality
<1> HIDE DEF t
<1>3. Range(s) = {Head(s)} \cup Range(t)
  <2>1. ASSUME NEW x \in Range(s) PROVE x \in {Head(s)} \cup Range(t)
    <3>1. PICK i \in 1..Len(s) : x = s[i]
      BY <1>2
    <3>2. i = 1 \/ (i - 1 \in 1..Len(t) /\ t[i - 1] = s[i])
      BY <1>1
    <3> QED BY <1>1, <1>2, <3>1, <3>2
  <2>2. ASSUME NEW x \in Range(t) PROVE x \in Range(s)
    <3>1. PICK i \in 1..Len(t) : x = t[i]
      BY <1>2
    <3>2. i + 1 \in 1..Len(s) /\ x = s[i + 1]
      BY <1>1, <3>1
    <3> QED BY <1>2, <3>2
  <2>3. Head(s) \in Range(s)
    <3>1. 1 \in 1..Len(s)
      BY <1>1
    <3> QED BY <1>1, <1>2, <3>1
  <2> QED BY <2>1, <2>2, <2>3
<1>4. ASSUME Distinct(s) PROVE Distinct(t) /\ Head(s) \notin Range(t)
  <2>1. \A i \in 1..Len(t) : i + 1 \in 1..Len(s) /\ t[i] = s[i + 1]
    BY <1>1
  <2>2. Distinct(t)
    BY <1>1, <1>4, <2>1 DEF Distinct
  <2>3. \A i \in 1..Len(t) : t[i] # s[1]
    <3>1. 1 \in 1..Len(s) /\ \A i \in 1..Len(t) : i + 1 # 1
      BY <1>1
    <3> QED BY <1>4, <2>1, <3>1 DEF Distinct
  <2> QED BY <1>1, <1>2, <2>2, <2>3
<1> QED BY <1>3, <1>4 DEF t

(* The empty sequence. *)
LEMMA EmptyDistinct == Range(<<>>) = {} /\ Distinct(<<>>)
<1>1. Range(<<>>) = {<<>>[i] : i \in 1..Len(<<>>)}
  BY EmptySeq, RangeEquality
<1>2. 1..Len(<<>>) = {}
  BY EmptySeq
<1> QED BY <1>1, <1>2 DEF Distinct

(* A sequence without repetition has as many elements as it is long. *)
LEMMA DistinctCardinality ==
    ASSUME NEW S, NEW s \in Seq(S), Distinct(s)
    PROVE  /\ IsFiniteSet(Range(s))
           /\ Cardinality(Range(s)) = Len(s)
<1>1. Len(s) \in Nat /\ s \in [1..Len(s) -> S]
  BY LenProperties
<1>2. Range(s) = {s[i] : i \in 1..Len(s)}
  BY RangeEquality
<1>3. s \in [1..Len(s) -> Range(s)]
  BY <1>1, <1>2
<1>4. s \in Bijection(1..Len(s), Range(s))
  BY <1>2, <1>3 DEF Distinct, Bijection, Injection, Surjection, IsInjective
<1>5. ExistsBijection(1..Len(s), Range(s))
  BY <1>4 DEF ExistsBijection
<1>6. IsFiniteSet(1..Len(s))
  BY <1>1, FS_Interval
<1> QED BY <1>1, <1>5, <1>6, FS_Bijection, FS_CountingElements

----------------------------------------------------------------------------
(* The inductive invariant                                                 *)

(* What each stage of the prober's life says of maps, hooks and goroutine; *)
(* a ring buffer nothing refers to is gone.                                *)
LifeInv ==
    /\ life \in {"tap", "loaded", "egress", "attached", "unprobed", "leaked"} => consumer = "none"
    /\ life \in {"stopped", "unhooked", "detached"} => consumer = "done"
    /\ life \in {"gone", "leaked"} => hooks = {} /\ consumer \in {"none", "done"}
    /\ objsOpen <=> life \in {"loaded", "egress", "attached", "running", "stopping",
                             "stopped", "unhooked", "leaked"}
    /\ RingAlive \/ ring = <<>>

(* The loop reads only into a batch with room; nothing is read before it. *)
BatchInv ==
    /\ consumer \in {"none", "start"} => batch = <<>>
    /\ consumer \in {"loop", "read"} => Len(batch) < FlushSize
    /\ ReadIsLogged

(* A stamp is stored under the sequence number of its transmission, and so *)
(* is the one tc_ingress has looked up.                                    *)
StampInv ==
    /\ sent \in Seq([seq : SeqNos, len : Lengths])
    /\ \A s \in SeqNos : tsStore[s] # 0 => sent[tsStore[s]].seq = s
    /\ ingress # NoPacket => /\ ingress \in [key : SeqNos, tx : Sent]
                             /\ sent[ingress.tx].seq = ingress.key

(* No measurement is in two places, or twice in one; what still has a      *)
(* stamp, or is being handled, has not been measured.                      *)
OnceInv ==
    /\ Distinct(ring) /\ Distinct(batch)
    /\ dropped \cap (InRing \cup Events \cup published \cup lost) = {}
    /\ InRing \cap (Events \cup published \cup lost) = {}
    /\ Events \cap (published \cup lost) = {}
    /\ published \cap lost = {}
    /\ \A s \in SeqNos : tsStore[s] \notin Measurements
    /\ ingress # NoPacket => ingress.tx \notin Measurements

Inv == TypeOK /\ LifeInv /\ BatchInv /\ StampInv /\ OnceInv

(* The elements of the two buffers. *)
LEMMA BufferRanges ==
    ASSUME TypeOK
    PROVE  InRing = Range(ring) /\ Events = Range(batch) /\ Measurements \subseteq Sent
<1>1. ring \in Seq(Sent) /\ batch \in Seq(Sent)
  BY DEF TypeOK
<1>2. Range(ring) \subseteq Sent /\ Range(batch) \subseteq Sent
  BY <1>1, RangeOfSeq
<1>3. InRing = Range(ring) /\ Events = Range(batch)
  BY <1>1, RangeEquality DEF InRing, Events
<1> QED BY <1>2, <1>3 DEF Measurements, TypeOK

(* Nothing is loaded and nothing was sent. *)
LEMMA InitInv == Init => Inv
<1> SUFFICES ASSUME Init PROVE Inv
  OBVIOUS
<1>1. Len(sent) = 0 /\ Sent = {} /\ ring \in Seq(Sent) /\ batch \in Seq(Sent)
  BY EmptySeq DEF Init, Sent
<1>2. TypeOK
  <2>1. tsStore \in [SeqNos -> 0..Len(sent)] /\ ingress.tx \in 0..Len(sent)
    BY <1>1 DEF Init, NoPacket
  <2>2. {objsOpen, kafka, cancelled} \subseteq BOOLEAN
    BY DEF Init
  <2>3. /\ Len(ring) <= RingSize /\ Len(batch) <= FlushSize
        /\ hooks \subseteq {"egress", "ingress"}
        /\ dropped \cup published \cup lost \subseteq Sent
    BY EmptySeq, ProberAssumption DEF Init
  <2> QED BY <1>1, <2>1, <2>2, <2>3 DEF Init, TypeOK
<1>3. LifeInv
  BY DEF Init, LifeInv, RingAlive
<1>4. BatchInv
  BY EmptySeq DEF Init, BatchInv, ReadIsLogged
<1>5. StampInv
  BY EmptySeq DEF Init, StampInv
<1>6. OnceInv
  <2>1. InRing = {} /\ Events = {}
    BY <1>2, BufferRanges, EmptyDistinct DEF Init
  <2> QED BY <2>1, EmptyDistinct DEF Init, OnceInv, Measurements
<1> QED BY <1>2, <1>3, <1>4, <1>5, <1>6 DEF Inv

(* What an action says of life, hooks, maps and goroutine is all that the  *)
(* data's part of the invariant needs to know of it.                       *)
LEMMA DataUnchanged ==
    ASSUME Inv, UNCHANGED <<kernel, batch, published, lost>>
    PROVE  StampInv' /\ OnceInv'
<1>1. UNCHANGED <<sent, tsStore, ingress, ring, dropped, batch, published, lost>>
  BY DEF kernel
<1>2. UNCHANGED <<InRing, Events, Measurements, Sent>>
  BY <1>1 DEF InRing, Events, Measurements, Sent
<1>3. StampInv'
  BY <1>1, <1>2 DEF Inv, StampInv
<1>4. OnceInv'
  BY <1>1, <1>2 DEF Inv, OnceInv, Distinct
<1> QED BY <1>3, <1>4

(* The ring buffer may go, with what is in it; nothing else does. *)
LEMMA RingReleased ==
    ASSUME Inv, ring' \in {ring, <<>>},
           UNCHANGED <<sent, tsStore, ingress, dropped, batch, published, lost>>
    PROVE  /\ StampInv' /\ OnceInv'
           /\ ring' \in Seq(Sent') /\ Len(ring') <= RingSize
           /\ Measurements' \subseteq Measurements
           /\ Measurements \ InRing \subseteq Measurements'
<1>1. UNCHANGED <<Events, Sent>>
  BY DEF Events, Sent
<1>2. /\ ring' \in Seq(Sent) /\ Len(ring') <= RingSize
      /\ Distinct(ring') /\ InRing' \subseteq InRing
  <2>1. CASE ring' = ring
    BY <2>1 DEF Inv, TypeOK, OnceInv, InRing, Distinct
  <2>2. CASE ring' = <<>>
    <3>1. ring' \in Seq(Sent) /\ Len(ring') = 0
      BY <2>2, EmptySeq
    <3>2. InRing' = Range(ring')
      BY <3>1, RangeEquality DEF InRing
    <3> QED BY <2>2, <3>1, <3>2, EmptyDistinct, ProberAssumption
  <2> QED BY <2>1, <2>2
<1>3. /\ Measurements' \subseteq Measurements
      /\ Measurements \ InRing \subseteq Measurements'
  BY <1>1, <1>2 DEF Measurements
<1>4. StampInv'
  BY <1>1 DEF Inv, StampInv
<1>5. OnceInv'
  BY <1>1, <1>2, <1>3 DEF Inv, OnceInv, Distinct
<1> QED BY <1>1, <1>2, <1>3, <1>4, <1>5

(* Attaching, starting, stopping and detaching. *)
LEMMA LifeSteps ==
    ASSUME Inv,
           \/ LoadObjects \/ AttachEgress \/ AttachIngress \/ SpawnFails \/ StartProbeConsumer
           \/ StopProbeConsumer \/ ConsumerStopped \/ CloseIngress \/ CloseEgress
           \/ CleanupTapInterface
    PROVE  Inv' /\ (ring' = ring \/ (ring' = <<>> /\ ~RingAlive'))
<1> USE DEF Inv, kernel, otherKernel, consumerVars
<1>1. UNCHANGED <<sent, tsStore, ingress, dropped, kafka, batch, published, lost>>
  BY DEF LoadObjects, AttachEgress, AttachIngress, SpawnFails, StartProbeConsumer,
         StopProbeConsumer, ConsumerStopped, CloseIngress, CloseEgress, CleanupTapInterface,
         CloseObjects
<1>2. ring' = ring \/ (ring' = <<>> /\ ~RingAlive')
  <2>1. ReleaseRing \/ ring' = ring
    BY DEF LoadObjects, AttachEgress, AttachIngress, SpawnFails, StartProbeConsumer,
           StopProbeConsumer, ConsumerStopped, CloseIngress, CloseEgress, CleanupTapInterface,
           CloseObjects
  <2> QED BY <2>1 DEF ReleaseRing
<1>3. /\ life' \in {"loaded", "unprobed", "egress", "attached", "running", "stopping", "stopped",
                     "unhooked", "detached", "gone", "leaked"}
      /\ hooks' \subseteq {"egress", "ingress"}
      /\ objsOpen' \in BOOLEAN /\ cancelled' \in BOOLEAN
      /\ consumer' \in {consumer, "start"}
  BY DEF LoadObjects, AttachEgress, AttachIngress, SpawnFails, StartProbeConsumer,
         StopProbeConsumer, ConsumerStopped, CloseIngress, CloseEgress, CleanupTapInterface,
         AttachBPFProg, CloseLink, CloseObjects, TypeOK
<1>4. /\ ring' \in Seq(Sent') /\ Len(ring') <= RingSize
      /\ StampInv' /\ OnceInv'
  <2> HIDE DEF Inv
  <2> QED BY <1>1, <1>2, RingReleased
<1>5. TypeOK'
  BY <1>1, <1>3, <1>4 DEF TypeOK, Sent
<1>6. LifeInv'
  <2>1. /\ life' \in {"tap", "loaded", "egress", "attached", "unprobed", "leaked"} => consumer' = "none"
        /\ life' \in {"stopped", "unhooked", "detached"} => consumer' = "done"
        /\ life' \in {"gone", "leaked"} => hooks' = {} /\ consumer' \in {"none", "done"}
        /\ objsOpen' <=> life' \in {"loaded", "egress", "attached", "running", "stopping",
                                    "stopped", "unhooked", "leaked"}
    BY DEF LoadObjects, AttachEgress, AttachIngress, SpawnFails, StartProbeConsumer,
         StopProbeConsumer, ConsumerStopped, CloseIngress, CloseEgress, CleanupTapInterface,
           AttachBPFProg, CloseLink, CloseObjects, TypeOK, LifeInv
  <2>2. RingAlive' \/ ring' = <<>>
    BY DEF LoadObjects, AttachEgress, AttachIngress, SpawnFails, StartProbeConsumer,
         StopProbeConsumer, ConsumerStopped, CloseIngress, CloseEgress, CleanupTapInterface,
           AttachBPFProg, CloseLink, CloseObjects, ReleaseRing, LifeInv, RingAlive
  <2> QED BY <2>1, <2>2 DEF LifeInv
<1>7. BatchInv'
  <2>1. CASE StartProbeConsumer
    BY <1>1, <2>1 DEF StartProbeConsumer, BatchInv, LifeInv, ReadIsLogged
  <2>2. CASE ~StartProbeConsumer
    <3>1. consumer' = consumer
      BY <2>2 DEF LoadObjects, AttachEgress, AttachIngress, SpawnFails, StopProbeConsumer,
         ConsumerStopped, CloseIngress, CloseEgress, CleanupTapInterface
    <3> QED BY <1>1, <3>1 DEF BatchInv, ReadIsLogged
  <2> QED BY <2>1, <2>2
<1> QED BY <1>2, <1>4, <1>5, <1>6, <1>7

(* A new interface starts like the first. *)
LEMMA NextVMStep ==
    ASSUME Inv, NextVM
    PROVE  Inv'
<1> USE DEF Inv
<1>1. Len(sent') = 0 /\ Sent' = {} /\ ring' \in Seq(Sent') /\ batch' \in Seq(Sent')
  BY EmptySeq DEF NextVM, Sent
<1>2. TypeOK'
  <2>1. tsStore' \in [SeqNos -> 0..Len(sent')] /\ ingress'.tx \in 0..Len(sent')
    BY <1>1 DEF NextVM, NoPacket
  <2>2. {objsOpen', kafka', cancelled'} \subseteq BOOLEAN
    BY DEF NextVM, TypeOK
  <2>3. /\ Len(ring') <= RingSize /\ Len(batch') <= FlushSize
        /\ hooks' \subseteq {"egress", "ingress"}
        /\ dropped' \cup published' \cup lost' \subseteq Sent'
    BY EmptySeq, ProberAssumption DEF NextVM, TypeOK
  <2> QED BY <1>1, <2>1, <2>2, <2>3 DEF NextVM, TypeOK
<1>3. LifeInv'
  BY DEF NextVM, LifeInv, RingAlive
<1>4. BatchInv'
  BY EmptySeq DEF NextVM, BatchInv, ReadIsLogged
<1>5. StampInv'
  BY EmptySeq DEF NextVM, StampInv
<1>6. OnceInv'
  <2>1. InRing' = Range(ring') /\ Events' = Range(batch')
    BY <1>1, RangeEquality DEF InRing, Events
  <2>2. InRing' = {} /\ Events' = {} /\ Distinct(ring') /\ Distinct(batch')
    BY <2>1, EmptyDistinct DEF NextVM
  <2> QED BY <2>2 DEF NextVM, OnceInv, Measurements
<1> QED BY <1>2, <1>3, <1>4, <1>5, <1>6

----------------------------------------------------------------------------
(* The kernel programs                                                     *)

(* tc_egress: the stamp is that of a transmission never measured. *)
LEMMA EgressStep ==
    ASSUME Inv, NEW seq \in SeqNos, NEW len \in Lengths, Egress(seq, len)
    PROVE  Inv'
<1> DEFINE n == Len(sent) + 1
<1> USE DEF Inv
<1>1. /\ UNCHANGED <<life, hooks, objsOpen, ingress, ring, dropped, kafka, cancelled,
                     consumer, batch, published, lost>>
      /\ sent' = Append(sent, [seq |-> seq, len |-> len])
      /\ tsStore' = [tsStore EXCEPT ![seq] = n]
  BY DEF Egress, consumerVars
<1>2. /\ sent' \in Seq([seq : SeqNos, len : Lengths])
      /\ Len(sent) \in Nat /\ Len(sent') = n
      /\ \A i \in Sent : sent'[i] = sent[i]
      /\ sent'[n] = [seq |-> seq, len |-> len]
  BY <1>1, AppendProperties DEF StampInv, Sent
<1>3. Sent \subseteq Sent' /\ n \in Sent' /\ n \notin Sent /\ 0 \notin Sent /\ n # 0
  BY <1>2 DEF Sent
<1>4. UNCHANGED <<InRing, Events, Measurements>>
  BY <1>1 DEF InRing, Events, Measurements
<1>5. tsStore \in [SeqNos -> 0..Len(sent)]
  BY DEF TypeOK
<1>6. tsStore' \in [SeqNos -> 0..Len(sent')]
  BY <1>1, <1>2, <1>5
<1>7. TypeOK'
  <2>1. ring' \in Seq(Sent') /\ batch' \in Seq(Sent')
    BY <1>1, <1>3, SeqMonotonic DEF TypeOK
  <2>2. ingress'.tx \in 0..Len(sent')
    BY <1>1, <1>2 DEF TypeOK
  <2> QED BY <1>1, <1>3, <1>6, <2>1, <2>2 DEF TypeOK
<1>8. LifeInv' /\ BatchInv'
  BY <1>1 DEF LifeInv, RingAlive, BatchInv, ReadIsLogged
<1>9. StampInv'
  <2>1. ASSUME NEW s \in SeqNos, tsStore'[s] # 0 PROVE sent'[tsStore'[s]].seq = s
    <3>1. CASE s = seq
      BY <1>1, <1>2, <1>5, <3>1
    <3>2. CASE s # seq
      <4>1. tsStore'[s] = tsStore[s] /\ tsStore[s] \in Sent
        BY <1>1, <1>2, <1>5, <2>1, <3>2 DEF Sent
      <4> QED BY <1>2, <2>1, <4>1 DEF StampInv
    <3> QED BY <3>1, <3>2
  <2>2. ingress' # NoPacket => /\ ingress' \in [key : SeqNos, tx : Sent']
                               /\ sent'[ingress'.tx].seq = ingress'.key
    BY <1>1, <1>2, <1>3 DEF StampInv
  <2> QED BY <1>2, <2>1, <2>2 DEF StampInv
<1>10. OnceInv'
  <2>1. n \notin Measurements
    BY <1>3, BufferRanges
  <2>2. \A s \in SeqNos : tsStore'[s] \notin Measurements'
    BY <1>1, <1>4, <1>5, <2>1 DEF OnceInv
  <2> QED BY <1>1, <1>4, <2>2 DEF OnceInv, Distinct
<1> QED BY <1>7, <1>8, <1>9, <1>10

(* The map gives up a stamp. *)
LEMMA EvictStep ==
    ASSUME Inv, NEW seq \in SeqNos, Evict(seq)
    PROVE  Inv'
<1> USE DEF Inv
<1>1. /\ UNCHANGED <<life, hooks, objsOpen, sent, ingress, ring, dropped, kafka, cancelled,
                     consumer, batch, published, lost>>
      /\ tsStore' = [tsStore EXCEPT ![seq] = 0]
  BY DEF Evict, consumerVars
<1>2. UNCHANGED <<InRing, Events, Measurements, Sent>>
  BY <1>1 DEF InRing, Events, Measurements, Sent
<1>3. tsStore \in [SeqNos -> 0..Len(sent)] /\ Len(sent) \in Nat
  BY LenProperties DEF TypeOK, StampInv
<1>4. tsStore' \in [SeqNos -> 0..Len(sent')]
  BY <1>1, <1>3
<1>5. TypeOK'
  BY <1>1, <1>2, <1>4 DEF TypeOK
<1>6. LifeInv' /\ BatchInv'
  BY <1>1 DEF LifeInv, RingAlive, BatchInv, ReadIsLogged
<1>7. StampInv'
  BY <1>1, <1>2, <1>3 DEF StampInv
<1>8. OnceInv'
  <2>1. 0 \notin Measurements
    BY BufferRanges DEF Sent
  <2>2. \A s \in SeqNos : tsStore'[s] \notin Measurements'
    BY <1>1, <1>2, <1>3, <2>1 DEF OnceInv
  <2> QED BY <1>1, <1>2, <2>2 DEF OnceInv, Distinct
<1> QED BY <1>5, <1>6, <1>7, <1>8

(* tc_ingress looks a stamp up. *)
LEMMA IngressLookupStep ==
    ASSUME Inv, NEW ack, IngressLookup(ack)
    PROVE  Inv'
<1> USE DEF Inv
<1>1. /\ UNCHANGED <<life, hooks, objsOpen, sent, tsStore, ring, dropped, kafka, cancelled,
                     consumer, batch, published, lost>>
      /\ ack - 1 \in SeqNos /\ tsStore[ack - 1] # 0
      /\ ingress' = [key |-> ack - 1, tx |-> tsStore[ack - 1]]
  BY DEF IngressLookup, consumerVars
<1>2. UNCHANGED <<InRing, Events, Measurements, Sent>>
  BY <1>1 DEF InRing, Events, Measurements, Sent
<1>3. tsStore \in [SeqNos -> 0..Len(sent)] /\ Len(sent) \in Nat
  BY LenProperties DEF TypeOK, StampInv
<1>4. tsStore[ack - 1] \in Sent
  BY <1>1, <1>3 DEF Sent
<1>5. TypeOK'
  <2>1. ingress'.tx \in 0..Len(sent')
    BY <1>1, <1>3
  <2> QED BY <1>1, <1>2, <2>1 DEF TypeOK
<1>6. LifeInv' /\ BatchInv'
  BY <1>1 DEF LifeInv, RingAlive, BatchInv, ReadIsLogged
<1>7. StampInv'
  BY <1>1, <1>2, <1>4 DEF StampInv
<1>8. OnceInv'
  BY <1>1, <1>2 DEF OnceInv, Distinct
<1> QED BY <1>5, <1>6, <1>7, <1>8

(* What the deletion of the looked-up stamp leaves: the transmission that  *)
(* was looked up has no stamp any more, whatever was sent meanwhile.       *)
LEMMA ConsumeLeaves ==
    ASSUME Inv, ingress # NoPacket, IngressConsume
    PROVE  /\ tsStore' \in [SeqNos -> 0..Len(sent)]
           /\ \A s \in SeqNos : tsStore'[s] \in {0, tsStore[s]} /\ tsStore'[s] # ingress.tx
           /\ ingress.tx \in Sent /\ 0 \notin Sent
           /\ ingress'.tx \in 0..Len(sent) /\ ingress' = NoPacket
<1>1. /\ tsStore \in [SeqNos -> 0..Len(sent)]
      /\ ingress.key \in SeqNos /\ ingress.tx \in Sent
      /\ sent[ingress.tx].seq = ingress.key
      /\ Len(sent) \in Nat
  BY LenProperties DEF Inv, TypeOK, StampInv
<1>2. tsStore' = [tsStore EXCEPT ![ingress.key] = 0] /\ ingress' = NoPacket
  BY DEF IngressConsume
<1>3. ingress.tx # 0 /\ 0 \notin Sent
  BY <1>1 DEF Sent
<1>4. ASSUME NEW s \in SeqNos PROVE tsStore'[s] \in {0, tsStore[s]} /\ tsStore'[s] # ingress.tx
  <2>1. CASE s = ingress.key
    BY <1>1, <1>2, <1>3, <2>1
  <2>2. CASE s # ingress.key
    <3>1. tsStore'[s] = tsStore[s]
      BY <1>1, <1>2, <2>2
    <3>2. tsStore[s] = 0 \/ sent[tsStore[s]].seq = s
      BY DEF Inv, StampInv
    <3> QED BY <1>1, <1>3, <2>2, <3>1, <3>2
  <2> QED BY <2>1, <2>2
<1>5. tsStore' \in [SeqNos -> 0..Len(sent)]
  BY <1>1, <1>2
<1>6. ingress'.tx \in 0..Len(sent)
  BY <1>1, <1>2 DEF NoPacket
<1> QED BY <1>1, <1>2, <1>3, <1>4, <1>5, <1>6

(* A response whose latency is out of range takes its stamp unmeasured. *)
LEMMA IngressOutOfRangeStep ==
    ASSUME Inv, IngressOutOfRange
    PROVE  Inv'
<1> USE DEF Inv
<1>1. UNCHANGED <<life, hooks, objsOpen, sent, ring, dropped, kafka, cancelled,
                  consumer, batch, published, lost>>
  BY DEF IngressOutOfRange, consumerVars
<1>2. UNCHANGED <<InRing, Events, Measurements, Sent>>
  BY <1>1 DEF InRing, Events, Measurements, Sent
<1>3. /\ tsStore' \in [SeqNos -> 0..Len(sent)]
      /\ \A s \in SeqNos : tsStore'[s] \in {0, tsStore[s]}
      /\ 0 \notin Sent
      /\ ingress'.tx \in 0..Len(sent) /\ ingress' = NoPacket
  BY ConsumeLeaves DEF IngressOutOfRange
<1>4. TypeOK'
  BY <1>1, <1>2, <1>3 DEF TypeOK
<1>5. LifeInv' /\ BatchInv'
  BY <1>1 DEF LifeInv, RingAlive, BatchInv, ReadIsLogged
<1>6. StampInv'
  BY <1>1, <1>2, <1>3 DEF StampInv
<1>7. OnceInv'
  <2>1. 0 \notin Measurements
    BY <1>3, BufferRanges
  <2>2. \A s \in SeqNos : tsStore'[s] \notin Measurements'
    BY <1>2, <1>3, <2>1 DEF OnceInv
  <2> QED BY <1>1, <1>2, <1>3, <2>2 DEF OnceInv, Distinct
<1> QED BY <1>4, <1>5, <1>6, <1>7

(* A transmission is measured: it enters the ring buffer or the dropped    *)
(* ones, and has neither a stamp nor a packet in tc_ingress left.          *)
LEMMA IngressMeasureStep ==
    ASSUME Inv, IngressMeasure
    PROVE  Inv' /\ Measurements' = Measurements \cup {ingress.tx}
<1> DEFINE tx == ingress.tx
<1> USE DEF Inv
<1>1. UNCHANGED <<life, hooks, objsOpen, sent, kafka, cancelled, consumer, batch, published, lost>>
  BY DEF IngressMeasure, consumerVars
<1>2. UNCHANGED <<Events, Sent>>
  BY <1>1 DEF Events, Sent
<1>3. /\ tsStore' \in [SeqNos -> 0..Len(sent)]
      /\ \A s \in SeqNos : tsStore'[s] \in {0, tsStore[s]} /\ tsStore'[s] # tx
      /\ tx \in Sent /\ 0 \notin Sent
      /\ ingress'.tx \in 0..Len(sent) /\ ingress' = NoPacket
  BY ConsumeLeaves DEF IngressMeasure
<1>4. ring \in Seq(Sent) /\ Len(ring) \in Nat /\ Len(ring) <= RingSize
  BY LenProperties DEF TypeOK
<1>5. Measurements \subseteq Sent /\ InRing = Range(ring) /\ tx \notin Measurements
  BY BufferRanges DEF OnceInv, IngressMeasure
<1>6. /\ ring' \in Seq(Sent') /\ Len(ring') <= RingSize
      /\ dropped' \cup published' \cup lost' \subseteq Sent'
      /\ \/ InRing' = InRing \cup {tx} /\ dropped' = dropped
         \/ InRing' = InRing /\ dropped' = dropped \cup {tx}
      /\ Distinct(ring')
  <2>1. CASE Len(ring) < RingSize
    <3>1. ring' = Append(ring, tx) /\ dropped' = dropped
      BY <2>1 DEF IngressMeasure
    <3>2. ring' \in Seq(Sent) /\ Len(ring') = Len(ring) + 1
      BY <1>3, <1>4, <3>1, AppendProperties
    <3>3. InRing' = Range(ring')
      BY <3>2, RangeEquality DEF InRing
    <3>4. Range(ring') = Range(ring) \cup {tx} /\ Distinct(ring')
      BY <1>3, <1>4, <1>5, <3>1, AppendDistinct DEF OnceInv, Measurements
    <3> QED BY <1>1, <1>2, <1>4, <1>5, <2>1, <3>1, <3>2, <3>3, <3>4, ProberAssumption DEF TypeOK
  <2>2. CASE ~(Len(ring) < RingSize)
    <3>1. ring' = ring /\ dropped' = dropped \cup {tx}
      BY <2>2 DEF IngressMeasure
    <3> QED BY <1>1, <1>2, <1>3, <1>4, <3>1 DEF InRing, OnceInv, TypeOK
  <2> QED BY <2>1, <2>2
<1>7. Measurements' = Measurements \cup {tx}
  BY <1>1, <1>2, <1>6 DEF Measurements
<1>8. TypeOK'
  BY <1>1, <1>2, <1>3, <1>6 DEF TypeOK
<1>9. LifeInv' /\ BatchInv'
  BY <1>1 DEF LifeInv, RingAlive, BatchInv, ReadIsLogged, IngressMeasure
<1>10. StampInv'
  BY <1>1, <1>2, <1>3 DEF StampInv
<1>11. OnceInv'
  <2>1. \A s \in SeqNos : tsStore'[s] \notin Measurements'
    BY <1>3, <1>5, <1>7 DEF OnceInv
  <2>2. Distinct(batch')
    BY <1>1 DEF OnceInv
  <2>3. /\ dropped' \cap (InRing' \cup Events' \cup published' \cup lost') = {}
        /\ InRing' \cap (Events' \cup published' \cup lost') = {}
        /\ Events' \cap (published' \cup lost') = {}
        /\ published' \cap lost' = {}
    BY <1>1, <1>2, <1>5, <1>6 DEF OnceInv, Measurements
  <2> QED BY <1>3, <1>6, <2>1, <2>2, <2>3 DEF OnceInv
<1> QED BY <1>7, <1>8, <1>9, <1>10, <1>11

----------------------------------------------------------------------------
(* The consumer                                                            *)

(* A step of run that moves no event. *)
LEMMA MoveStep ==
    ASSUME Inv, NewReader \/ LoopStop \/ LoopTick \/ LoopDefault \/ ReadTimeout
    PROVE  Inv'
<1> USE DEF Inv
<1>1. UNCHANGED <<life, hooks, objsOpen, sent, tsStore, ingress, ring, dropped, kafka, cancelled,
                  batch, published, lost>>
  BY DEF NewReader, LoopStop, LoopTick, LoopDefault, ReadTimeout, Consume
<1>2. consumer' \in {"loop", "done", "read", "lastFlush", "tickFlush"}
  BY DEF NewReader, LoopStop, LoopTick, LoopDefault, ReadTimeout, Consume
<1>3. TypeOK'
  BY <1>1, <1>2 DEF TypeOK, Sent
<1>4. LifeInv'
  <2>1. consumer \in {"start", "loop", "read"}
    BY DEF NewReader, LoopStop, LoopTick, LoopDefault, ReadTimeout
  <2> QED BY <1>1, <2>1 DEF LifeInv, RingAlive
<1>5. BatchInv'
  <2>1. CASE NewReader
    BY <1>1, <1>2, <2>1, EmptySeq, ProberAssumption DEF NewReader, BatchInv, ReadIsLogged, Consume
  <2>2. CASE ~NewReader
    <3>1. consumer \in {"loop", "read"} /\ (consumer' = "done" => batch = <<>>)
      BY <2>2 DEF LoopStop, LoopTick, LoopDefault, ReadTimeout, Consume
    <3> QED BY <1>1, <1>2, <3>1 DEF BatchInv, ReadIsLogged
  <2> QED BY <2>1, <2>2
<1> HIDE DEF Inv
<1>6. StampInv' /\ OnceInv'
  BY <1>1, DataUnchanged DEF kernel
<1> QED BY <1>3, <1>4, <1>5, <1>6 DEF Inv

(* A record goes from the ring buffer into the batch. *)
LEMMA ReadRecordStep ==
    ASSUME Inv, ReadRecord
    PROVE  Inv' /\ Measurements' = Measurements
<1> USE DEF Inv
<1>1. /\ UNCHANGED <<life, hooks, objsOpen, sent, tsStore, ingress, dropped, kafka, cancelled,
                     published, lost>>
      /\ ring # <<>> /\ ring' = Tail(ring) /\ batch' = Append(batch, Head(ring))
      /\ consumer = "read"
      /\ consumer' = IF Len(batch) + 1 >= FlushSize THEN "fullFlush" ELSE "loop"
  BY DEF ReadRecord, Consume
<1>2. Sent' = Sent
  BY <1>1 DEF Sent
<1>3. /\ ring \in Seq(Sent) /\ batch \in Seq(Sent)
      /\ Len(ring) \in Nat /\ Len(batch) \in Nat
  BY LenProperties DEF TypeOK
<1>4. /\ Head(ring) \in Sent /\ ring' \in Seq(Sent) /\ Len(ring') = Len(ring) - 1
      /\ batch' \in Seq(Sent) /\ Len(batch') = Len(batch) + 1
  BY <1>1, <1>3, HeadTailProperties, AppendProperties
<1>5. InRing = Range(ring) /\ Events = Range(batch) /\ InRing' = Range(ring') /\ Events' = Range(batch')
  BY <1>3, <1>4, RangeEquality DEF InRing, Events
<1>6. /\ InRing = {Head(ring)} \cup InRing'
      /\ Head(ring) \notin InRing' /\ Distinct(ring')
  BY <1>1, <1>3, <1>5, TailDistinct DEF OnceInv
<1>7. Events' = Events \cup {Head(ring)} /\ Distinct(batch')
  <2>1. Head(ring) \notin Events
    BY <1>6 DEF OnceInv
  <2> QED BY <1>1, <1>3, <1>4, <1>5, <2>1, AppendDistinct DEF OnceInv
<1>8. Measurements' = Measurements
  BY <1>1, <1>6, <1>7 DEF Measurements
<1>9. Len(batch) < FlushSize /\ Len(ring) <= RingSize
  BY <1>1 DEF BatchInv, TypeOK
<1>10. TypeOK'
  <2>1. Len(ring') <= RingSize /\ Len(batch') <= FlushSize
    BY <1>3, <1>4, <1>9, ProberAssumption
  <2> QED BY <1>1, <1>2, <1>4, <2>1 DEF TypeOK
<1>11. LifeInv'
  BY <1>1 DEF LifeInv, RingAlive
<1>12. BatchInv'
  BY <1>1, <1>3, <1>4, ProberAssumption DEF BatchInv, ReadIsLogged
<1>13. StampInv'
  BY <1>1, <1>2 DEF StampInv
<1>14. OnceInv'
  <2>1. /\ dropped' \cap (InRing' \cup Events' \cup published' \cup lost') = {}
        /\ InRing' \cap (Events' \cup published' \cup lost') = {}
        /\ Events' \cap (published' \cup lost') = {}
        /\ published' \cap lost' = {}
    BY <1>1, <1>6, <1>7 DEF OnceInv
  <2> QED BY <1>1, <1>6, <1>7, <1>8, <2>1 DEF OnceInv
<1> QED BY <1>8, <1>10, <1>11, <1>12, <1>13, <1>14

(* flush: the batch is forwarded or lost as a whole. *)
LEMMA FlushStep ==
    ASSUME Inv, FlushOK \/ FlushFails
    PROVE  Inv' /\ Measurements' = Measurements
<1> USE DEF Inv
<1>1. /\ UNCHANGED <<life, hooks, objsOpen, sent, tsStore, ingress, ring, dropped, kafka, cancelled>>
      /\ consumer \in {"lastFlush", "tickFlush", "fullFlush"}
      /\ consumer' \in {"done", "read", "loop"}
      /\ batch' = <<>>
      /\ \/ published' = published \cup Events /\ lost' = lost
         \/ lost' = lost \cup Events /\ published' = published /\ kafka
  BY DEF FlushOK, FlushFails, Flushing, AfterFlush, Consume
<1>2. UNCHANGED <<Sent, InRing>>
  BY <1>1 DEF Sent, InRing
<1>3. Events' = {} /\ Distinct(batch') /\ batch' \in Seq(Sent) /\ Len(batch') = 0
  <2>1. batch' \in Seq(Sent)
    BY <1>1, EmptySeq
  <2>2. Events' = Range(batch')
    BY <2>1, RangeEquality DEF Events
  <2> QED BY <1>1, <2>1, <2>2, EmptyDistinct, EmptySeq
<1>4. Events \subseteq Sent
  BY BufferRanges DEF Measurements
<1>5. Measurements' = Measurements
  BY <1>1, <1>2, <1>3 DEF Measurements
<1>6. TypeOK'
  <2>1. Len(batch') <= FlushSize
    BY <1>3, ProberAssumption
  <2>2. dropped' \cup published' \cup lost' \subseteq Sent'
    BY <1>1, <1>2, <1>4 DEF TypeOK
  <2> QED BY <1>1, <1>2, <1>3, <2>1, <2>2 DEF TypeOK
<1>7. LifeInv'
  BY <1>1 DEF LifeInv, RingAlive
<1>8. BatchInv'
  BY <1>1, <1>3, ProberAssumption DEF BatchInv, ReadIsLogged
<1>9. StampInv'
  BY <1>1, <1>2 DEF StampInv
<1>10. OnceInv'
  <2>1. /\ dropped' \cap (InRing' \cup Events' \cup published' \cup lost') = {}
        /\ InRing' \cap (Events' \cup published' \cup lost') = {}
        /\ Events' \cap (published' \cup lost') = {}
        /\ published' \cap lost' = {}
    BY <1>1, <1>2, <1>3 DEF OnceInv
  <2>2. Distinct(ring')
    BY <1>1 DEF OnceInv
  <2> QED BY <1>1, <1>3, <1>5, <2>1, <2>2 DEF OnceInv
<1> QED BY <1>5, <1>6, <1>7, <1>8, <1>9, <1>10

----------------------------------------------------------------------------
(* The theorems                                                            *)

(* Nothing changes. *)
LEMMA StutterInv ==
    ASSUME Inv, UNCHANGED vars
    PROVE  Inv'
<1>1. UNCHANGED <<life, hooks, objsOpen, sent, tsStore, ingress, ring, dropped, kafka, cancelled,
                  consumer, batch, published, lost>>
  BY DEF vars, kernel, consumerVars
<1>2. TypeOK' /\ LifeInv' /\ BatchInv'
  BY <1>1 DEF Inv, TypeOK, Sent, LifeInv, RingAlive, BatchInv, ReadIsLogged
<1> QED BY <1>1, <1>2, DataUnchanged DEF Inv, kernel

(* Every step keeps the invariant. *)
LEMMA NextInv == Inv /\ [Next]_vars => Inv'
<1> SUFFICES ASSUME Inv, [Next]_vars PROVE Inv'
  OBVIOUS
<1>1. CASE \/ LoadObjects \/ AttachEgress \/ AttachIngress \/ SpawnFails \/ StartProbeConsumer
           \/ StopProbeConsumer \/ ConsumerStopped \/ CloseIngress \/ CloseEgress
           \/ CleanupTapInterface
  BY <1>1, LifeSteps
<1>2. CASE NextVM
  BY <1>2, NextVMStep
<1>3. CASE \E seq \in SeqNos : Evict(seq) \/ \E len \in Lengths : Egress(seq, len)
  BY <1>3, EvictStep, EgressStep
<1>4. CASE \E ack \in Acks : IngressLookup(ack)
  BY <1>4, IngressLookupStep
<1>5. CASE IngressOutOfRange \/ IngressMeasure
  BY <1>5, IngressOutOfRangeStep, IngressMeasureStep
<1>6. CASE NewReader \/ LoopStop \/ LoopTick \/ LoopDefault \/ ReadTimeout
  BY <1>6, MoveStep
<1>7. CASE ReadRecord
  BY <1>7, ReadRecordStep
<1>8. CASE FlushLogged \/ FlushOK \/ FlushFails
  BY <1>8, FlushStep DEF FlushLogged
<1>9. CASE UNCHANGED vars
  BY <1>9, StutterInv
<1> QED BY <1>1, <1>2, <1>3, <1>4, <1>5, <1>6, <1>7, <1>8, <1>9 DEF Next, ConsumerStep

(* The inductive invariant holds in every state of attach, detach, the     *)
(* kernel programs and run.                                                *)
THEOREM InductiveInvariant == Spec => []Inv
<1>1. Init => Inv
  BY InitInv
<1>2. Inv /\ [Next]_vars => Inv'
  BY NextInv
<1> QED BY <1>1, <1>2, PTL DEF Spec

(* Buffers keep their limits and the consumer runs on open maps only:      *)
(* StopProbeConsumer's wait before DetachProber is enough.  Nothing of the *)
(* prober survives an interface deleted after DetachProber or after a      *)
(* failed attach, whatever failed on the way; after a spawn that failed    *)
(* behind the attach only the maps do.                                     *)
THEOREM ProberConsistentHolds == Spec => []ProberConsistent
<1>1. Inv => ProberConsistent
  BY DEF Inv, LifeInv, RingAlive, TypeOK, ProberConsistent, ReaderOnOpenMap, ProberLeavesNothing
<1> QED BY <1>1, InductiveInvariant, PTL

(* Without a Kafka client run logs everything it has read before it ends.  *)
THEOREM ReadIsLoggedHolds == Spec => []ReadIsLogged
<1>1. Inv => ReadIsLogged
  BY DEF Inv, BatchInv
<1> QED BY <1>1, InductiveInvariant, PTL

(* Cardinality of a disjoint union. *)
LEMMA DisjointUnion ==
    ASSUME NEW S, NEW T, IsFiniteSet(S), IsFiniteSet(T), S \cap T = {}
    PROVE  /\ IsFiniteSet(S \cup T)
           /\ Cardinality(S \cup T) = Cardinality(S) + Cardinality(T)
           /\ Cardinality(S) \in Nat /\ Cardinality(T) \in Nat
<1>1. /\ IsFiniteSet(S \cup T)
      /\ Cardinality(S \cup T) = Cardinality(S) + Cardinality(T) - Cardinality(S \cap T)
  BY FS_Union
<1>2. Cardinality(S) \in Nat /\ Cardinality(T) \in Nat /\ Cardinality(S \cap T) = 0
  BY FS_CardinalityType, FS_EmptySet
<1> QED BY <1>1, <1>2

(* tc_ingress's lookup and deletion are two steps, with retransmissions,   *)
(* evictions and duplicate acknowledgements in between; yet no             *)
(* transmission is measured twice.                                         *)
THEOREM MeasuredOnceHolds == Spec => []MeasuredOnce
<1>1. Inv => MeasuredOnce
  <2> SUFFICES ASSUME Inv PROVE MeasuredOnce
    OBVIOUS
  <2>1. /\ ring \in Seq(Sent) /\ batch \in Seq(Sent) /\ Len(sent) \in Nat
        /\ dropped \subseteq Sent /\ published \subseteq Sent /\ lost \subseteq Sent
    BY LenProperties DEF Inv, TypeOK, StampInv
  <2>2. InRing = Range(ring) /\ Events = Range(batch)
    BY BufferRanges DEF Inv
  <2>3. /\ IsFiniteSet(InRing) /\ Cardinality(InRing) = Len(ring)
        /\ IsFiniteSet(Events) /\ Cardinality(Events) = Len(batch)
    BY <2>1, <2>2, DistinctCardinality DEF Inv, OnceInv
  <2>4. IsFiniteSet(Sent)
    BY <2>1, FS_Interval DEF Sent
  <2>5. IsFiniteSet(dropped) /\ IsFiniteSet(published) /\ IsFiniteSet(lost)
    BY <2>1, <2>4, FS_Subset
  <2> DEFINE A == published \cup lost
             B == Events \cup A
             C == InRing \cup B
  <2>6. /\ published \cap lost = {} /\ Events \cap A = {}
        /\ InRing \cap B = {} /\ dropped \cap C = {}
        /\ Measurements = dropped \cup C
    BY DEF Inv, OnceInv, Measurements
  <2>7. /\ IsFiniteSet(A) /\ Cardinality(A) = Cardinality(published) + Cardinality(lost)
        /\ Cardinality(published) \in Nat /\ Cardinality(lost) \in Nat
    BY <2>5, <2>6, DisjointUnion
  <2> HIDE DEF A
  <2>8. IsFiniteSet(B) /\ Cardinality(B) = Len(batch) + Cardinality(A) /\ Len(batch) \in Nat
    BY <2>3, <2>6, <2>7, DisjointUnion
  <2> HIDE DEF B
  <2>9. IsFiniteSet(C) /\ Cardinality(C) = Len(ring) + Cardinality(B) /\ Len(ring) \in Nat
    BY <2>3, <2>6, <2>8, DisjointUnion
  <2> HIDE DEF C
  <2>10. /\ Cardinality(dropped \cup C) = Cardinality(dropped) + Cardinality(C)
         /\ Cardinality(dropped) \in Nat
    BY <2>5, <2>6, <2>9, DisjointUnion
  <2>11. Cardinality(Measurements)
           = Cardinality(dropped) + Len(ring) + Len(batch) + Cardinality(published) + Cardinality(lost)
    BY <2>6, <2>7, <2>8, <2>9, <2>10
  <2> QED BY <2>11 DEF MeasuredOnce, Inv, OnceInv
<1> QED BY <1>1, InductiveInvariant, PTL

(* No step but a new interface makes a measurement disappear that has left *)
(* the ring buffer, and none that is in it but the one that closes the     *)
(* maps: what leaves a buffer is in the next one, forwarded, or lost by a  *)
(* failed flush.                                                           *)
THEOREM NothingVanishesHolds == Spec => NothingVanishes
<1>1. Inv /\ [Next]_vars => [life' # "tap" => OnlyUnreadVanish]_vars
  <2> SUFFICES ASSUME Inv, Next, life' # "tap" PROVE OnlyUnreadVanish
    OBVIOUS
  <2>1. CASE UNCHANGED <<ring, dropped, batch, published, lost>>
    BY <2>1 DEF Measurements, InRing, Events, OnlyUnreadVanish
  <2>2. CASE IngressMeasure
    BY <2>2, IngressMeasureStep DEF OnlyUnreadVanish
  <2>3. CASE ReadRecord
    BY <2>3, ReadRecordStep DEF OnlyUnreadVanish
  <2>4. CASE FlushLogged \/ FlushOK \/ FlushFails
    BY <2>4, FlushStep DEF FlushLogged, OnlyUnreadVanish
  <2>5. CASE \/ LoadObjects \/ AttachEgress \/ AttachIngress \/ SpawnFails \/ StartProbeConsumer
             \/ StopProbeConsumer \/ ConsumerStopped \/ CloseIngress \/ CloseEgress
             \/ CleanupTapInterface
    <3>1. UNCHANGED <<sent, tsStore, ingress, dropped, batch, published, lost>>
      BY <2>5 DEF LoadObjects, AttachEgress, AttachIngress, SpawnFails, StartProbeConsumer,
             StopProbeConsumer, ConsumerStopped, CloseIngress, CloseEgress, CleanupTapInterface,
             CloseObjects, kernel, otherKernel, consumerVars
    <3>2. ring' = ring \/ (ring' = <<>> /\ ~RingAlive')
      BY <2>5, LifeSteps
    <3>3. CASE ring' = ring
      BY <2>1, <3>1, <3>3
    <3>4. CASE ring' # ring
      <4>1. RingAlive
        BY <3>2, <3>4 DEF Inv, LifeInv
      <4>2. Measurements \ InRing \subseteq Measurements'
        BY <3>1, <3>2, RingReleased
      <4> QED BY <3>2, <3>4, <4>1, <4>2 DEF OnlyUnreadVanish
    <3> QED BY <3>3, <3>4
  <2>6. CASE \/ \E seq \in SeqNos : Evict(seq) \/ \E len \in Lengths : Egress(seq, len)
             \/ \E ack \in Acks : IngressLookup(ack)
             \/ IngressOutOfRange
    BY <2>1, <2>6 DEF Evict, Egress, IngressLookup, IngressOutOfRange, consumerVars
  <2>7. CASE NewReader \/ LoopStop \/ LoopTick \/ LoopDefault \/ ReadTimeout
    BY <2>1, <2>7 DEF NewReader, LoopStop, LoopTick, LoopDefault, ReadTimeout, Consume
  <2>8. ~NextVM
    BY DEF NextVM
  <2> QED BY <2>2, <2>3, <2>4, <2>5, <2>6, <2>7, <2>8 DEF Next, ConsumerStep
<1> QED BY <1>1, InductiveInvariant, PTL DEF Spec, NothingVanishes

============================================================================
