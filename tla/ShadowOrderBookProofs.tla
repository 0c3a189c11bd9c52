----------------------- MODULE ShadowOrderBookProofs -----------------------
(***************************************************************************)
(* Proofs about ShadowOrderBook, for any set of ids, prices and quantities,*)
(* any limit of trades and any number of submissions.                      *)
(***************************************************************************)
EXTENDS ShadowOrderBook, FiniteSetTheorems, WellFoundedInduction, TLAPS

----------------------------------------------------------------------------
(* The inductive invariant                                                 *)

(* IndexMatchesQueues, position by position. *)
IndexInv ==
    /\ \A s \in Sides, p \in Prices : \A i \in 1..Len(queue[s][p]) :
          queue[s][p][i].id \in order_index
    /\ \A x \in order_index : \E s \in Sides, p \in Prices :
          \E i \in 1..Len(queue[s][p]) : queue[s][p][i].id = x
    /\ canceled \subseteq order_index
    /\ \A s, t \in Sides, p, q \in Prices :
        \A i \in 1..Len(queue[s][p]), j \in 1..Len(queue[t][q]) :
            queue[s][p][i].id = queue[t][q][j].id => s = t /\ p = q /\ i = j

(* Every side has a best price as long as it has one at all. *)
BoundInv == \A s \in Sides : \E n \in Nat : \A p \in levels[s] : p <= n

(* An order being matched is not in the book, and inside the inner loop    *)
(* there is a level, and it crosses.                                       *)
CallInv ==
    /\ pc = "idle" => incoming = NoOrder
    /\ pc # "idle" => /\ incoming.id \in Ids /\ incoming.id \notin order_index
                      /\ incoming.market \/ incoming.price \in Prices
    /\ pc = "match" => levels[Facing] # {} /\ Crossing(incoming, Level)
    /\ pc \in {"level", "match"} => Len(trades) < MaxTrades

(* Only the level of the inner loop may be empty. *)
LevelsInv ==
    \A s \in Sides, p \in Prices :
        /\ queue[s][p] # <<>> => p \in levels[s]
        /\ ~capHit /\ p \in levels[s] /\ queue[s][p] = <<>> =>
              pc = "match" /\ s = Facing /\ p = Level

(* What is about to rest crosses no live order. *)
RestInv ==
    pc = "rest" =>
        \/ incoming.qty = 0
        \/ \A p \in LivePrices(Facing) : ~Crossing(incoming, p)
        \/ capHit /\ Len(trades) >= MaxTrades

CrossInv ==
    ~capHit => \A b \in LivePrices("buy"), a \in LivePrices("sell") : b < a

(* A queue is in the order of arrival. *)
StampInv ==
    \A s \in Sides, p \in Prices :
        /\ \A i \in 1..Len(queue[s][p]) : stamp[queue[s][p][i].id] < clock
        /\ \A i, j \in 1..Len(queue[s][p]) :
              i < j => stamp[queue[s][p][i].id] < stamp[queue[s][p][j].id]

Inv == /\ TypeOK /\ IndexInv /\ BoundInv /\ CallInv /\ LevelsInv
       /\ RestInv /\ CrossInv /\ StampInv /\ QuantityConserved

----------------------------------------------------------------------------
(* Lemmas about the operators                                              *)

(* A set of natural numbers has a least element. *)
LEMMA LeastNat ==
    ASSUME NEW S \in SUBSET Nat, S # {}
    PROVE  \E x \in S : \A y \in S : x <= y
<1>1. PICK x \in S : \A y \in S : ~(<<y, x>> \in OpToRel(<, Nat))
  BY WFMin, NatLessThanWellFounded
<1>2. \A y \in S : ~(y < x)
  BY <1>1 DEF OpToRel
<1> QED BY <1>2

(* A bounded one has a greatest. *)
LEMMA GreatestNat ==
    ASSUME NEW S \in SUBSET Nat, S # {}, NEW n \in Nat, \A x \in S : x <= n
    PROVE  \E x \in S : \A y \in S : y <= x
<1> DEFINE D == {n - x : x \in S}
<1>1. D \in SUBSET Nat /\ D # {}
  <2>1. \A x \in S : n - x \in Nat
    OBVIOUS
  <2> QED BY <2>1
<1>2. PICK d \in D : \A e \in D : d <= e
  BY <1>1, LeastNat
<1>3. PICK x \in S : d = n - x
  OBVIOUS
<1>4. ASSUME NEW y \in S PROVE y <= x
  <2>1. n - y \in D
    OBVIOUS
  <2>2. n - x <= n - y
    BY <1>2, <1>3, <2>1
  <2> QED BY <2>2
<1> QED BY <1>4

(* first_key_value and last_key_value of a map that holds anything. *)
LEMMA BestFacts ==
    ASSUME TypeOK, BoundInv, NEW s \in Sides, levels[s] # {}
    PROVE  /\ BestPrice(s) \in levels[s] /\ BestPrice(s) \in Prices
           /\ \A q \in levels[s] : IF s = "sell" THEN BestPrice(s) <= q ELSE BestPrice(s) >= q
<1>1. levels[s] \in SUBSET Nat /\ levels[s] \subseteq Prices
  BY PricesAssumption DEF TypeOK
<1>2. CASE s = "sell"
  <2>1. \E p \in levels[s] : \A q \in levels[s] : p <= q
    BY <1>1, LeastNat
  <2> QED BY <1>1, <1>2, <2>1 DEF BestPrice
<1>3. CASE s # "sell"
  <2>1. PICK n \in Nat : \A p \in levels[s] : p <= n
    BY DEF BoundInv
  <2>2. \E p \in levels[s] : \A q \in levels[s] : q <= p
    BY <1>1, <2>1, GreatestNat
  <2>3. \E p \in levels[s] : \A q \in levels[s] : p >= q
    BY <1>1, <2>2
  <2> QED BY <1>1, <1>3, <2>3 DEF BestPrice
<1> QED BY <1>2, <1>3

(* The tail of a queue. *)
LEMMA TailFacts ==
    ASSUME NEW S, NEW s \in Seq(S), s # <<>>
    PROVE  /\ Tail(s) \in Seq(S) /\ Len(Tail(s)) = Len(s) - 1 /\ Len(s) \in Nat /\ Len(s) >= 1
           /\ 1 \in 1..Len(s) /\ Head(s) = s[1] /\ Head(s) \in S
           /\ \A i \in 1..Len(Tail(s)) : i + 1 \in 1..Len(s) /\ Tail(s)[i] = s[i + 1]
           /\ \A i \in 1..Len(s) : i = 1 \/ (i - 1 \in 1..Len(Tail(s)) /\ Tail(s)[i - 1] = s[i])
OBVIOUS

(* A queue with one more entry. *)
LEMMA AppendFacts ==
    ASSUME NEW S, NEW s \in Seq(S), NEW e \in S
    PROVE  /\ Append(s, e) \in Seq(S) /\ Len(Append(s, e)) = Len(s) + 1 /\ Len(s) \in Nat
           /\ Append(s, e)[Len(s) + 1] = e
           /\ \A i \in 1..Len(s) : Append(s, e)[i] = s[i]
OBVIOUS

(* The book with another queue at one place. *)
Puts(f, l, x) == queue' = [queue EXCEPT ![f][l] = x]

(* No other queue changes. *)
LEMMA QueueUpdate ==
    ASSUME TypeOK, NEW f \in Sides, NEW l \in Prices, NEW x \in Seq(Entries),
           Puts(f, l, x)
    PROVE  /\ queue' \in [Sides -> [Prices -> Seq(Entries)]]
           /\ queue'[f][l] = x
           /\ \A s \in Sides, p \in Prices : s # f \/ p # l => queue'[s][p] = queue[s][p]
BY DEF TypeOK, Puts

(* The front of a queue with another quantity. *)
LEMMA FrontFacts ==
    ASSUME NEW s \in Seq(Entries), s # <<>>, NEW n \in Nat \ {0},
           NEW new, new = [s EXCEPT ![1].qty = n]
    PROVE  /\ new \in Seq(Entries) /\ Len(new) = Len(s) /\ Len(s) \in Nat
           /\ \A i \in 1..Len(s) : /\ new[i].id = s[i].id
                                   /\ new[i].qty = IF i = 1 THEN n ELSE s[i].qty
                                   /\ i # 1 => new[i] = s[i]
<1>1. 1 \in 1..Len(s) /\ s[1] \in Entries /\ Len(s) \in Nat
  OBVIOUS
<1>2. PICK e : e = [s[1] EXCEPT !.qty = n]
  OBVIOUS
<1>3. e \in Entries /\ e.id = s[1].id /\ e.qty = n
  BY <1>1, <1>2 DEF Entries
<1>4. new = [s EXCEPT ![1] = e]
  BY <1>2
<1>5. new \in Seq(Entries) /\ Len(new) = Len(s)
  BY <1>1, <1>3, <1>4
<1>6. \A i \in 1..Len(s) : new[i] = IF i = 1 THEN e ELSE s[i]
  BY <1>1, <1>4
<1> QED BY <1>1, <1>3, <1>5, <1>6

(* Where the entry at position i of a queue was before the front of the    *)
(* queue at f, l was popped.                                               *)
Before(f, l, s, p, i) == IF s = f /\ p = l THEN i + 1 ELSE i

Pops(f, l) == queue' = [queue EXCEPT ![f][l] = Tail(@)]

(* A pop moves the entries behind the front up and touches nothing else. *)
LEMMA PopFacts ==
    ASSUME TypeOK, NEW f \in Sides, NEW l \in Prices, queue[f][l] # <<>>, Pops(f, l)
    PROVE  /\ queue' \in [Sides -> [Prices -> Seq(Entries)]]
           /\ \A s \in Sides, p \in Prices : \A i \in 1..Len(queue'[s][p]) :
                 /\ Before(f, l, s, p, i) \in 1..Len(queue[s][p])
                 /\ queue'[s][p][i] = queue[s][p][Before(f, l, s, p, i)]
           /\ \A s \in Sides, p \in Prices : \A i \in 1..Len(queue[s][p]) :
                 \/ s = f /\ p = l /\ i = 1
                 \/ \E j \in 1..Len(queue'[s][p]) : queue'[s][p][j] = queue[s][p][i]
<1>1. queue[f][l] \in Seq(Entries)
  BY DEF TypeOK
<1>2. /\ Tail(queue[f][l]) \in Seq(Entries)
      /\ \A i \in 1..Len(Tail(queue[f][l])) :
            i + 1 \in 1..Len(queue[f][l]) /\ Tail(queue[f][l])[i] = queue[f][l][i + 1]
      /\ \A i \in 1..Len(queue[f][l]) :
            i = 1 \/ \E j \in 1..Len(Tail(queue[f][l])) : Tail(queue[f][l])[j] = queue[f][l][i]
  BY <1>1, TailFacts
<1>3. /\ queue' \in [Sides -> [Prices -> Seq(Entries)]]
      /\ queue'[f][l] = Tail(queue[f][l])
      /\ \A s \in Sides, p \in Prices : s # f \/ p # l => queue'[s][p] = queue[s][p]
  <2>1. Puts(f, l, Tail(queue[f][l]))
    BY DEF Pops, Puts
  <2> QED BY <1>2, <2>1, QueueUpdate
<1>4. ASSUME NEW s \in Sides, NEW p \in Prices, NEW i \in 1..Len(queue'[s][p])
      PROVE  /\ Before(f, l, s, p, i) \in 1..Len(queue[s][p])
             /\ queue'[s][p][i] = queue[s][p][Before(f, l, s, p, i)]
  <2>1. CASE s = f /\ p = l
    BY <1>2, <1>3, <2>1 DEF Before
  <2>2. CASE s # f \/ p # l
    BY <1>3, <2>2 DEF Before
  <2> QED BY <2>1, <2>2
<1>5. ASSUME NEW s \in Sides, NEW p \in Prices, NEW i \in 1..Len(queue[s][p])
      PROVE  \/ s = f /\ p = l /\ i = 1
             \/ \E j \in 1..Len(queue'[s][p]) : queue'[s][p][j] = queue[s][p][i]
  <2>1. CASE s = f /\ p = l /\ i # 1
    <3>1. i \in 1..Len(queue[f][l])
      BY <2>1
    <3>2. PICK j \in 1..Len(Tail(queue[f][l])) : Tail(queue[f][l])[j] = queue[f][l][i]
      BY <1>2, <2>1, <3>1
    <3> QED BY <1>3, <2>1, <3>2
  <2>2. CASE s # f \/ p # l
    BY <1>3, <2>2
  <2> QED BY <2>1, <2>2
<1> QED BY <1>3, <1>4, <1>5

(* An id is at one place of the queues. *)
LEMMA OnePlace ==
    ASSUME IndexInv, NEW s \in Sides, NEW t \in Sides, NEW p \in Prices, NEW q \in Prices,
           NEW i \in 1..Len(queue[s][p]), NEW j \in 1..Len(queue[t][q]),
           queue[s][p][i].id = queue[t][q][j].id
    PROVE  s = t /\ p = q /\ i = j
BY DEF IndexInv

(* The entry behind is the later one. *)
LEMMA LaterBehind ==
    ASSUME StampInv, NEW s \in Sides, NEW p \in Prices,
           NEW i \in 1..Len(queue[s][p]), NEW j \in 1..Len(queue[s][p]), i < j
    PROVE  stamp[queue[s][p][i].id] < stamp[queue[s][p][j].id]
BY DEF StampInv

(* The index loses what the queue loses. *)
LEMMA PopIndex ==
    ASSUME TypeOK, IndexInv, NEW f \in Sides, NEW l \in Prices, queue[f][l] # <<>>, Pops(f, l),
           order_index' = order_index \ {queue[f][l][1].id},
           canceled' = canceled \ {queue[f][l][1].id}
    PROVE  IndexInv'
<1>0. 1 \in 1..Len(queue[f][l])
  BY TailFacts DEF TypeOK
<1>1. \A s \in Sides, p \in Prices : \A i \in 1..Len(queue'[s][p]) :
         /\ Before(f, l, s, p, i) \in 1..Len(queue[s][p])
         /\ queue'[s][p][i] = queue[s][p][Before(f, l, s, p, i)]
  BY PopFacts
<1>2. \A s \in Sides, p \in Prices : \A i \in 1..Len(queue[s][p]) :
         \/ s = f /\ p = l /\ i = 1
         \/ \E j \in 1..Len(queue'[s][p]) : queue'[s][p][j] = queue[s][p][i]
  BY PopFacts
<1>3. ASSUME NEW s \in Sides, NEW p \in Prices, NEW i \in 1..Len(queue'[s][p])
      PROVE  queue'[s][p][i].id \in order_index'
  <2>1. queue[s][p][Before(f, l, s, p, i)].id \in order_index
    BY <1>1 DEF IndexInv
  <2>2. Before(f, l, s, p, i) # 1 \/ s # f \/ p # l
    BY DEF Before
  <2>3. queue[s][p][Before(f, l, s, p, i)].id # queue[f][l][1].id
    BY <1>0, <1>1, <2>2 DEF IndexInv
  <2> QED BY <1>1, <2>1, <2>3
<1>4. ASSUME NEW x \in order_index'
      PROVE  \E s \in Sides, p \in Prices : \E i \in 1..Len(queue'[s][p]) : queue'[s][p][i].id = x
  <2>1. PICK s \in Sides, p \in Prices : \E i \in 1..Len(queue[s][p]) : queue[s][p][i].id = x
    BY DEF IndexInv
  <2>2. PICK i \in 1..Len(queue[s][p]) : queue[s][p][i].id = x
    BY <2>1
  <2>3. ~(s = f /\ p = l /\ i = 1)
    BY <2>2
  <2>4. PICK j \in 1..Len(queue'[s][p]) : queue'[s][p][j] = queue[s][p][i]
    BY <1>2, <2>3
  <2> QED BY <2>2, <2>4
<1>5. canceled' \subseteq order_index'
  BY DEF IndexInv
<1>6. ASSUME NEW s \in Sides, NEW t \in Sides, NEW p \in Prices, NEW q \in Prices,
             NEW i \in 1..Len(queue'[s][p]), NEW j \in 1..Len(queue'[t][q]),
             queue'[s][p][i].id = queue'[t][q][j].id
      PROVE  s = t /\ p = q /\ i = j
  <2>1. /\ Before(f, l, s, p, i) \in 1..Len(queue[s][p])
        /\ Before(f, l, t, q, j) \in 1..Len(queue[t][q])
        /\ queue[s][p][Before(f, l, s, p, i)].id = queue[t][q][Before(f, l, t, q, j)].id
    BY <1>1, <1>6
  <2>2. s = t /\ p = q /\ Before(f, l, s, p, i) = Before(f, l, t, q, j)
    <3>1. PICK a \in 1..Len(queue[s][p]), b \in 1..Len(queue[t][q]) :
             a = Before(f, l, s, p, i) /\ b = Before(f, l, t, q, j)
      BY <2>1
    <3>2. queue[s][p][a].id = queue[t][q][b].id
      BY <2>1, <3>1
    <3>3. s = t /\ p = q /\ a = b
      BY <3>2, OnePlace, SMTT(30)
    <3> QED BY <3>1, <3>3
  <2> QED BY <2>2 DEF Before
<1> QED BY <1>3, <1>4, <1>5, <1>6 DEF IndexInv

(* The order of arrival stays. *)
LEMMA PopStamp ==
    ASSUME TypeOK, StampInv, NEW f \in Sides, NEW l \in Prices, queue[f][l] # <<>>, Pops(f, l),
           UNCHANGED <<stamp, clock>>
    PROVE  StampInv'
<1>1. \A s \in Sides, p \in Prices : \A i \in 1..Len(queue'[s][p]) :
         /\ Before(f, l, s, p, i) \in 1..Len(queue[s][p])
         /\ queue'[s][p][i] = queue[s][p][Before(f, l, s, p, i)]
  BY PopFacts
<1>2. ASSUME NEW s \in Sides, NEW p \in Prices, NEW i \in 1..Len(queue'[s][p])
      PROVE  stamp'[queue'[s][p][i].id] < clock'
  BY <1>1 DEF StampInv
<1>3. ASSUME NEW s \in Sides, NEW p \in Prices,
             NEW i \in 1..Len(queue'[s][p]), NEW j \in 1..Len(queue'[s][p]), i < j
      PROVE  stamp'[queue'[s][p][i].id] < stamp'[queue'[s][p][j].id]
  <2>1. Before(f, l, s, p, i) < Before(f, l, s, p, j)
    BY <1>3 DEF Before
  <2>2. /\ Before(f, l, s, p, i) \in 1..Len(queue[s][p])
        /\ Before(f, l, s, p, j) \in 1..Len(queue[s][p])
        /\ queue'[s][p][i] = queue[s][p][Before(f, l, s, p, i)]
        /\ queue'[s][p][j] = queue[s][p][Before(f, l, s, p, j)]
    BY <1>1
  <2>3. stamp[queue[s][p][Before(f, l, s, p, i)].id] < stamp[queue[s][p][Before(f, l, s, p, j)].id]
    BY <2>1, <2>2, LaterBehind
  <2> QED BY <2>2, <2>3
<1> QED BY <1>2, <1>3 DEF StampInv

(* No entry becomes live. *)
LEMMA PopLive ==
    ASSUME TypeOK, IndexInv, NEW f \in Sides, NEW l \in Prices, queue[f][l] # <<>>, Pops(f, l),
           order_index' = order_index \ {queue[f][l][1].id},
           canceled' = canceled \ {queue[f][l][1].id}
    PROVE  \A s \in Sides : LivePrices(s)' \subseteq LivePrices(s)
<1>1. \A s \in Sides, p \in Prices : \A i \in 1..Len(queue'[s][p]) :
         /\ Before(f, l, s, p, i) \in 1..Len(queue[s][p])
         /\ queue'[s][p][i] = queue[s][p][Before(f, l, s, p, i)]
  BY PopFacts
<1>2. ASSUME NEW s \in Sides, NEW p \in LivePrices(s)' PROVE p \in LivePrices(s)
  <2>1. p \in Prices /\ \E i \in 1..Len(queue'[s][p]) :
           queue'[s][p][i].id \in order_index' \ canceled'
    BY DEF LivePrices, Dead
  <2>2. PICK i \in 1..Len(queue'[s][p]) : queue'[s][p][i].id \in order_index' \ canceled'
    BY <2>1
  <2>3. queue[s][p][Before(f, l, s, p, i)].id \in order_index \ canceled
    BY <1>1, <2>1, <2>2
  <2> QED BY <1>1, <2>1, <2>3 DEF LivePrices, Dead
<1> QED BY <1>2

(* What the entries of the queues hold is what was submitted less fills. *)
QueuesConserved ==
    \A s \in Sides, p \in Prices : \A i \in 1..Len(queue[s][p]) :
        queue[s][p][i].qty + filled[queue[s][p][i].id] = submitted[queue[s][p][i].id]

(* Taking the front entry off a queue conserves the others. *)
LEMMA PopQuantity ==
    ASSUME TypeOK, IndexInv, QueuesConserved,
           NEW f \in Sides, NEW l \in Prices, queue[f][l] # <<>>, Pops(f, l),
           \A x \in order_index \ {queue[f][l][1].id} : filled'[x] = filled[x],
           UNCHANGED submitted
    PROVE  QueuesConserved'
<1>0. 1 \in 1..Len(queue[f][l])
  BY TailFacts DEF TypeOK
<1>1. ASSUME NEW s \in Sides, NEW p \in Prices, NEW i \in 1..Len(queue'[s][p])
      PROVE  queue'[s][p][i].qty + filled'[queue'[s][p][i].id] = submitted'[queue'[s][p][i].id]
  <2>1. /\ Before(f, l, s, p, i) \in 1..Len(queue[s][p])
        /\ queue'[s][p][i] = queue[s][p][Before(f, l, s, p, i)]
    BY PopFacts
  <2>2. PICK j \in 1..Len(queue[s][p]) : j = Before(f, l, s, p, i)
    BY <2>1
  <2>3. j # 1 \/ s # f \/ p # l
    BY <2>2 DEF Before
  <2>4. queue[s][p][j].id \in order_index /\ queue[s][p][j].id # queue[f][l][1].id
    <3>1. queue[s][p][j].id \in order_index
      BY DEF IndexInv
    <3>2. queue[s][p][j].id # queue[f][l][1].id
      BY <1>0, <2>3, OnePlace
    <3> QED BY <3>1, <3>2
  <2>5. queue[s][p][j].qty + filled[queue[s][p][j].id] = submitted[queue[s][p][j].id]
    BY DEF QueuesConserved
  <2> QED BY <2>1, <2>2, <2>4, <2>5
<1> QED BY <1>1 DEF QueuesConserved

(* Queues that keep their lengths and ids. *)
SameIds ==
    /\ queue' \in [Sides -> [Prices -> Seq(Entries)]]
    /\ \A s \in Sides, p \in Prices :
          /\ Len(queue'[s][p]) = Len(queue[s][p])
          /\ \A i \in 1..Len(queue[s][p]) : queue'[s][p][i].id = queue[s][p][i].id

(* The index, the live prices and the order of arrival stay. *)
LEMMA SameIdsKeep ==
    ASSUME SameIds, UNCHANGED <<order_index, canceled>>
    PROVE  /\ IndexInv => IndexInv'
           /\ \A s \in Sides : LivePrices(s)' \subseteq LivePrices(s)
           /\ StampInv /\ UNCHANGED <<stamp, clock>> => StampInv'
<1>1. ASSUME IndexInv PROVE IndexInv'
  <2>1. ASSUME NEW s \in Sides, NEW p \in Prices, NEW i \in 1..Len(queue'[s][p])
        PROVE  queue'[s][p][i].id \in order_index'
    <3>1. i \in 1..Len(queue[s][p]) /\ queue'[s][p][i].id = queue[s][p][i].id
      BY DEF SameIds
    <3> QED BY <1>1, <3>1 DEF IndexInv
  <2>2. ASSUME NEW x \in order_index'
        PROVE  \E s \in Sides, p \in Prices : \E i \in 1..Len(queue'[s][p]) : queue'[s][p][i].id = x
    <3>1. PICK s \in Sides, p \in Prices : \E i \in 1..Len(queue[s][p]) : queue[s][p][i].id = x
      BY <1>1 DEF IndexInv
    <3>2. PICK i \in 1..Len(queue[s][p]) : queue[s][p][i].id = x
      BY <3>1
    <3>3. i \in 1..Len(queue'[s][p]) /\ queue'[s][p][i].id = x
      BY <3>2 DEF SameIds
    <3> QED BY <3>3
  <2>3. canceled' \subseteq order_index'
    BY <1>1 DEF IndexInv
  <2>4. ASSUME NEW s \in Sides, NEW t \in Sides, NEW p \in Prices, NEW q \in Prices,
               NEW i \in 1..Len(queue'[s][p]), NEW j \in 1..Len(queue'[t][q]),
               queue'[s][p][i].id = queue'[t][q][j].id
        PROVE  s = t /\ p = q /\ i = j
    <3>1. i \in 1..Len(queue[s][p]) /\ j \in 1..Len(queue[t][q])
      BY DEF SameIds
    <3>2. queue[s][p][i].id = queue[t][q][j].id
      BY <2>4, <3>1 DEF SameIds
    <3> QED BY <1>1, <3>1, <3>2 DEF IndexInv
  <2> QED BY <2>1, <2>2, <2>3, <2>4 DEF IndexInv
<1>2. ASSUME NEW s \in Sides PROVE LivePrices(s)' \subseteq LivePrices(s)
  BY DEF LivePrices, Dead, SameIds
<1>3. ASSUME StampInv, UNCHANGED <<stamp, clock>> PROVE StampInv'
  <2>1. ASSUME NEW s \in Sides, NEW p \in Prices
        PROVE  /\ \A i \in 1..Len(queue'[s][p]) : stamp'[queue'[s][p][i].id] < clock'
               /\ \A i, j \in 1..Len(queue'[s][p]) :
                     i < j => stamp'[queue'[s][p][i].id] < stamp'[queue'[s][p][j].id]
    <3>1. /\ Len(queue'[s][p]) = Len(queue[s][p])
          /\ \A i \in 1..Len(queue[s][p]) : queue'[s][p][i].id = queue[s][p][i].id
      BY DEF SameIds
    <3>2. /\ \A i \in 1..Len(queue[s][p]) : stamp[queue[s][p][i].id] < clock
          /\ \A i, j \in 1..Len(queue[s][p]) :
                i < j => stamp[queue[s][p][i].id] < stamp[queue[s][p][j].id]
      BY <1>3 DEF StampInv
    <3>3. stamp' = stamp /\ clock' = clock
      BY <1>3
    <3>4. \A i \in 1..Len(queue'[s][p]) : stamp'[queue'[s][p][i].id] < clock'
      BY <3>1, <3>2, <3>3
    <3>5. ASSUME NEW i \in 1..Len(queue'[s][p]), NEW j \in 1..Len(queue'[s][p]), i < j
          PROVE  stamp'[queue'[s][p][i].id] < stamp'[queue'[s][p][j].id]
      <4>1. stamp[queue[s][p][i].id] < stamp[queue[s][p][j].id]
        BY <3>1, <3>2, <3>5
      <4> QED BY <3>1, <3>3, <4>1
    <3> QED BY <3>4, <3>5
  <2> QED BY <2>1 DEF StampInv
<1> QED BY <1>1, <1>2, <1>3

(* Live prices that are not new leave a book that was not crossed so. *)
LEMMA CrossKept ==
    ASSUME CrossInv, capHit => capHit', \A s \in Sides : LivePrices(s)' \subseteq LivePrices(s)
    PROVE  CrossInv'
BY DEF CrossInv, Sides

(* The level of the inner loop. *)
LEMMA LevelFacts ==
    ASSUME TypeOK, BoundInv, CallInv, pc = "match"
    PROVE  /\ Facing \in Sides /\ Level \in Prices /\ Level \in levels[Facing]
           /\ \A q \in levels[Facing] : IF Facing = "sell" THEN Level <= q ELSE Level >= q
<1>1. Facing \in Sides
  BY DEF TypeOK, Facing, Opp, Sides
<1> QED BY <1>1, BestFacts DEF CallInv, Level

(* Where the loops of a call are does not depend on what is left to fill. *)
LEMMA SameLevel ==
    ASSUME UNCHANGED levels, incoming'.side = incoming.side
    PROVE  Facing' = Facing /\ Level' = Level
BY DEF Facing, Level, BestPrice

(* What is live is in a level. *)
LEMMA LiveInLevels ==
    ASSUME LevelsInv, NEW s \in Sides
    PROVE  LivePrices(s) \subseteq levels[s]
<1>1. ASSUME NEW p \in LivePrices(s) PROVE p \in levels[s]
  <2>1. p \in Prices /\ queue[s][p] # <<>>
    BY DEF LivePrices
  <2> QED BY <2>1 DEF LevelsInv
<1> QED BY <1>1

----------------------------------------------------------------------------
(* One step of each action                                                 *)

(* Nothing in the book or the call changes but the answer. *)
LEMMA RefuseStep == ASSUME Inv, Refuse PROVE Inv'
<1> USE DEF Inv, Refuse, book, ghosts
<1>1. TypeOK'
  BY DEF TypeOK
<1>2. IndexInv'
  BY DEF IndexInv
<1>3. BoundInv'
  BY DEF BoundInv
<1>4. CallInv'
  BY DEF CallInv
<1>5. LevelsInv'
  BY DEF LevelsInv
<1>6. RestInv'
  BY DEF RestInv
<1>7. CrossInv'
  BY DEF CrossInv, LivePrices, Dead
<1>8. StampInv'
  BY DEF StampInv
<1>9. QuantityConserved'
  BY DEF QuantityConserved
<1> QED BY <1>1, <1>2, <1>3, <1>4, <1>5, <1>6, <1>7, <1>8, <1>9

(* The order that is accepted is not in the book. *)
LEMMA AcceptStep == ASSUME Inv, NEW o \in Orders, Accept(o) PROVE Inv'
<1> USE DEF Inv, Accept, book
<1>0. /\ o.id \in Ids /\ o.side \in Sides /\ o.price \in Prices \cup {0} /\ o.qty \in Quantities
      /\ o.market \in BOOLEAN /\ (o.market \/ o.price \in Prices) /\ o.qty \in Nat
      /\ o \in [id: Ids \cup {NoId}, side: Sides, price: Prices \cup {0}, qty: Nat, market: BOOLEAN]
  BY QuantitiesAssumption DEF Orders
<1>1. TypeOK'
  <2>1. incoming' \in [id: Ids \cup {NoId}, side: Sides, price: Prices \cup {0}, qty: Nat, market: BOOLEAN]
    BY <1>0
  <2>2. submitted' \in [Ids -> Nat] /\ filled' \in [Ids -> Nat]
    BY <1>0 DEF TypeOK
  <2>3. trades' = <<>> /\ UNCHANGED <<queue, levels, order_index, canceled, clock, stamp, capHit>>
        /\ pc' = "level"
    OBVIOUS
  <2> HIDE DEF Accept, Inv
  <2>4. TypeOK
    BY DEF Inv
  <2> QED BY <2>1, <2>2, <2>3, <2>4, SMTT(60) DEF TypeOK
<1>2. IndexInv'
  BY DEF IndexInv
<1>3. BoundInv'
  BY DEF BoundInv
<1>4. CallInv'
  BY <1>0, MaxTradesAssumption DEF CallInv
<1>5. LevelsInv'
  BY DEF LevelsInv
<1>6. RestInv'
  BY DEF RestInv
<1>7. CrossInv'
  BY DEF CrossInv, LivePrices, Dead
<1>8. StampInv'
  BY DEF StampInv
<1>9. QuantityConserved'
  <2>1. \A x \in order_index : filled'[x] = filled[x] /\ submitted'[x] = submitted[x]
    <3>1. o.id \notin order_index /\ order_index \subseteq Ids
      BY DEF TypeOK
    <3>2. filled \in [Ids -> Nat] /\ submitted \in [Ids -> Nat]
      BY DEF TypeOK
    <3>3. filled' = [filled EXCEPT ![o.id] = 0] /\ submitted' = [submitted EXCEPT ![o.id] = o.qty]
      OBVIOUS
    <3> HIDE DEF Inv, Accept
    <3> QED BY <3>1, <3>2, <3>3
  <2>2. filled'[o.id] = 0 /\ submitted'[o.id] = o.qty
    BY <1>0 DEF TypeOK
  <2>3. ASSUME NEW s \in Sides, NEW p \in Prices, NEW i \in 1..Len(queue'[s][p])
        PROVE  queue'[s][p][i].qty + filled'[queue'[s][p][i].id] = submitted'[queue'[s][p][i].id]
    BY <2>1 DEF QuantityConserved, IndexInv
  <2> QED BY <1>0, <2>2, <2>3 DEF QuantityConserved
<1> QED BY <1>1, <1>2, <1>3, <1>4, <1>5, <1>6, <1>7, <1>8, <1>9

(* The outer loop ends: whatever is left crosses nothing. *)
LEMMA StopMatchingStep == ASSUME Inv, StopMatching PROVE Inv'
<1> USE DEF Inv, StopMatching, book, ghosts
<1>1. TypeOK'
  BY DEF TypeOK
<1>2. IndexInv'
  BY DEF IndexInv
<1>3. BoundInv'
  BY DEF BoundInv
<1>4. CallInv'
  BY DEF CallInv
<1>5. LevelsInv'
  BY DEF LevelsInv
<1>6. RestInv'
  <2>1. Facing \in Sides
    BY DEF TypeOK, Facing, Opp, Sides
  <2>2. LivePrices(Facing)' = LivePrices(Facing) /\ Facing' = Facing
    BY DEF LivePrices, Dead, Facing
  <2>3. CASE levels[Facing] = {}
    <3>1. LivePrices(Facing) = {}
      BY <2>1, <2>3, LiveInLevels
    <3> QED BY <2>2, <3>1 DEF RestInv
  <2>4. CASE levels[Facing] # {} /\ ~Crossing(incoming, BestPrice(Facing))
    <3>1. ASSUME NEW p \in LivePrices(Facing) PROVE ~Crossing(incoming, p)
      <4>1. p \in levels[Facing]
        BY <2>1, LiveInLevels
      <4>2. /\ IF Facing = "sell" THEN BestPrice(Facing) <= p ELSE BestPrice(Facing) >= p
            /\ BestPrice(Facing) \in Prices
        BY <2>1, <2>4, <4>1, BestFacts
      <4>3. p \in Prices /\ incoming.price \in Prices \cup {0}
        BY <2>1, <4>1 DEF TypeOK
      <4>4. p \in Nat /\ BestPrice(Facing) \in Nat /\ incoming.price \in Nat
        <5>1. \A x \in Prices : x \in Nat
          BY PricesAssumption
        <5> QED BY <4>2, <4>3, <5>1
      <4> QED BY <2>4, <4>2, <4>4 DEF Crossing, Facing, Opp, TypeOK, Sides
    <3>2. \A p \in LivePrices(Facing)' : ~Crossing(incoming, p)
      BY <2>2, <3>1
    <3> QED BY <2>2, <3>2 DEF RestInv, Crossing
  <2>5. CASE ~(incoming.qty > 0)
    BY <2>5 DEF RestInv, TypeOK
  <2> QED BY <2>3, <2>4, <2>5 DEF CanEnterLevel
<1>7. CrossInv'
  BY DEF CrossInv, LivePrices, Dead
<1>8. StampInv'
  BY DEF StampInv
<1>9. QuantityConserved'
  BY DEF QuantityConserved
<1> QED BY <1>1, <1>2, <1>3, <1>4, <1>5, <1>6, <1>7, <1>8, <1>9

(* The inner loop starts at the best level, which crosses. *)
LEMMA EnterLevelStep == ASSUME Inv, EnterLevel PROVE Inv'
<1> USE DEF Inv, EnterLevel, book, ghosts
<1>0. Facing' = Facing /\ Level' = Level
  BY SameLevel
<1>1. TypeOK'
  BY DEF TypeOK
<1>2. IndexInv'
  BY DEF IndexInv
<1>3. BoundInv'
  BY DEF BoundInv
<1>4. CallInv'
  BY <1>0 DEF CallInv, CanEnterLevel, Level, Crossing
<1>5. LevelsInv'
  BY DEF LevelsInv
<1>6. RestInv'
  BY DEF RestInv
<1>7. CrossInv'
  BY DEF CrossInv, LivePrices, Dead
<1>8. StampInv'
  BY DEF StampInv
<1>9. QuantityConserved'
  BY DEF QuantityConserved
<1> QED BY <1>1, <1>2, <1>3, <1>4, <1>5, <1>6, <1>7, <1>8, <1>9

(* A dead entry leaves its queue and the index together. *)
LEMMA SweepStep == ASSUME Inv, Sweep PROVE Inv'
<1> USE DEF Inv, Sweep
<1>a. PICK f \in Sides : f = Facing
  BY LevelFacts
<1>b. PICK l \in Prices : l = Level
  BY LevelFacts
<1>c. queue[f][l] # <<>> /\ Pops(f, l)
  BY <1>a, <1>b DEF Pops, Queue
<1>d. Head(queue[f][l]) = queue[f][l][1]
  BY <1>c, TailFacts DEF TypeOK
<1>e. /\ order_index' = order_index \ {queue[f][l][1].id}
      /\ canceled' = canceled \ {queue[f][l][1].id}
  BY <1>a, <1>b, <1>d DEF Queue
<1>f. Facing' = Facing /\ Level' = Level
  BY SameLevel
<1>g. \A s \in Sides : LivePrices(s)' \subseteq LivePrices(s)
  BY <1>c, <1>e, PopLive
<1>1. TypeOK'
  <2>1. queue' \in [Sides -> [Prices -> Seq(Entries)]]
    BY <1>c, PopFacts
  <2> QED BY <2>1 DEF TypeOK, ghosts
<1>2. IndexInv'
  BY <1>c, <1>e, PopIndex
<1>3. BoundInv'
  BY DEF BoundInv
<1>4. CallInv'
  BY <1>f DEF CallInv, Crossing
<1>5. LevelsInv'
  <2>1. ASSUME NEW s \in Sides, NEW p \in Prices, queue'[s][p] # <<>>
        PROVE  queue[s][p] # <<>>
    BY <1>1, <1>c, <2>1, QueueUpdate, TailFacts DEF TypeOK, Pops, Puts
  <2>2. \A s \in Sides, p \in Prices : s # f \/ p # l => queue'[s][p] = queue[s][p]
    BY <1>c, TailFacts, QueueUpdate DEF TypeOK, Pops, Puts
  <2> QED BY <1>a, <1>b, <1>f, <2>1, <2>2 DEF LevelsInv, ghosts
<1>6. RestInv'
  BY DEF RestInv
<1>7. CrossInv'
  BY <1>g, CrossKept DEF ghosts
<1>8. StampInv'
  BY <1>c, PopStamp DEF ghosts
<1>9. QuantityConserved'
  <2>1. QueuesConserved'
    BY <1>c, PopQuantity DEF ghosts, QuantityConserved, QueuesConserved
  <2> QED BY <2>1 DEF QueuesConserved, QuantityConserved, ghosts
<1> QED BY <1>1, <1>2, <1>3, <1>4, <1>5, <1>6, <1>7, <1>8, <1>9

(* What a trade with the front of the level does, case by case. *)
LEMMA MatchFrontFacts ==
    ASSUME Inv, MatchFront, NEW f, NEW l, NEW e, NEW q,
           f = Facing, l = Level, e = Head(Queue), q = Min2(incoming.qty, e.qty)
    PROVE  /\ f \in Sides /\ l \in Prices /\ queue[f][l] # <<>> /\ 1 \in 1..Len(queue[f][l])
           /\ e = queue[f][l][1] /\ e \in Entries /\ e.id \in order_index \ canceled
           /\ q \in Nat \ {0} /\ q <= e.qty /\ q <= incoming.qty /\ incoming.id # e.id
           /\ trades' = Append(trades, [maker |-> e.id, taker |-> incoming.id, price |-> l, qty |-> q])
           /\ incoming' = [incoming EXCEPT !.qty = incoming.qty - q]
           /\ filled' = [i \in Ids |-> IF i \in {e.id, incoming.id} THEN filled[i] + q ELSE filled[i]]
           /\ \/ q = e.qty /\ Pops(f, l) /\ order_index' = order_index \ {e.id}
              \/ /\ q # e.qty /\ e.qty - q \in Nat \ {0} /\ order_index' = order_index
                 /\ queue' = [queue EXCEPT ![f][l] = [queue[f][l] EXCEPT ![1].qty = e.qty - q]]
<1> USE DEF Inv, MatchFront
<1>1. f \in Sides /\ l \in Prices
  BY LevelFacts
<1>2. queue[f][l] # <<>> /\ queue[f][l] \in Seq(Entries) /\ Queue = queue[f][l]
  BY <1>1 DEF TypeOK, Queue
<1>3. 1 \in 1..Len(queue[f][l]) /\ e = queue[f][l][1] /\ e \in Entries
  BY <1>2, TailFacts
<1>4. e.id \in order_index \ canceled /\ incoming.id # e.id
  BY DEF Dead, CallInv
<1>5. incoming.qty \in Nat /\ incoming.qty > 0 /\ e.qty \in Nat \ {0}
  BY <1>3 DEF TypeOK, Entries
<1>6. q \in Nat \ {0} /\ q <= e.qty /\ q <= incoming.qty
  BY <1>5 DEF Min2
<1>7. /\ trades' = Append(trades, [maker |-> e.id, taker |-> incoming.id, price |-> l, qty |-> q])
      /\ incoming' = [incoming EXCEPT !.qty = incoming.qty - q]
      /\ filled' = [i \in Ids |-> IF i \in {e.id, incoming.id} THEN filled[i] + q ELSE filled[i]]
      /\ order_index' = IF q = e.qty THEN order_index \ {e.id} ELSE order_index
      /\ queue' = [queue EXCEPT ![f][l] = IF q = e.qty THEN Tail(queue[f][l])
                                          ELSE [queue[f][l] EXCEPT ![1].qty = e.qty - q]]
  BY <1>2
<1>8. CASE q = e.qty
  BY <1>1, <1>2, <1>3, <1>4, <1>6, <1>7, <1>8 DEF Pops
<1>9. CASE q # e.qty
  <2>1. e.qty - q \in Nat \ {0}
    BY <1>5, <1>6, <1>9
  <2> QED BY <1>1, <1>2, <1>3, <1>4, <1>6, <1>7, <1>9, <2>1
<1> QED BY <1>8, <1>9

(* Both orders are filled by the same quantity, and a filled front leaves  *)
(* the queue and the index.                                                *)
LEMMA MatchFrontStep == ASSUME Inv, MatchFront PROVE Inv'
<1> USE DEF Inv
<1>a. PICK f, l, e, q : f = Facing /\ l = Level /\ e = Head(Queue) /\ q = Min2(incoming.qty, e.qty)
  OBVIOUS
<1>b. /\ f \in Sides /\ l \in Prices /\ queue[f][l] # <<>> /\ 1 \in 1..Len(queue[f][l])
      /\ e = queue[f][l][1] /\ e \in Entries /\ e.id \in order_index \ canceled
      /\ q \in Nat \ {0} /\ q <= e.qty /\ q <= incoming.qty /\ incoming.id # e.id
      /\ trades' = Append(trades, [maker |-> e.id, taker |-> incoming.id, price |-> l, qty |-> q])
      /\ incoming' = [incoming EXCEPT !.qty = incoming.qty - q]
      /\ filled' = [i \in Ids |-> IF i \in {e.id, incoming.id} THEN filled[i] + q ELSE filled[i]]
      /\ \/ q = e.qty /\ Pops(f, l) /\ order_index' = order_index \ {e.id}
         \/ /\ q # e.qty /\ e.qty - q \in Nat \ {0} /\ order_index' = order_index
            /\ queue' = [queue EXCEPT ![f][l] = [queue[f][l] EXCEPT ![1].qty = e.qty - q]]
  BY <1>a, MatchFrontFacts
<1>c. /\ pc = "match" /\ pc' = IF Len(trades') >= MaxTrades THEN "rest" ELSE "match"
      /\ capHit' = (capHit \/ Len(trades') >= MaxTrades)
      /\ UNCHANGED <<levels, canceled, clock, stamp, submitted>>
  BY DEF MatchFront
<1>d. /\ incoming \in [id: Ids \cup {NoId}, side: Sides, price: Prices \cup {0}, qty: Nat, market: BOOLEAN]
      /\ incoming.id \in Ids
  BY <1>c DEF TypeOK, CallInv
<1>e. /\ incoming' \in [id: Ids \cup {NoId}, side: Sides, price: Prices \cup {0}, qty: Nat, market: BOOLEAN]
      /\ incoming'.id = incoming.id /\ incoming'.side = incoming.side /\ incoming'.price = incoming.price
      /\ incoming'.market = incoming.market /\ incoming'.qty = incoming.qty - q
  <2>1. incoming.qty - q \in Nat
    BY <1>b, <1>d
  <2> QED BY <1>b, <1>d, <2>1
<1>f. Facing' = Facing /\ Level' = Level
  BY <1>c, <1>e, SameLevel
<1>k. /\ f \in Sides /\ l \in Prices /\ queue[f][l] # <<>> /\ 1 \in 1..Len(queue[f][l])
      /\ e = queue[f][l][1] /\ e.qty \in Nat /\ e.id \in Ids
      /\ q \in Nat /\ q <= e.qty /\ q <= incoming.qty
  BY <1>b DEF Entries
<1>m. filled \in [Ids -> Nat]
  BY DEF TypeOK
<1>g. ASSUME q = e.qty, Pops(f, l), order_index' = order_index \ {e.id}
      PROVE  /\ queue' \in [Sides -> [Prices -> Seq(Entries)]]
             /\ \A s \in Sides, p \in Prices : s # f \/ p # l => queue'[s][p] = queue[s][p]
             /\ IndexInv' /\ \A s \in Sides : LivePrices(s)' \subseteq LivePrices(s)
             /\ StampInv' /\ QueuesConserved' /\ order_index' \subseteq order_index
  <2>1. canceled' = canceled \ {e.id}
    BY <1>b, <1>c
  <2>2. /\ queue' \in [Sides -> [Prices -> Seq(Entries)]]
        /\ \A s \in Sides, p \in Prices : s # f \/ p # l => queue'[s][p] = queue[s][p]
    <3>1. Tail(queue[f][l]) \in Seq(Entries)
      BY <1>b, TailFacts DEF TypeOK
    <3>2. Puts(f, l, Tail(queue[f][l]))
      BY <1>g DEF Pops, Puts
    <3> QED BY <1>k, <3>1, <3>2, QueueUpdate
  <2>3. IndexInv' /\ \A s \in Sides : LivePrices(s)' \subseteq LivePrices(s)
    BY <1>b, <1>g, <2>1, PopIndex, PopLive
  <2>4. StampInv'
    BY <1>b, <1>c, <1>g, PopStamp
  <2>5. \A x \in order_index \ {e.id} : filled'[x] = filled[x]
    BY <1>b, <1>c DEF CallInv, TypeOK
  <2>6. QueuesConserved'
    BY <1>b, <1>c, <1>g, <2>5, PopQuantity DEF QuantityConserved, QueuesConserved
  <2> QED BY <1>g, <2>2, <2>3, <2>4, <2>6
<1>h. ASSUME q # e.qty, e.qty - q \in Nat \ {0}, order_index' = order_index,
             queue' = [queue EXCEPT ![f][l] = [queue[f][l] EXCEPT ![1].qty = e.qty - q]]
      PROVE  /\ queue' \in [Sides -> [Prices -> Seq(Entries)]]
             /\ \A s \in Sides, p \in Prices : s # f \/ p # l => queue'[s][p] = queue[s][p]
             /\ IndexInv' /\ \A s \in Sides : LivePrices(s)' \subseteq LivePrices(s)
             /\ StampInv' /\ QueuesConserved' /\ order_index' \subseteq order_index
  <2>0. PICK n \in Nat \ {0} : n = e.qty - q
    BY <1>h
  <2>1. PICK new : new = [queue[f][l] EXCEPT ![1].qty = n]
    OBVIOUS
  <2>2. /\ new \in Seq(Entries) /\ Len(new) = Len(queue[f][l])
        /\ \A i \in 1..Len(queue[f][l]) :
              /\ new[i].id = queue[f][l][i].id
              /\ new[i].qty = IF i = 1 THEN n ELSE queue[f][l][i].qty
    <3>1. PICK old : old = queue[f][l]
      OBVIOUS
    <3>2. old \in Seq(Entries) /\ old # <<>> /\ new = [old EXCEPT ![1].qty = n]
      BY <1>b, <1>k, <2>1, <3>1 DEF TypeOK
    <3>3. /\ new \in Seq(Entries) /\ Len(new) = Len(old)
          /\ \A i \in 1..Len(old) : /\ new[i].id = old[i].id
                                    /\ new[i].qty = IF i = 1 THEN n ELSE old[i].qty
      BY <3>2, FrontFacts, SMTT(60)
    <3> QED BY <3>1, <3>3
  <2>3. /\ queue' \in [Sides -> [Prices -> Seq(Entries)]] /\ queue'[f][l] = new
        /\ \A s \in Sides, p \in Prices : s # f \/ p # l => queue'[s][p] = queue[s][p]
    <3>1. Puts(f, l, new)
      BY <1>h, <2>0, <2>1 DEF Puts
    <3> QED BY <1>k, <2>2, <3>1, QueueUpdate
  <2>4. SameIds
    BY <2>2, <2>3 DEF SameIds
  <2>5. IndexInv' /\ StampInv' /\ \A s \in Sides : LivePrices(s)' \subseteq LivePrices(s)
    BY <1>c, <1>h, <2>4, SameIdsKeep
  <2>6. QueuesConserved'
    <3>1. ASSUME NEW s \in Sides, NEW p \in Prices, NEW i \in 1..Len(queue'[s][p])
          PROVE  queue'[s][p][i].qty + filled'[queue'[s][p][i].id] = submitted'[queue'[s][p][i].id]
      <4>1. /\ i \in 1..Len(queue[s][p]) /\ queue'[s][p][i].id = queue[s][p][i].id
        BY <2>4 DEF SameIds
      <4>a. queue[s][p][i].qty + filled[queue[s][p][i].id] = submitted[queue[s][p][i].id]
        BY <4>1 DEF QuantityConserved
      <4>b. queue[s][p][i].id \in order_index
        BY <4>1 DEF IndexInv
      <4>2. CASE s = f /\ p = l /\ i = 1
        <5>1. queue'[s][p][i].qty = e.qty - q /\ queue[s][p][i] = e
          BY <1>b, <2>0, <2>2, <2>3, <4>2
        <5>2. filled'[e.id] = filled[e.id] + q /\ filled[e.id] \in Nat /\ e.qty \in Nat
          BY <1>b, <1>k, <1>m
        <5>3. submitted'[e.id] = submitted[e.id] /\ e.qty + filled[e.id] = submitted[e.id]
          BY <1>c, <4>a, <5>1
        <5>4. queue'[s][p][i].id = e.id
          BY <4>1, <5>1
        <5> QED BY <1>k, <5>1, <5>2, <5>3, <5>4
      <4>3. CASE ~(s = f /\ p = l /\ i = 1)
        <5>1. queue'[s][p][i].qty = queue[s][p][i].qty
          BY <1>b, <2>2, <2>3, <4>1, <4>3
        <5>2. queue[s][p][i].id # e.id
          <6>1. queue[s][p][i].id = queue[f][l][1].id => s = f /\ p = l /\ i = 1
            BY <1>k, <4>1 DEF IndexInv
          <6> QED BY <1>k, <4>3, <6>1
        <5>3. filled'[queue[s][p][i].id] = filled[queue[s][p][i].id]
          BY <1>b, <1>c, <4>b, <5>2 DEF CallInv, TypeOK
        <5> QED BY <1>c, <4>1, <4>a, <5>1, <5>3
      <4> QED BY <4>2, <4>3
    <3> QED BY <3>1 DEF QueuesConserved
  <2> QED BY <1>h, <2>3, <2>5, <2>6
<1>i. /\ queue' \in [Sides -> [Prices -> Seq(Entries)]]
      /\ \A s \in Sides, p \in Prices : s # f \/ p # l => queue'[s][p] = queue[s][p]
      /\ IndexInv' /\ \A s \in Sides : LivePrices(s)' \subseteq LivePrices(s)
      /\ StampInv' /\ QueuesConserved' /\ order_index' \subseteq order_index
  BY <1>b, <1>g, <1>h
<1>j. /\ trades' \in Seq([maker: Ids, taker: Ids, price: Prices, qty: Nat \ {0}])
      /\ Len(trades') = Len(trades) + 1 /\ Len(trades') \in Nat
  <2>1. [maker |-> e.id, taker |-> incoming.id, price |-> l, qty |-> q]
           \in [maker: Ids, taker: Ids, price: Prices, qty: Nat \ {0}]
    BY <1>b, <1>d DEF Entries
  <2> QED BY <1>b, <2>1, AppendFacts DEF TypeOK
<1>1. TypeOK'
  <2>1. filled' \in [Ids -> Nat]
    <3>1. \A i \in Ids : filled[i] \in Nat /\ filled[i] + q \in Nat
      BY <1>k, <1>m
    <3> QED BY <1>b, <3>1
  <2> QED BY <1>b, <1>c, <1>e, <1>i, <1>j, <2>1 DEF TypeOK
<1>2. IndexInv' /\ StampInv'
  BY <1>i
<1>3. BoundInv'
  BY <1>c DEF BoundInv
<1>4. CallInv'
  BY <1>c, <1>e, <1>f, <1>i, <1>j, MaxTradesAssumption DEF CallInv, Crossing
<1>5. LevelsInv'
  <2>1. ASSUME NEW s \in Sides, NEW p \in Prices, queue'[s][p] # <<>>
        PROVE  queue[s][p] # <<>>
    BY <1>b, <1>i, <2>1
  <2> QED BY <1>a, <1>c, <1>f, <1>i, <2>1 DEF LevelsInv
<1>6. RestInv'
  BY <1>c DEF RestInv
<1>7. CrossInv'
  BY <1>c, <1>i, CrossKept
<1>9. QuantityConserved'
  <2>1. incoming'.qty + filled'[incoming'.id] = submitted'[incoming'.id]
    <3>1. filled'[incoming.id] = filled[incoming.id] + q /\ filled[incoming.id] \in Nat
      BY <1>b, <1>d DEF TypeOK
    <3>2. incoming.qty + filled[incoming.id] = submitted[incoming.id]
      BY <1>c DEF QuantityConserved
    <3> QED BY <1>b, <1>c, <1>d, <1>e, <3>1, <3>2
  <2> QED BY <1>i, <2>1 DEF QueuesConserved, QuantityConserved
<1> QED BY <1>1, <1>2, <1>3, <1>4, <1>5, <1>6, <1>7, <1>9

(* An empty level leaves its map; with it the only one that could be empty.*)
LEMMA LeaveLevelStep == ASSUME Inv, LeaveLevel PROVE Inv'
<1> USE DEF Inv, LeaveLevel, ghosts
<1>a. PICK f \in Sides : f = Facing
  BY LevelFacts
<1>b. PICK l \in Prices : l = Level
  BY LevelFacts
<1>c. /\ levels' \in [Sides -> SUBSET Prices]
      /\ \A s \in Sides : levels'[s] \subseteq levels[s]
      /\ \A s \in Sides, p \in Prices :
            p \in levels[s] => p \in levels'[s] \/ (s = f /\ p = l /\ queue[f][l] = <<>>)
      /\ queue[f][l] = <<>> => l \notin levels'[f]
  BY <1>a, <1>b DEF TypeOK, Queue
<1>1. TypeOK'
  BY <1>c DEF TypeOK
<1>2. IndexInv'
  BY DEF IndexInv
<1>3. BoundInv'
  BY <1>c DEF BoundInv
<1>4. CallInv'
  BY DEF CallInv
<1>5. LevelsInv'
  BY <1>a, <1>b, <1>c DEF LevelsInv
<1>6. RestInv'
  BY DEF RestInv
<1>7. CrossInv'
  BY DEF CrossInv, LivePrices, Dead
<1>8. StampInv'
  BY DEF StampInv
<1>9. QuantityConserved'
  BY DEF QuantityConserved
<1> QED BY <1>1, <1>2, <1>3, <1>4, <1>5, <1>6, <1>7, <1>8, <1>9

(* The book with one more entry at the end of a queue. *)
LEMMA RestFacts ==
    ASSUME TypeOK, NEW f \in Sides, NEW l \in Prices, NEW e \in Entries,
           Puts(f, l, Append(queue[f][l], e))
    PROVE  /\ queue' \in [Sides -> [Prices -> Seq(Entries)]]
           /\ \A s \in Sides, p \in Prices : \A i \in 1..Len(queue[s][p]) :
                 i \in 1..Len(queue'[s][p]) /\ queue'[s][p][i] = queue[s][p][i]
           /\ \A s \in Sides, p \in Prices : \A i \in 1..Len(queue'[s][p]) :
                 \/ i \in 1..Len(queue[s][p]) /\ queue'[s][p][i] = queue[s][p][i]
                 \/ s = f /\ p = l /\ i = Len(queue[f][l]) + 1 /\ queue'[s][p][i] = e
           /\ Len(queue[f][l]) \in Nat /\ Len(queue[f][l]) + 1 \in 1..Len(queue'[f][l])
           /\ queue'[f][l][Len(queue[f][l]) + 1] = e
<1>1. queue[f][l] \in Seq(Entries)
  BY DEF TypeOK
<1>2. PICK x : x = Append(queue[f][l], e)
  OBVIOUS
<1>3. /\ x \in Seq(Entries) /\ Len(x) = Len(queue[f][l]) + 1 /\ Len(queue[f][l]) \in Nat
      /\ x[Len(queue[f][l]) + 1] = e
      /\ \A i \in 1..Len(queue[f][l]) : x[i] = queue[f][l][i]
  BY <1>1, <1>2, AppendFacts
<1>4. Puts(f, l, x)
  BY <1>2 DEF Puts
<1>5. /\ queue' \in [Sides -> [Prices -> Seq(Entries)]]
      /\ queue'[f][l] = x
      /\ \A s \in Sides, p \in Prices : s # f \/ p # l => queue'[s][p] = queue[s][p]
  BY <1>3, <1>4, QueueUpdate
<1>6. ASSUME NEW s \in Sides, NEW p \in Prices, NEW i \in 1..Len(queue[s][p])
      PROVE  i \in 1..Len(queue'[s][p]) /\ queue'[s][p][i] = queue[s][p][i]
  <2>1. CASE s = f /\ p = l
    BY <1>3, <1>5, <2>1
  <2>2. CASE s # f \/ p # l
    BY <1>5, <2>2
  <2> QED BY <2>1, <2>2
<1>7. ASSUME NEW s \in Sides, NEW p \in Prices, NEW i \in 1..Len(queue'[s][p])
      PROVE  \/ i \in 1..Len(queue[s][p]) /\ queue'[s][p][i] = queue[s][p][i]
             \/ s = f /\ p = l /\ i = Len(queue[f][l]) + 1 /\ queue'[s][p][i] = e
  <2>1. CASE s = f /\ p = l
    BY <1>3, <1>5, <2>1
  <2>2. CASE s # f \/ p # l
    BY <1>5, <2>2
  <2> QED BY <2>1, <2>2
<1> QED BY <1>3, <1>5, <1>6, <1>7

(* What is left of a limit order rests behind every order of its price. *)
LEMMA RestInBook ==
    ASSUME Inv, Rest, ~incoming.market, incoming.qty > 0
    PROVE  Inv'
<1> USE DEF Inv, Rest
<1>a. PICK f, l, e : f = incoming.side /\ l = incoming.price /\ e = [id |-> incoming.id, qty |-> incoming.qty]
  OBVIOUS
<1>b. /\ f \in Sides /\ l \in Prices /\ e \in Entries /\ e.id = incoming.id /\ e.qty = incoming.qty
      /\ e.id \in Ids /\ e.id \notin order_index /\ l \in Nat
  BY <1>a, PricesAssumption DEF TypeOK, CallInv, Entries
<1>c. /\ order_index' = order_index \cup {e.id}
      /\ levels' = [levels EXCEPT ![f] = @ \cup {l}]
      /\ Puts(f, l, Append(queue[f][l], e))
      /\ stamp' = [stamp EXCEPT ![e.id] = clock]
      /\ pc = "rest" /\ pc' = "idle" /\ incoming' = NoOrder /\ clock' = clock + 1
      /\ UNCHANGED <<canceled, trades, submitted, filled, capHit>>
  BY <1>a, <1>b DEF Puts
<1>g. /\ queue' \in [Sides -> [Prices -> Seq(Entries)]]
      /\ \A s \in Sides, p \in Prices : \A i \in 1..Len(queue[s][p]) :
            i \in 1..Len(queue'[s][p]) /\ queue'[s][p][i] = queue[s][p][i]
  BY <1>b, <1>c, RestFacts
<1>d. /\ Len(queue[f][l]) \in Nat /\ Len(queue[f][l]) + 1 \in 1..Len(queue'[f][l])
      /\ queue'[f][l][Len(queue[f][l]) + 1] = e
  BY <1>b, <1>c, RestFacts
<1>e. \A s \in Sides, p \in Prices : \A i \in 1..Len(queue'[s][p]) :
         \/ i \in 1..Len(queue[s][p]) /\ queue'[s][p][i] = queue[s][p][i]
         \/ s = f /\ p = l /\ i = Len(queue[f][l]) + 1 /\ queue'[s][p][i] = e
  BY <1>b, <1>c, RestFacts, SMTT(60)
<1>f. \A s \in Sides, p \in Prices : \A i \in 1..Len(queue[s][p]) :
         queue[s][p][i].id \in order_index /\ queue[s][p][i].id # e.id
  BY <1>b DEF IndexInv
<1>1. TypeOK'
  <2>1. levels' \in [Sides -> SUBSET Prices]
    BY <1>b, <1>c DEF TypeOK
  <2>2. stamp' \in [Ids -> Nat] /\ clock' \in Nat
    BY <1>b, <1>c DEF TypeOK
  <2>3. NoOrder \in [id: Ids \cup {NoId}, side: Sides, price: Prices \cup {0}, qty: Nat, market: BOOLEAN]
    BY DEF NoOrder, Sides
  <2> QED BY <1>b, <1>c, <1>g, <2>1, <2>2, <2>3 DEF TypeOK
<1>2. IndexInv'
  <2>1. ASSUME NEW s \in Sides, NEW p \in Prices, NEW i \in 1..Len(queue'[s][p])
        PROVE  queue'[s][p][i].id \in order_index'
    BY <1>c, <1>e, <1>f
  <2>2. ASSUME NEW x \in order_index'
        PROVE  \E s \in Sides, p \in Prices : \E i \in 1..Len(queue'[s][p]) : queue'[s][p][i].id = x
    <3>1. CASE x \in order_index
      <4>1. PICK s \in Sides, p \in Prices : \E i \in 1..Len(queue[s][p]) : queue[s][p][i].id = x
        BY <3>1 DEF IndexInv
      <4> QED BY <1>g, <4>1
    <3>2. CASE x = e.id
      BY <1>b, <1>d, <3>2
    <3> QED BY <1>c, <3>1, <3>2
  <2>3. canceled' \subseteq order_index'
    BY <1>c DEF IndexInv
  <2>4. ASSUME NEW s \in Sides, NEW t \in Sides, NEW p \in Prices, NEW q \in Prices,
               NEW i \in 1..Len(queue'[s][p]), NEW j \in 1..Len(queue'[t][q]),
               queue'[s][p][i].id = queue'[t][q][j].id
        PROVE  s = t /\ p = q /\ i = j
    <3>1. CASE i \in 1..Len(queue[s][p]) /\ queue'[s][p][i] = queue[s][p][i]
      <4>1. queue'[t][q][j].id # e.id
        BY <1>f, <2>4, <3>1
      <4>2. j \in 1..Len(queue[t][q]) /\ queue'[t][q][j] = queue[t][q][j]
        BY <1>e, <4>1
      <4>3. queue[s][p][i].id = queue[t][q][j].id
        BY <2>4, <3>1, <4>2
      <4> QED BY <3>1, <4>2, <4>3, OnePlace
    <3>2. CASE s = f /\ p = l /\ i = Len(queue[f][l]) + 1 /\ queue'[s][p][i] = e
      <4>1. ~(j \in 1..Len(queue[t][q]) /\ queue'[t][q][j] = queue[t][q][j])
        BY <1>f, <2>4, <3>2
      <4> QED BY <1>e, <3>2, <4>1
    <3> QED BY <1>e, <3>1, <3>2
  <2> QED BY <2>1, <2>2, <2>3, <2>4 DEF IndexInv
<1>3. BoundInv'
  <2>1. ASSUME NEW s \in Sides PROVE \E n \in Nat : \A p \in levels'[s] : p <= n
    <3>1. PICK n \in Nat : \A p \in levels[s] : p <= n
      BY DEF BoundInv
    <3>2. levels'[s] \subseteq levels[s] \cup {l} /\ levels[s] \subseteq Nat
      BY <1>b, <1>c, PricesAssumption DEF TypeOK
    <3>3. ASSUME NEW p \in levels'[s] PROVE p <= n + l
      <4>1. p = l \/ (p \in Nat /\ p <= n)
        BY <3>1, <3>2
      <4> QED BY <1>b, <4>1
    <3>4. n + l \in Nat
      BY <1>b
    <3> QED BY <3>3, <3>4
  <2> QED BY <2>1 DEF BoundInv
<1>4. CallInv'
  BY <1>c DEF CallInv
<1>5. LevelsInv'
  <2>1. ASSUME NEW s \in Sides, NEW p \in Prices, queue'[s][p] # <<>> PROVE p \in levels'[s]
    <3>1. 1 \in 1..Len(queue'[s][p])
      BY <1>g, <2>1
    <3>2. CASE 1 \in 1..Len(queue[s][p])
      <4>1. queue[s][p] # <<>>
        BY <3>2
      <4>2. p \in levels[s]
        BY <4>1 DEF LevelsInv
      <4> QED BY <1>b, <1>c, <4>2 DEF TypeOK
    <3>3. CASE s = f /\ p = l
      BY <1>b, <1>c, <3>3 DEF TypeOK
    <3> QED BY <1>e, <3>1, <3>2, <3>3
  <2>2. ASSUME ~capHit', NEW s \in Sides, NEW p \in levels'[s] PROVE queue'[s][p] # <<>>
    <3>1. p \in levels[s] \/ (s = f /\ p = l)
      BY <1>b, <1>c DEF TypeOK
    <3>2. CASE s = f /\ p = l
      BY <1>d, <3>2
    <3>3. CASE p \in levels[s]
      <4>1. p \in Prices
        BY <3>3 DEF TypeOK
      <4>2. queue[s][p] # <<>> /\ queue[s][p] \in Seq(Entries)
        BY <1>c, <2>2, <3>3, <4>1 DEF LevelsInv, TypeOK
      <4>3. 1 \in 1..Len(queue[s][p])
        BY <4>2
      <4>4. 1 \in 1..Len(queue'[s][p])
        BY <1>g, <4>1, <4>3
      <4> QED BY <4>4
    <3> QED BY <3>1, <3>2, <3>3
  <2> QED BY <2>1, <2>2 DEF LevelsInv
<1>6. RestInv'
  BY <1>c DEF RestInv
<1>7. CrossInv'
  <2>1. ASSUME NEW s \in Sides, NEW p \in LivePrices(s)'
        PROVE  p \in LivePrices(s) \/ (s = f /\ p = l)
    <3>1. p \in Prices /\ \E i \in 1..Len(queue'[s][p]) : queue'[s][p][i].id \in order_index' \ canceled'
      BY DEF LivePrices, Dead
    <3>2. PICK i \in 1..Len(queue'[s][p]) : queue'[s][p][i].id \in order_index' \ canceled'
      BY <3>1
    <3>3. CASE s # f \/ p # l
      <4>1. i \in 1..Len(queue[s][p]) /\ queue'[s][p][i] = queue[s][p][i]
        BY <1>e, <3>1, <3>3
      <4>2. queue[s][p][i].id \in order_index \ canceled
        BY <1>c, <1>f, <3>1, <3>2, <4>1
      <4> QED BY <3>1, <4>1, <4>2 DEF LivePrices, Dead
    <3> QED BY <3>3
  <2>2. ASSUME ~capHit, NEW p \in LivePrices(Facing)
        PROVE  IF f = "buy" THEN l < p ELSE l > p
    <3>1. ~Crossing(incoming, p)
      BY <1>b, <1>c, <2>2 DEF RestInv
    <3>2. p \in Nat
      BY PricesAssumption DEF LivePrices
    <3> QED BY <1>a, <1>b, <3>1, <3>2 DEF Crossing
  <2>3. ASSUME ~capHit', NEW b \in LivePrices("buy")', NEW a \in LivePrices("sell")' PROVE b < a
    <3>1. "buy" \in Sides /\ "sell" \in Sides
      BY DEF Sides
    <3>2. ~capHit /\ (b \in LivePrices("buy") \/ (f = "buy" /\ b = l))
                  /\ (a \in LivePrices("sell") \/ (f = "sell" /\ a = l))
      BY <1>c, <2>1, <2>3, <3>1
    <3>3. b \in Nat /\ a \in Nat
      BY PricesAssumption DEF LivePrices
    <3> QED BY <1>a, <2>2, <3>2, <3>3 DEF CrossInv, Facing, Opp
  <2> QED BY <2>3 DEF CrossInv
<1>8. StampInv'
  <2>1. /\ stamp'[e.id] = clock /\ \A x \in order_index : stamp'[x] = stamp[x] /\ stamp[x] \in Nat
        /\ clock \in Nat /\ clock' = clock + 1
    BY <1>b, <1>c DEF TypeOK
  <2>2. ASSUME NEW s \in Sides, NEW p \in Prices, NEW i \in 1..Len(queue[s][p])
        PROVE  stamp'[queue[s][p][i].id] = stamp[queue[s][p][i].id] /\ stamp[queue[s][p][i].id] < clock
               /\ stamp[queue[s][p][i].id] \in Nat
    BY <1>f, <2>1 DEF StampInv
  <2>3. ASSUME NEW s \in Sides, NEW p \in Prices, NEW i \in 1..Len(queue'[s][p])
        PROVE  stamp'[queue'[s][p][i].id] < clock'
    <3>1. CASE i \in 1..Len(queue[s][p]) /\ queue'[s][p][i] = queue[s][p][i]
      BY <2>1, <2>2, <3>1
    <3>2. CASE queue'[s][p][i] = e
      BY <2>1, <3>2
    <3> QED BY <1>e, <3>1, <3>2
  <2>4. ASSUME NEW s \in Sides, NEW p \in Prices,
               NEW i \in 1..Len(queue'[s][p]), NEW j \in 1..Len(queue'[s][p]), i < j
        PROVE  stamp'[queue'[s][p][i].id] < stamp'[queue'[s][p][j].id]
    <3>1. i \in 1..Len(queue[s][p]) /\ queue'[s][p][i] = queue[s][p][i]
      <4>1. SUFFICES ASSUME s = f, p = l, i = Len(queue[f][l]) + 1 PROVE FALSE
        BY <1>e
      <4>2. j <= Len(queue[f][l]) + 1
        BY <1>d, <1>e, <4>1
      <4> QED BY <1>d, <2>4, <4>1, <4>2
    <3>2. CASE j \in 1..Len(queue[s][p]) /\ queue'[s][p][j] = queue[s][p][j]
      <4>1. stamp[queue[s][p][i].id] < stamp[queue[s][p][j].id]
        BY <2>4, <3>1, <3>2, LaterBehind
      <4>2. /\ stamp'[queue[s][p][i].id] = stamp[queue[s][p][i].id]
            /\ stamp'[queue[s][p][j].id] = stamp[queue[s][p][j].id]
        BY <2>2, <3>1, <3>2
      <4> QED BY <3>1, <3>2, <4>1, <4>2
    <3>3. CASE queue'[s][p][j] = e
      BY <2>1, <2>2, <3>1, <3>3
    <3> QED BY <1>e, <3>2, <3>3
  <2> QED BY <2>3, <2>4 DEF StampInv
<1>9. QuantityConserved'
  <2>1. incoming.qty + filled[incoming.id] = submitted[incoming.id]
    BY <1>c DEF QuantityConserved
  <2>2. ASSUME NEW s \in Sides, NEW p \in Prices, NEW i \in 1..Len(queue'[s][p])
        PROVE  queue'[s][p][i].qty + filled'[queue'[s][p][i].id] = submitted'[queue'[s][p][i].id]
    <3>1. CASE i \in 1..Len(queue[s][p]) /\ queue'[s][p][i] = queue[s][p][i]
      <4>1. queue[s][p][i].qty + filled[queue[s][p][i].id] = submitted[queue[s][p][i].id]
        BY <3>1 DEF QuantityConserved
      <4> QED BY <1>c, <3>1, <4>1
    <3>2. CASE queue'[s][p][i] = e
      BY <1>b, <1>c, <2>1, <3>2
    <3> QED BY <1>e, <3>1, <3>2
  <2> QED BY <1>c, <2>2 DEF QuantityConserved
<1> QED BY <1>1, <1>2, <1>3, <1>4, <1>5, <1>6, <1>7, <1>8, <1>9

(* A filled or a market order leaves no trace in the book. *)
LEMMA RestStep == ASSUME Inv, Rest PROVE Inv'
<1>1. CASE ~incoming.market /\ incoming.qty > 0
  BY <1>1, RestInBook
<1>2. CASE ~(~incoming.market /\ incoming.qty > 0)
  <2> USE DEF Inv, Rest
  <2>0. UNCHANGED <<order_index, levels, queue, stamp, canceled>> /\ clock' = clock + 1 /\ clock \in Nat
    BY <1>2 DEF TypeOK
  <2>1. TypeOK'
    <3>1. NoOrder \in [id: Ids \cup {NoId}, side: Sides, price: Prices \cup {0}, qty: Nat, market: BOOLEAN]
      BY DEF NoOrder, Sides
    <3> QED BY <2>0, <3>1 DEF TypeOK
  <2>2. IndexInv'
    BY <2>0 DEF IndexInv
  <2>3. BoundInv'
    BY <2>0 DEF BoundInv
  <2>4. CallInv'
    BY DEF CallInv
  <2>5. LevelsInv'
    BY <2>0 DEF LevelsInv
  <2>6. RestInv'
    BY DEF RestInv
  <2>7. CrossInv'
    BY <2>0 DEF CrossInv, LivePrices, Dead
  <2>8. StampInv'
    <3>1. ASSUME NEW s \in Sides, NEW p \in Prices, NEW i \in 1..Len(queue[s][p])
          PROVE  stamp[queue[s][p][i].id] < clock + 1
      <4>1. stamp[queue[s][p][i].id] < clock /\ queue[s][p][i].id \in order_index
        BY DEF StampInv, IndexInv
      <4>2. stamp[queue[s][p][i].id] \in Nat
        BY <4>1 DEF TypeOK
      <4> QED BY <2>0, <4>1, <4>2
    <3> QED BY <2>0, <3>1 DEF StampInv
  <2>9. QuantityConserved'
    BY <2>0 DEF QuantityConserved
  <2> QED BY <2>1, <2>2, <2>3, <2>4, <2>5, <2>6, <2>7, <2>8, <2>9
<1> QED BY <1>1, <1>2

(* A flag only takes an order out of the live ones. *)
LEMMA CancelStep == ASSUME Inv, NEW id \in Ids, CancelOrder(id) PROVE Inv'
<1> USE DEF Inv, CancelOrder, ghosts
<1>1. TypeOK'
  BY DEF TypeOK
<1>2. IndexInv'
  <2>1. canceled' \subseteq order_index' /\ UNCHANGED <<queue, order_index>>
    BY DEF IndexInv
  <2>2. /\ \A s \in Sides, p \in Prices : \A i \in 1..Len(queue[s][p]) :
              queue[s][p][i].id \in order_index
        /\ \A x \in order_index : \E s \in Sides, p \in Prices :
              \E i \in 1..Len(queue[s][p]) : queue[s][p][i].id = x
    BY DEF IndexInv
  <2>3. \A s, t \in Sides, p, q \in Prices :
           \A i \in 1..Len(queue[s][p]), j \in 1..Len(queue[t][q]) :
               queue[s][p][i].id = queue[t][q][j].id => s = t /\ p = q /\ i = j
    BY DEF IndexInv
  <2> QED BY <2>1, <2>2, <2>3 DEF IndexInv
<1>3. BoundInv'
  BY DEF BoundInv
<1>4. CallInv'
  BY DEF CallInv
<1>5. LevelsInv'
  BY DEF LevelsInv
<1>6. RestInv'
  BY DEF RestInv
<1>7. CrossInv'
  <2>1. \A s \in Sides : LivePrices(s)' \subseteq LivePrices(s)
    BY DEF LivePrices, Dead
  <2> QED BY <2>1, CrossKept
<1>8. StampInv'
  BY DEF StampInv
<1>9. QuantityConserved'
  BY DEF QuantityConserved
<1> QED BY <1>1, <1>2, <1>3, <1>4, <1>5, <1>6, <1>7, <1>8, <1>9

(* An empty book has the invariant. *)
LEMMA EmptyBook ==
    ASSUME levels = [s \in Sides |-> {}], queue = [s \in Sides |-> [p \in Prices |-> <<>>]],
           order_index = {}, canceled = {}, pc = "idle", incoming = NoOrder, trades = <<>>,
           clock \in Nat, stamp = [i \in Ids |-> 0], submitted = [i \in Ids |-> 0],
           filled = [i \in Ids |-> 0], capHit = FALSE
    PROVE  Inv
<1>0. \A s \in Sides, p \in Prices : queue[s][p] = <<>> /\ Len(queue[s][p]) = 0
  OBVIOUS
<1>1. TypeOK
  <2>1. NoOrder \in [id: Ids \cup {NoId}, side: Sides, price: Prices \cup {0}, qty: Nat, market: BOOLEAN]
    BY DEF NoOrder, Sides
  <2>2. queue \in [Sides -> [Prices -> Seq(Entries)]] /\ levels \in [Sides -> SUBSET Prices]
    <3>1. [p \in Prices |-> <<>>] \in [Prices -> Seq(Entries)]
      OBVIOUS
    <3> QED BY <3>1
  <2>3. trades \in Seq([maker: Ids, taker: Ids, price: Prices, qty: Nat \ {0}])
    OBVIOUS
  <2> QED BY <2>1, <2>2, <2>3 DEF TypeOK
<1>2. IndexInv
  BY <1>0 DEF IndexInv
<1>3. BoundInv
  BY DEF BoundInv
<1>4. CallInv
  BY DEF CallInv
<1>5. LevelsInv
  BY <1>0 DEF LevelsInv
<1>6. RestInv
  BY DEF RestInv
<1>7. CrossInv
  BY <1>0 DEF CrossInv, LivePrices, Sides
<1>8. StampInv
  BY <1>0 DEF StampInv
<1>9. QuantityConserved
  BY <1>0 DEF QuantityConserved
<1> QED BY <1>1, <1>2, <1>3, <1>4, <1>5, <1>6, <1>7, <1>8, <1>9 DEF Inv

(* A book that was reset. *)
LEMMA ResetStep == ASSUME Inv, Reset PROVE Inv'
<1> USE DEF Inv, Reset
<1>a. /\ pc' = "idle" /\ incoming' = NoOrder /\ clock' \in Nat
      /\ incoming' \in [id: Ids \cup {NoId}, side: Sides, price: Prices \cup {0}, qty: Nat, market: BOOLEAN]
  BY DEF CallInv, TypeOK
<1>0. \A s \in Sides, p \in Prices : queue'[s][p] = <<>> /\ Len(queue'[s][p]) = 0
  OBVIOUS
<1>1. TypeOK'
  <2>1. queue' \in [Sides -> [Prices -> Seq(Entries)]] /\ levels' \in [Sides -> SUBSET Prices]
    <3>1. [p \in Prices |-> <<>>] \in [Prices -> Seq(Entries)]
      OBVIOUS
    <3> QED BY <3>1
  <2>2. trades' \in Seq([maker: Ids, taker: Ids, price: Prices, qty: Nat \ {0}])
    OBVIOUS
  <2> QED BY <1>a, <2>1, <2>2 DEF TypeOK
<1>2. IndexInv'
  BY <1>0 DEF IndexInv
<1>3. BoundInv'
  BY DEF BoundInv
<1>4. CallInv'
  BY <1>a DEF CallInv
<1>5. LevelsInv'
  BY <1>0 DEF LevelsInv
<1>6. RestInv'
  BY <1>a DEF RestInv
<1>7. CrossInv'
  BY <1>0 DEF CrossInv, LivePrices, Sides
<1>8. StampInv'
  BY <1>0 DEF StampInv
<1>9. QuantityConserved'
  BY <1>0, <1>a DEF QuantityConserved
<1> QED BY <1>1, <1>2, <1>3, <1>4, <1>5, <1>6, <1>7, <1>8, <1>9

(* A step that changes nothing. *)
LEMMA StutterStep == ASSUME Inv, UNCHANGED vars PROVE Inv'
<1> USE DEF Inv, vars, book, ghosts
<1>1. TypeOK'
  BY DEF TypeOK
<1>2. IndexInv'
  BY DEF IndexInv
<1>3. BoundInv'
  BY DEF BoundInv
<1>4. CallInv'
  BY DEF CallInv, Facing, Level, BestPrice, Crossing
<1>5. LevelsInv'
  BY SameLevel DEF LevelsInv
<1>6. RestInv'
  BY DEF RestInv, Facing, LivePrices, Dead, Crossing
<1>7. CrossInv'
  BY DEF CrossInv, LivePrices, Dead
<1>8. StampInv'
  BY DEF StampInv
<1>9. QuantityConserved'
  BY DEF QuantityConserved
<1> QED BY <1>1, <1>2, <1>3, <1>4, <1>5, <1>6, <1>7, <1>8, <1>9

----------------------------------------------------------------------------
(* The theorems                                                            *)

(* Inv holds in every state of every behaviour: of the two nested loops of *)
(* match_buy and match_sell, of submit_order, cancel_order and reset.      *)
THEOREM InductiveInvariant == Spec => []Inv
<1>1. Init => Inv
  <2> SUFFICES ASSUME Init PROVE Inv
    OBVIOUS
  <2>1. clock \in Nat
    BY DEF Init
  <2> QED BY <2>1, EmptyBook DEF Init
<1>2. Inv /\ [Next]_vars => Inv'
  <2> SUFFICES ASSUME Inv, [Next]_vars PROVE Inv'
    OBVIOUS
  <2>1. CASE MatchStep
    BY <2>1, StopMatchingStep, EnterLevelStep, SweepStep, MatchFrontStep, LeaveLevelStep,
       RestStep DEF MatchStep
  <2> QED BY <2>1, RefuseStep, AcceptStep, CancelStep, ResetStep, StutterStep DEF Next
<1> QED BY <1>1, <1>2, PTL DEF Spec

(* At every step of a call order_index holds exactly the queued orders,    *)
(* once each, a queue that holds anything is reachable through its map,    *)
(* and between calls the book is not crossed, unless a match stopped at    *)
(* MAX_TRADES_PER_MATCH.                                                   *)
THEOREM BookConsistentHolds == Spec => []BookConsistent
<1>1. Inv => BookConsistent
  <2> SUFFICES ASSUME Inv PROVE BookConsistent
    OBVIOUS
  <2>1. IndexMatchesQueues
    <3>1. order_index = Queued
      <4>1. ASSUME NEW x \in order_index PROVE x \in Queued
        <5>1. PICK s \in Sides, p \in Prices : \E i \in 1..Len(queue[s][p]) : queue[s][p][i].id = x
          BY DEF Inv, IndexInv
        <5>2. x \in QueuedAt(s, p)
          BY <5>1 DEF QueuedAt
        <5> QED BY <5>2 DEF Queued
      <4>2. ASSUME NEW x \in Queued PROVE x \in order_index
        <5>1. PICK s \in Sides, p \in Prices : x \in QueuedAt(s, p)
          BY DEF Queued
        <5> QED BY <5>1 DEF Inv, IndexInv, QueuedAt
      <4> QED BY <4>1, <4>2
    <3> QED BY <3>1 DEF Inv, IndexInv, IndexMatchesQueues
  <2>2. LevelsMatchQueues
    BY DEF Inv, LevelsInv, LevelsMatchQueues
  <2>3. NotCrossed
    BY DEF Inv, CrossInv, NotCrossed
  <2> QED BY <2>1, <2>2, <2>3 DEF Inv, BookConsistent
<1> QED BY <1>1, InductiveInvariant, PTL

(* What rests or is being matched is what was submitted less what was      *)
(* traded, for every order, however many partial fills it has met.         *)
THEOREM QuantityConservedHolds == Spec => []QuantityConserved
<1>1. Inv => QuantityConserved
  BY DEF Inv
<1> QED BY <1>1, InductiveInvariant, PTL

----------------------------------------------------------------------------
(* Price-time priority                                                     *)

(* An entry as an order of the abstract book. *)
Shown(s, p, e, at) == [id |-> e.id, side |-> s, price |-> p, qty |-> e.qty, stamp |-> at]

(* The live orders, position by position. *)
LEMMA LiveMember ==
    ASSUME NEW m
    PROVE  m \in LiveOrders <=>
              \E s \in Sides, p \in Prices : \E i \in 1..Len(queue[s][p]) :
                 /\ queue[s][p][i].id \in order_index \ canceled
                 /\ m = Shown(s, p, queue[s][p][i], stamp[queue[s][p][i].id])
<1> DEFINE At(s, p) == {[id |-> queue[s][p][i].id, side |-> s, price |-> p,
                         qty |-> queue[s][p][i].qty, stamp |-> stamp[queue[s][p][i].id]]
                        : i \in {j \in 1..Len(queue[s][p]) : ~Dead(queue[s][p][j].id)}}
<1>1. LiveOrders = UNION {At(s, p) : s \in Sides, p \in Prices}
  BY DEF LiveOrders
<1>2. ASSUME NEW s \in Sides, NEW p \in Prices
      PROVE  m \in At(s, p) <=> \E i \in 1..Len(queue[s][p]) :
                 /\ queue[s][p][i].id \in order_index \ canceled
                 /\ m = Shown(s, p, queue[s][p][i], stamp[queue[s][p][i].id])
  BY DEF Shown, Dead
<1> HIDE DEF At
<1>3. m \in LiveOrders <=> \E s \in Sides, p \in Prices : m \in At(s, p)
  BY <1>1
<1> QED BY <1>2, <1>3

(* The same after a step. *)
LEMMA LiveMemberNext ==
    ASSUME NEW m
    PROVE  m \in LiveOrders' <=>
              \E s \in Sides, p \in Prices : \E i \in 1..Len(queue'[s][p]) :
                 /\ queue'[s][p][i].id \in order_index' \ canceled'
                 /\ m = Shown(s, p, queue'[s][p][i], stamp'[queue'[s][p][i].id])
<1> DEFINE At(s, p) == {[id |-> queue'[s][p][i].id, side |-> s, price |-> p,
                         qty |-> queue'[s][p][i].qty, stamp |-> stamp'[queue'[s][p][i].id]]
                        : i \in {j \in 1..Len(queue'[s][p]) :
                                    ~(queue'[s][p][j].id \notin order_index' \/ queue'[s][p][j].id \in canceled')}}
<1>1. LiveOrders' = UNION {At(s, p) : s \in Sides, p \in Prices}
  BY DEF LiveOrders, Dead
<1>2. ASSUME NEW s \in Sides, NEW p \in Prices
      PROVE  m \in At(s, p) <=> \E i \in 1..Len(queue'[s][p]) :
                 /\ queue'[s][p][i].id \in order_index' \ canceled'
                 /\ m = Shown(s, p, queue'[s][p][i], stamp'[queue'[s][p][i].id])
  BY DEF Shown
<1> HIDE DEF At
<1>3. m \in LiveOrders' <=> \E s \in Sides, p \in Prices : m \in At(s, p)
  BY <1>1
<1> QED BY <1>2, <1>3

(* A sweep takes out an order that is not live. *)
LEMMA SweepShows == ASSUME Inv, Sweep PROVE LiveOrders' = LiveOrders
<1>a. PICK f \in Sides : f = Facing
  BY LevelFacts DEF Inv, Sweep
<1>b. PICK l \in Prices : l = Level
  BY LevelFacts DEF Inv, Sweep
<1>c. TypeOK /\ queue[f][l] # <<>> /\ Pops(f, l) /\ 1 \in 1..Len(queue[f][l])
  BY <1>a, <1>b, TailFacts DEF Pops, Queue, TypeOK, Inv, Sweep
<1>d. Head(queue[f][l]) = queue[f][l][1]
  BY <1>c, TailFacts DEF TypeOK
<1>e. /\ order_index' = order_index \ {queue[f][l][1].id}
      /\ canceled' = canceled \ {queue[f][l][1].id} /\ stamp' = stamp
      /\ queue[f][l][1].id \notin order_index \ canceled
  BY <1>a, <1>b, <1>d DEF Queue, Dead, ghosts, Sweep
<1>1. ASSUME NEW m \in LiveOrders' PROVE m \in LiveOrders
  <2>1. PICK s \in Sides, p \in Prices : \E i \in 1..Len(queue'[s][p]) :
           /\ queue'[s][p][i].id \in order_index' \ canceled'
           /\ m = Shown(s, p, queue'[s][p][i], stamp'[queue'[s][p][i].id])
    BY LiveMemberNext
  <2>2. PICK i \in 1..Len(queue'[s][p]) :
           /\ queue'[s][p][i].id \in order_index' \ canceled'
           /\ m = Shown(s, p, queue'[s][p][i], stamp'[queue'[s][p][i].id])
    BY <2>1
  <2>3. PICK j \in 1..Len(queue[s][p]) : queue'[s][p][i] = queue[s][p][j]
    <3>1. /\ Before(f, l, s, p, i) \in 1..Len(queue[s][p])
          /\ queue'[s][p][i] = queue[s][p][Before(f, l, s, p, i)]
      BY <1>c, PopFacts
    <3> QED BY <3>1
  <2>4. queue[s][p][j].id \in order_index \ canceled /\ m = Shown(s, p, queue[s][p][j], stamp[queue[s][p][j].id])
    BY <1>e, <2>2, <2>3
  <2> QED BY <2>4, LiveMember
<1>2. ASSUME NEW m \in LiveOrders PROVE m \in LiveOrders'
  <2>1. PICK s \in Sides, p \in Prices : \E i \in 1..Len(queue[s][p]) :
           /\ queue[s][p][i].id \in order_index \ canceled
           /\ m = Shown(s, p, queue[s][p][i], stamp[queue[s][p][i].id])
    BY LiveMember
  <2>2. PICK i \in 1..Len(queue[s][p]) :
           /\ queue[s][p][i].id \in order_index \ canceled
           /\ m = Shown(s, p, queue[s][p][i], stamp[queue[s][p][i].id])
    BY <2>1
  <2>3. ~(s = f /\ p = l /\ i = 1)
    BY <1>e, <2>2
  <2>4. PICK j \in 1..Len(queue'[s][p]) : queue'[s][p][j] = queue[s][p][i]
    BY <1>c, <2>3, PopFacts
  <2>5. queue'[s][p][j].id \in order_index' \ canceled' /\ m = Shown(s, p, queue'[s][p][j], stamp'[queue'[s][p][j].id])
    BY <1>e, <2>2, <2>4
  <2> QED BY <2>5, LiveMemberNext
<1> QED BY <1>1, <1>2

(* The order a trade is with comes before every other that crosses: at a   *)
(* better price, or earlier in the queue of the same price.                *)
LEMMA FrontIsFirst ==
    ASSUME Inv, pc = "match", NEW f, NEW l, NEW e, NEW m,
           f = Facing, l = Level, queue[f][l] # <<>>, e = queue[f][l][1],
           e.id \in order_index \ canceled, m = Shown(f, l, e, stamp[e.id])
    PROVE  /\ m \in Abstract!Candidates
           /\ \A n \in Abstract!Candidates \ {m} : Abstract!Ahead(m, n)
<1>1. /\ f \in Sides /\ l \in Prices /\ l \in levels[f]
      /\ \A q \in levels[f] : IF f = "sell" THEN l <= q ELSE l >= q
  BY LevelFacts DEF Inv
<1>2. queue[f][l] \in Seq(Entries) /\ 1 \in 1..Len(queue[f][l])
  BY <1>1 DEF Inv, TypeOK
<1>3. m \in LiveOrders
  BY <1>1, <1>2, LiveMember
<1>4. /\ m.id = e.id /\ m.side = f /\ m.price = l /\ m.stamp = stamp[e.id]
      /\ incoming.side \in Sides /\ f # incoming.side
      /\ \A s \in Sides : s # incoming.side => s = f
  BY DEF Shown, Facing, Opp, Sides, Inv, TypeOK
<1>5. m \in Abstract!Candidates
  BY <1>3, <1>4 DEF Abstract!Candidates, Abstract!Crosses, Inv, CallInv, Crossing
<1>6. ASSUME NEW n \in Abstract!Candidates, n # m PROVE Abstract!Ahead(m, n)
  <2>1. n \in LiveOrders /\ n.side # incoming.side
    BY DEF Abstract!Candidates
  <2>2. PICK s \in Sides, p \in Prices : \E i \in 1..Len(queue[s][p]) :
           /\ queue[s][p][i].id \in order_index \ canceled
           /\ n = Shown(s, p, queue[s][p][i], stamp[queue[s][p][i].id])
    BY <2>1, LiveMember
  <2>3. PICK i \in 1..Len(queue[s][p]) :
           /\ queue[s][p][i].id \in order_index \ canceled
           /\ n = Shown(s, p, queue[s][p][i], stamp[queue[s][p][i].id])
    BY <2>2
  <2>4. n.side = s /\ n.price = p /\ n.stamp = stamp[queue[s][p][i].id]
    BY <2>3 DEF Shown
  <2>5. s = f
    BY <1>4, <2>1, <2>4
  <2>6. CASE p # l
    <3>1. queue[s][p] # <<>>
      BY <2>3
    <3>2. p \in levels[f] /\ p \in Nat /\ l \in Nat
      BY <1>1, <2>5, <3>1, PricesAssumption DEF Inv, LevelsInv
    <3>3. IF f = "sell" THEN l < p ELSE l > p
      BY <1>1, <2>6, <3>2
    <3> QED BY <1>4, <2>4, <3>3 DEF Abstract!Ahead, Abstract!BetterPrice
  <2>7. CASE p = l
    <3>1. i # 1
      BY <1>6, <2>3, <2>5, <2>7
    <3>2. 1 < i /\ i \in 1..Len(queue[f][l])
      BY <2>5, <2>7, <3>1
    <3>3. stamp[queue[f][l][1].id] < stamp[queue[f][l][i].id]
      BY <1>1, <1>2, <3>2 DEF Inv, StampInv
    <3>4. m.stamp < n.stamp /\ m.price = n.price
      BY <1>4, <2>4, <2>5, <2>7, <3>3
    <3> QED BY <3>4 DEF Abstract!Ahead
  <2> QED BY <2>6, <2>7
<1> QED BY <1>5, <1>6

(* A trade fills that order and no other. *)
LEMMA MatchFrontFills == ASSUME Inv, MatchFront PROVE Abstract!Fill
<1>a. PICK f, l, e, q : f = Facing /\ l = Level /\ e = Head(Queue) /\ q = Min2(incoming.qty, e.qty)
  OBVIOUS
<1>b. /\ f \in Sides /\ l \in Prices /\ queue[f][l] # <<>> /\ 1 \in 1..Len(queue[f][l])
      /\ e = queue[f][l][1] /\ e \in Entries /\ e.id \in order_index \ canceled
      /\ q \in Nat \ {0}
      /\ trades' = Append(trades, [maker |-> e.id, taker |-> incoming.id, price |-> l, qty |-> q])
      /\ incoming' = [incoming EXCEPT !.qty = incoming.qty - q]
      /\ \/ q = e.qty /\ Pops(f, l) /\ order_index' = order_index \ {e.id}
         \/ /\ q # e.qty /\ e.qty - q \in Nat \ {0} /\ order_index' = order_index
            /\ queue' = [queue EXCEPT ![f][l] = [queue[f][l] EXCEPT ![1].qty = e.qty - q]]
  BY <1>a, MatchFrontFacts
<1>c. pc = "match" /\ incoming.qty > 0 /\ UNCHANGED <<canceled, clock, stamp>> /\ TypeOK /\ IndexInv
  BY DEF MatchFront, Inv
<1>k. /\ f \in Sides /\ l \in Prices /\ queue[f][l] # <<>> /\ 1 \in 1..Len(queue[f][l])
      /\ e = queue[f][l][1] /\ e.id \in order_index \ canceled
  BY <1>b
<1>d. PICK m : m = Shown(f, l, e, stamp[e.id])
  OBVIOUS
<1>e. m.id = e.id /\ m.price = l /\ m.qty = e.qty
  BY <1>d DEF Shown
<1>1. /\ m \in Abstract!Candidates
      /\ \A n \in Abstract!Candidates \ {m} : Abstract!Ahead(m, n)
  BY <1>a, <1>b, <1>c, <1>d, FrontIsFirst
<1>2. q = Abstract!Least(incoming.qty, m.qty)
  BY <1>a, <1>e DEF Abstract!Least, Min2
<1>3. \A s \in Sides, p \in Prices : \A i \in 1..Len(queue[s][p]) :
         queue[s][p][i].id = e.id => s = f /\ p = l /\ i = 1
  BY <1>k, <1>c DEF IndexInv
<1>4. ASSUME q = e.qty, Pops(f, l), order_index' = order_index \ {e.id}
      PROVE  LiveOrders' = LiveOrders \ {m}
  <2>1. ASSUME NEW n \in LiveOrders' PROVE n \in LiveOrders \ {m}
    <3>1. PICK s \in Sides, p \in Prices : \E i \in 1..Len(queue'[s][p]) :
             /\ queue'[s][p][i].id \in order_index' \ canceled'
             /\ n = Shown(s, p, queue'[s][p][i], stamp'[queue'[s][p][i].id])
      BY LiveMemberNext
    <3>2. PICK i \in 1..Len(queue'[s][p]) :
             /\ queue'[s][p][i].id \in order_index' \ canceled'
             /\ n = Shown(s, p, queue'[s][p][i], stamp'[queue'[s][p][i].id])
      BY <3>1
    <3>3. PICK j \in 1..Len(queue[s][p]) : queue'[s][p][i] = queue[s][p][j]
      <4>1. /\ Before(f, l, s, p, i) \in 1..Len(queue[s][p])
            /\ queue'[s][p][i] = queue[s][p][Before(f, l, s, p, i)]
        BY <1>b, <1>c, <1>4, PopFacts
      <4> QED BY <4>1
    <3>4. queue[s][p][j].id \in order_index \ canceled /\ n = Shown(s, p, queue[s][p][j], stamp[queue[s][p][j].id])
      BY <1>c, <1>4, <3>2, <3>3
    <3>5. n.id # e.id
      BY <1>4, <3>2, <3>3, <3>4 DEF Shown
    <3>6. n \in LiveOrders
      BY <3>4, LiveMember
    <3> QED BY <1>e, <3>5, <3>6
  <2>2. ASSUME NEW n \in LiveOrders, n # m PROVE n \in LiveOrders'
    <3>1. PICK s \in Sides, p \in Prices : \E i \in 1..Len(queue[s][p]) :
             /\ queue[s][p][i].id \in order_index \ canceled
             /\ n = Shown(s, p, queue[s][p][i], stamp[queue[s][p][i].id])
      BY LiveMember
    <3>2. PICK i \in 1..Len(queue[s][p]) :
             /\ queue[s][p][i].id \in order_index \ canceled
             /\ n = Shown(s, p, queue[s][p][i], stamp[queue[s][p][i].id])
      BY <3>1
    <3>3. ~(s = f /\ p = l /\ i = 1)
      BY <1>b, <1>d, <2>2, <3>2
    <3>4. PICK j \in 1..Len(queue'[s][p]) : queue'[s][p][j] = queue[s][p][i]
      <4>1. \/ s = f /\ p = l /\ i = 1
            \/ \E j \in 1..Len(queue'[s][p]) : queue'[s][p][j] = queue[s][p][i]
        BY <1>k, <1>c, <1>4, PopFacts
      <4> QED BY <3>3, <4>1
    <3>5. queue[s][p][i].id # e.id
      BY <1>3, <3>3
    <3>6. queue'[s][p][j].id \in order_index' \ canceled' /\ n = Shown(s, p, queue'[s][p][j], stamp'[queue'[s][p][j].id])
      BY <1>c, <1>4, <3>2, <3>4, <3>5
    <3> QED BY <3>6, LiveMemberNext
  <2> QED BY <2>1, <2>2
<1>5. ASSUME q # e.qty, e.qty - q \in Nat \ {0}, order_index' = order_index,
             queue' = [queue EXCEPT ![f][l] = [queue[f][l] EXCEPT ![1].qty = e.qty - q]]
      PROVE  LiveOrders' = (LiveOrders \ {m}) \cup {[m EXCEPT !.qty = e.qty - q]}
  <2>0. PICK n \in Nat \ {0} : n = e.qty - q
    BY <1>5
  <2>1. PICK new : new = [queue[f][l] EXCEPT ![1].qty = n]
    OBVIOUS
  <2>2. /\ new \in Seq(Entries) /\ Len(new) = Len(queue[f][l])
        /\ \A i \in 1..Len(queue[f][l]) :
              /\ new[i].id = queue[f][l][i].id
              /\ new[i].qty = IF i = 1 THEN n ELSE queue[f][l][i].qty
              /\ i # 1 => new[i] = queue[f][l][i]
    <3>1. queue[f][l] \in Seq(Entries)
      BY <1>b, <1>c DEF TypeOK
    <3> QED BY <1>k, <2>1, <3>1, FrontFacts
  <2>3. /\ queue'[f][l] = new
        /\ \A s \in Sides, p \in Prices : s # f \/ p # l => queue'[s][p] = queue[s][p]
    <3>1. Puts(f, l, new)
      BY <1>5, <2>0, <2>1 DEF Puts
    <3> QED BY <1>b, <1>c, <2>2, <3>1, QueueUpdate
  <2>4. PICK k : k = [m EXCEPT !.qty = n]
    OBVIOUS
  <2>5. k = Shown(f, l, new[1], stamp[e.id]) /\ new[1].id = e.id
    BY <1>b, <1>d, <2>2, <2>4 DEF Shown
  <2>6. ASSUME NEW x \in LiveOrders' PROVE x \in (LiveOrders \ {m}) \cup {k}
    <3>1. PICK s \in Sides, p \in Prices : \E i \in 1..Len(queue'[s][p]) :
             /\ queue'[s][p][i].id \in order_index' \ canceled'
             /\ x = Shown(s, p, queue'[s][p][i], stamp'[queue'[s][p][i].id])
      BY LiveMemberNext
    <3>2. PICK i \in 1..Len(queue'[s][p]) :
             /\ queue'[s][p][i].id \in order_index' \ canceled'
             /\ x = Shown(s, p, queue'[s][p][i], stamp'[queue'[s][p][i].id])
      BY <3>1
    <3>3. CASE s = f /\ p = l /\ i = 1
      BY <1>c, <2>3, <2>5, <3>2, <3>3
    <3>4. CASE ~(s = f /\ p = l /\ i = 1)
      <4>1. i \in 1..Len(queue[s][p]) /\ queue'[s][p][i] = queue[s][p][i]
        BY <2>2, <2>3, <3>4
      <4>2. queue[s][p][i].id \in order_index \ canceled /\ x = Shown(s, p, queue[s][p][i], stamp[queue[s][p][i].id])
        BY <1>c, <1>5, <3>2, <4>1
      <4>3. x.id # e.id
        BY <1>3, <3>4, <4>1, <4>2 DEF Shown
      <4>4. x \in LiveOrders
        BY <4>1, <4>2, LiveMember
      <4> QED BY <1>e, <4>3, <4>4
    <3> QED BY <3>3, <3>4
  <2>7. ASSUME NEW x \in LiveOrders, x # m PROVE x \in LiveOrders'
    <3>1. PICK s \in Sides, p \in Prices : \E i \in 1..Len(queue[s][p]) :
             /\ queue[s][p][i].id \in order_index \ canceled
             /\ x = Shown(s, p, queue[s][p][i], stamp[queue[s][p][i].id])
      BY LiveMember
    <3>2. PICK i \in 1..Len(queue[s][p]) :
             /\ queue[s][p][i].id \in order_index \ canceled
             /\ x = Shown(s, p, queue[s][p][i], stamp[queue[s][p][i].id])
      BY <3>1
    <3>3. ~(s = f /\ p = l /\ i = 1)
      BY <1>b, <1>d, <2>7, <3>2
    <3>4. i \in 1..Len(queue'[s][p]) /\ queue'[s][p][i] = queue[s][p][i]
      BY <2>2, <2>3, <3>3
    <3>5. queue'[s][p][i].id \in order_index' \ canceled' /\ x = Shown(s, p, queue'[s][p][i], stamp'[queue'[s][p][i].id])
      BY <1>c, <1>5, <3>2, <3>4
    <3> QED BY <3>4, <3>5, LiveMemberNext
  <2>8. k \in LiveOrders'
    <3>1. 1 \in 1..Len(queue'[f][l]) /\ queue'[f][l][1] = new[1]
      BY <1>b, <2>2, <2>3
    <3>2. queue'[f][l][1].id \in order_index' \ canceled' /\ k = Shown(f, l, queue'[f][l][1], stamp'[queue'[f][l][1].id])
      BY <1>b, <1>c, <1>5, <2>5, <3>1
    <3> QED BY <1>b, <3>1, <3>2, LiveMemberNext
  <2> QED BY <2>0, <2>4, <2>6, <2>7, <2>8
<1>6. LiveOrders' = (LiveOrders \ {m}) \cup (IF q = m.qty THEN {} ELSE {[m EXCEPT !.qty = m.qty - q]})
  <2>1. CASE q = e.qty
    BY <1>b, <1>e, <1>4, <2>1
  <2>2. CASE q # e.qty
    BY <1>b, <1>e, <1>5, <2>2
  <2> QED BY <2>1, <2>2
<1>7. incoming # NoOrder
  BY <1>c, NoIdAssumption DEF NoOrder, Inv, CallInv
<1> QED BY <1>b, <1>c, <1>e, <1>1, <1>2, <1>6, <1>7 DEF Abstract!Fill

(* What is left of a limit order joins the live orders, stamped now. *)
LEMMA RestFinishes == ASSUME Inv, Rest PROVE Abstract!Finish
<1>a. /\ TypeOK /\ pc = "rest" /\ incoming' = NoOrder /\ clock' = clock + 1
      /\ UNCHANGED <<canceled, trades>>
  BY DEF Inv, Rest
<1>b. incoming # NoOrder
  BY <1>a, NoIdAssumption DEF NoOrder, Inv, CallInv
<1>c. incoming.qty = 0 \/ Abstract!Candidates = {} \/ Len(trades) >= MaxTrades
  <2>1. ASSUME \A p \in LivePrices(Facing) : ~Crossing(incoming, p)
        PROVE  Abstract!Candidates = {}
    <3>1. SUFFICES ASSUME NEW n \in Abstract!Candidates PROVE FALSE
      OBVIOUS
    <3>2. n \in LiveOrders /\ n.side # incoming.side /\ Abstract!Crosses(incoming, n.price)
      BY DEF Abstract!Candidates
    <3>3. PICK s \in Sides, p \in Prices : \E i \in 1..Len(queue[s][p]) :
             /\ queue[s][p][i].id \in order_index \ canceled
             /\ n = Shown(s, p, queue[s][p][i], stamp[queue[s][p][i].id])
      BY <3>2, LiveMember
    <3>4. n.side = s /\ n.price = p /\ p \in LivePrices(s)
      BY <3>3 DEF Shown, LivePrices, Dead
    <3>5. s = Facing
      BY <1>a, <3>2, <3>4 DEF Facing, Opp, Sides, TypeOK
    <3> QED BY <2>1, <3>2, <3>4, <3>5 DEF Abstract!Crosses, Crossing
  <2> QED BY <1>a, <2>1 DEF Inv, RestInv
<1>1. ASSUME ~(~incoming.market /\ incoming.qty > 0) PROVE LiveOrders' = LiveOrders
  <2>1. UNCHANGED <<order_index, queue, stamp, canceled>>
    BY <1>1 DEF Rest
  <2> QED BY <2>1 DEF LiveOrders, Dead
<1>2. ASSUME ~incoming.market, incoming.qty > 0
      PROVE  LiveOrders' = LiveOrders \cup {Abstract!Resting(incoming, clock)}
  <2>a. PICK f, l, e : f = incoming.side /\ l = incoming.price /\ e = [id |-> incoming.id, qty |-> incoming.qty]
    OBVIOUS
  <2>b. /\ f \in Sides /\ l \in Prices /\ e \in Entries /\ e.id = incoming.id /\ e.qty = incoming.qty
        /\ e.id \in Ids /\ e.id \notin order_index /\ e.id \notin canceled
    BY <1>a, <1>2, <2>a DEF TypeOK, Inv, IndexInv, CallInv, Entries
  <2>c. /\ order_index' = order_index \cup {e.id}
        /\ Puts(f, l, Append(queue[f][l], e))
        /\ stamp' = [stamp EXCEPT ![e.id] = clock]
    BY <1>2, <2>a, <2>b DEF Rest, Puts
  <2>d. /\ \A s \in Sides, p \in Prices : \A i \in 1..Len(queue[s][p]) :
              i \in 1..Len(queue'[s][p]) /\ queue'[s][p][i] = queue[s][p][i]
        /\ \A s \in Sides, p \in Prices : \A i \in 1..Len(queue'[s][p]) :
              \/ i \in 1..Len(queue[s][p]) /\ queue'[s][p][i] = queue[s][p][i]
              \/ s = f /\ p = l /\ i = Len(queue[f][l]) + 1 /\ queue'[s][p][i] = e
    BY <1>a, <2>b, <2>c, RestFacts
  <2>e. /\ Len(queue[f][l]) + 1 \in 1..Len(queue'[f][l])
        /\ queue'[f][l][Len(queue[f][l]) + 1] = e
    BY <1>a, <2>b, <2>c, RestFacts
  <2>f. \A s \in Sides, p \in Prices : \A i \in 1..Len(queue[s][p]) :
           queue[s][p][i].id \in order_index /\ queue[s][p][i].id # e.id
    BY <2>b DEF Inv, IndexInv
  <2>g. stamp'[e.id] = clock /\ \A x \in order_index : stamp'[x] = stamp[x]
    BY <1>a, <2>b, <2>c DEF TypeOK
  <2>h. PICK k : k = Shown(f, l, e, clock)
    OBVIOUS
  <2>i. k = Abstract!Resting(incoming, clock)
    BY <2>a, <2>b, <2>h DEF Shown, Abstract!Resting
  <2>1. ASSUME NEW x \in LiveOrders' PROVE x \in LiveOrders \cup {k}
    <3>1. PICK s \in Sides, p \in Prices : \E i \in 1..Len(queue'[s][p]) :
             /\ queue'[s][p][i].id \in order_index' \ canceled'
             /\ x = Shown(s, p, queue'[s][p][i], stamp'[queue'[s][p][i].id])
      BY LiveMemberNext
    <3>2. PICK i \in 1..Len(queue'[s][p]) :
             /\ queue'[s][p][i].id \in order_index' \ canceled'
             /\ x = Shown(s, p, queue'[s][p][i], stamp'[queue'[s][p][i].id])
      BY <3>1
    <3>3. CASE i \in 1..Len(queue[s][p]) /\ queue'[s][p][i] = queue[s][p][i]
      <4>1. queue[s][p][i].id \in order_index \ canceled /\ x = Shown(s, p, queue[s][p][i], stamp[queue[s][p][i].id])
        BY <1>a, <2>f, <2>g, <3>2, <3>3
      <4>2. x \in LiveOrders
        BY <3>3, <4>1, LiveMember
      <4> QED BY <4>2
    <3>4. CASE s = f /\ p = l /\ queue'[s][p][i] = e
      BY <2>g, <2>h, <3>2, <3>4
    <3> QED BY <2>d, <3>3, <3>4
  <2>2. ASSUME NEW x \in LiveOrders PROVE x \in LiveOrders'
    <3>1. PICK s \in Sides, p \in Prices : \E i \in 1..Len(queue[s][p]) :
             /\ queue[s][p][i].id \in order_index \ canceled
             /\ x = Shown(s, p, queue[s][p][i], stamp[queue[s][p][i].id])
      BY LiveMember
    <3>2. PICK i \in 1..Len(queue[s][p]) :
             /\ queue[s][p][i].id \in order_index \ canceled
             /\ x = Shown(s, p, queue[s][p][i], stamp[queue[s][p][i].id])
      BY <3>1
    <3>3. i \in 1..Len(queue'[s][p]) /\ queue'[s][p][i] = queue[s][p][i]
      BY <2>d
    <3>4. queue'[s][p][i].id \in order_index' \ canceled' /\ x = Shown(s, p, queue'[s][p][i], stamp'[queue'[s][p][i].id])
      BY <1>a, <2>c, <2>g, <3>2, <3>3
    <3> QED BY <3>3, <3>4, LiveMemberNext
  <2>3. k \in LiveOrders'
    <3>1. PICK i \in 1..Len(queue'[f][l]) : queue'[f][l][i] = e
      BY <2>e
    <3>2. queue'[f][l][i].id \in order_index' \ canceled' /\ k = Shown(f, l, queue'[f][l][i], stamp'[queue'[f][l][i].id])
      BY <1>a, <2>b, <2>c, <2>g, <2>h, <3>1
    <3> QED BY <2>b, <3>2, LiveMemberNext
  <2> QED BY <2>i, <2>1, <2>2, <2>3
<1>3. LiveOrders' = LiveOrders \cup (IF ~incoming.market /\ incoming.qty > 0
                                     THEN {Abstract!Resting(incoming, clock)} ELSE {})
  BY <1>1, <1>2
<1> QED BY <1>a, <1>b, <1>c, <1>3 DEF Abstract!Finish

(* A flagged order is gone from the live ones at once, the only one with   *)
(* its id.                                                                 *)
LEMMA CancelTakesOut ==
    ASSUME Inv, NEW id \in Ids, CancelOrder(id)
    PROVE  \E m \in LiveOrders : m.id = id /\ LiveOrders' = LiveOrders \ {m}
<1>a. /\ IndexInv /\ id \in order_index \ canceled /\ canceled' = canceled \cup {id}
      /\ UNCHANGED <<queue, order_index, stamp, incoming, clock>> /\ trades' = <<>> /\ incoming = NoOrder
  BY DEF Inv, CallInv, CancelOrder, ghosts
<1>b. PICK f \in Sides, l \in Prices : \E i \in 1..Len(queue[f][l]) : queue[f][l][i].id = id
  BY <1>a DEF IndexInv
<1>c. PICK k \in 1..Len(queue[f][l]) : queue[f][l][k].id = id
  BY <1>b
<1>d. PICK m : m = Shown(f, l, queue[f][l][k], stamp[id])
  OBVIOUS
<1>e. m \in LiveOrders /\ m.id = id
  <2>1. queue[f][l][k].id \in order_index \ canceled /\ m = Shown(f, l, queue[f][l][k], stamp[queue[f][l][k].id])
    BY <1>a, <1>c, <1>d
  <2> QED BY <1>c, <1>d, <2>1, LiveMember DEF Shown
<1>1. ASSUME NEW x \in LiveOrders' PROVE x \in LiveOrders \ {m}
  <2>1. PICK s \in Sides, p \in Prices : \E i \in 1..Len(queue'[s][p]) :
           /\ queue'[s][p][i].id \in order_index' \ canceled'
           /\ x = Shown(s, p, queue'[s][p][i], stamp'[queue'[s][p][i].id])
    BY LiveMemberNext
  <2>2. PICK i \in 1..Len(queue'[s][p]) :
           /\ queue'[s][p][i].id \in order_index' \ canceled'
           /\ x = Shown(s, p, queue'[s][p][i], stamp'[queue'[s][p][i].id])
    BY <2>1
  <2>3. /\ i \in 1..Len(queue[s][p]) /\ queue[s][p][i].id \in order_index \ canceled
        /\ x = Shown(s, p, queue[s][p][i], stamp[queue[s][p][i].id]) /\ queue[s][p][i].id # id
    BY <1>a, <2>2
  <2>4. x \in LiveOrders
    BY <2>3, LiveMember
  <2>5. x.id # id
    BY <2>3 DEF Shown
  <2> QED BY <1>e, <2>4, <2>5
<1>2. ASSUME NEW x \in LiveOrders, x # m PROVE x \in LiveOrders'
  <2>1. PICK s \in Sides, p \in Prices : \E i \in 1..Len(queue[s][p]) :
           /\ queue[s][p][i].id \in order_index \ canceled
           /\ x = Shown(s, p, queue[s][p][i], stamp[queue[s][p][i].id])
    BY LiveMember
  <2>2. PICK i \in 1..Len(queue[s][p]) :
           /\ queue[s][p][i].id \in order_index \ canceled
           /\ x = Shown(s, p, queue[s][p][i], stamp[queue[s][p][i].id])
    BY <2>1
  <2>3. queue[s][p][i].id # id
    <3>1. SUFFICES ASSUME queue[s][p][i].id = id PROVE FALSE
      OBVIOUS
    <3>2. \A t \in Sides, q \in Prices : \A j \in 1..Len(queue[t][q]) :
             queue[s][p][i].id = queue[t][q][j].id => s = t /\ p = q /\ i = j
      BY DEF Inv, IndexInv
    <3> QED BY <1>c, <1>d, <1>2, <2>2, <3>1, <3>2
  <2>4. /\ i \in 1..Len(queue'[s][p]) /\ queue'[s][p][i].id \in order_index' \ canceled'
        /\ x = Shown(s, p, queue'[s][p][i], stamp'[queue'[s][p][i].id])
    BY <1>a, <2>2, <2>3
  <2> QED BY <2>4, LiveMemberNext
<1>3. LiveOrders' = LiveOrders \ {m}
  BY <1>1, <1>2
<1> QED BY <1>e, <1>3

(* That is a cancel of the abstract book. *)
LEMMA CancelCancels == ASSUME Inv, NEW id \in Ids, CancelOrder(id) PROVE Abstract!Cancel
<1>1. UNCHANGED <<incoming, clock>> /\ trades' = <<>> /\ incoming = NoOrder
  BY DEF Inv, CallInv, CancelOrder, ghosts
<1>2. \E m \in LiveOrders : LiveOrders' = LiveOrders \ {m}
  BY CancelTakesOut
<1> QED BY <1>1, <1>2 DEF Abstract!Cancel

(* The live orders are indexed, one to an id, and stamped in the past. *)
LEMMA LiveFacts ==
    ASSUME Inv
    PROVE  /\ \A m \in LiveOrders : /\ m \in [id: Ids, side: Sides, price: Prices, qty: Nat \ {0}, stamp: Nat]
                                    /\ m.id \in order_index \ canceled /\ m.stamp = stamp[m.id]
           /\ \A m, n \in LiveOrders : m.id = n.id => m = n
           /\ \A x \in order_index : stamp[x] < clock
<1>1. ASSUME NEW m \in LiveOrders
      PROVE  /\ m \in [id: Ids, side: Sides, price: Prices, qty: Nat \ {0}, stamp: Nat]
             /\ m.id \in order_index \ canceled /\ m.stamp = stamp[m.id]
  <2>1. PICK s \in Sides, p \in Prices : \E i \in 1..Len(queue[s][p]) :
           /\ queue[s][p][i].id \in order_index \ canceled
           /\ m = Shown(s, p, queue[s][p][i], stamp[queue[s][p][i].id])
    BY LiveMember
  <2>2. PICK i \in 1..Len(queue[s][p]) :
           /\ queue[s][p][i].id \in order_index \ canceled
           /\ m = Shown(s, p, queue[s][p][i], stamp[queue[s][p][i].id])
    BY <2>1
  <2>3. PICK e : e = queue[s][p][i]
    OBVIOUS
  <2>4. e.id \in Ids /\ e.qty \in Nat \ {0} /\ stamp[e.id] \in Nat
    <3>1. queue[s][p] \in Seq(Entries)
      BY DEF Inv, TypeOK
    <3>2. e \in Entries
      BY <2>3, <3>1
    <3> QED BY <3>2 DEF Entries, Inv, TypeOK
  <2> QED BY <2>2, <2>3, <2>4 DEF Shown
<1>2. ASSUME NEW m \in LiveOrders, NEW n \in LiveOrders, m.id = n.id PROVE m = n
  <2>1. PICK s \in Sides, p \in Prices, t \in Sides, q \in Prices :
           /\ \E i \in 1..Len(queue[s][p]) : m = Shown(s, p, queue[s][p][i], stamp[queue[s][p][i].id])
           /\ \E i \in 1..Len(queue[t][q]) : n = Shown(t, q, queue[t][q][i], stamp[queue[t][q][i].id])
    BY LiveMember
  <2>2. PICK i \in 1..Len(queue[s][p]), j \in 1..Len(queue[t][q]) :
           /\ m = Shown(s, p, queue[s][p][i], stamp[queue[s][p][i].id])
           /\ n = Shown(t, q, queue[t][q][j], stamp[queue[t][q][j].id])
    BY <2>1
  <2>3. queue[s][p][i].id = queue[t][q][j].id
    BY <1>2, <2>2 DEF Shown
  <2>4. s = t /\ p = q /\ i = j
    BY <2>3, OnePlace DEF Inv
  <2> QED BY <2>2, <2>4
<1>3. ASSUME NEW x \in order_index PROVE stamp[x] < clock
  <2>1. PICK s \in Sides, p \in Prices : \E i \in 1..Len(queue[s][p]) : queue[s][p][i].id = x
    BY DEF Inv, IndexInv
  <2> QED BY <2>1 DEF Inv, StampInv
<1> QED BY <1>1, <1>2, <1>3

(* An order is accepted only under an id that no live order has. *)
LEMMA AcceptArrives == ASSUME Inv, NEW o \in Orders, Accept(o) PROVE Abstract!Arrive
<1>1. /\ incoming = NoOrder /\ incoming' = o /\ trades' = <<>> /\ o.id \notin order_index
      /\ UNCHANGED <<queue, order_index, canceled, stamp, clock>>
  BY DEF Inv, CallInv, Accept, book
<1>2. o.id \in Ids /\ o.qty \in Nat \ {0}
  BY QuantitiesAssumption DEF Orders
<1>3. o # NoOrder /\ o.qty > 0
  BY <1>2, NoIdAssumption DEF NoOrder
<1>4. LiveOrders' = LiveOrders
  BY <1>1 DEF LiveOrders, Dead
<1>5. ASSUME NEW m \in LiveOrders PROVE m.id \in order_index
  <2>1. PICK s \in Sides, p \in Prices : \E i \in 1..Len(queue[s][p]) :
           /\ queue[s][p][i].id \in order_index \ canceled
           /\ m = Shown(s, p, queue[s][p][i], stamp[queue[s][p][i].id])
    BY LiveMember
  <2> QED BY <2>1 DEF Shown
<1> QED BY <1>1, <1>3, <1>4, <1>5 DEF Abstract!Arrive

(* The book implements price-time priority: every step of its calls is a   *)
(* step of PriceTimeBook with the live entries as the orders, or changes   *)
(* nothing there.  Queues, lazy deletion and the trade limit do not show.  *)
THEOREM ImplementsPriceTimeHolds == Spec => ImplementsPriceTime
<1>1. Init => Abstract!BookInit
  <2> SUFFICES ASSUME Init PROVE Abstract!BookInit
    OBVIOUS
  <2>1. \A s \in Sides, p \in Prices : queue[s][p] = <<>>
    BY DEF Init
  <2>2. LiveOrders = {}
    <3>1. SUFFICES ASSUME NEW m \in LiveOrders PROVE FALSE
      OBVIOUS
    <3>2. PICK s \in Sides, p \in Prices : \E i \in 1..Len(queue[s][p]) :
             /\ queue[s][p][i].id \in order_index \ canceled
             /\ m = Shown(s, p, queue[s][p][i], stamp[queue[s][p][i].id])
      BY LiveMember
    <3> QED BY <2>1, <3>2
  <2> QED BY <2>2 DEF Init, Abstract!BookInit
<1>2. Inv /\ [Next]_vars => [Abstract!BookNext]_(Abstract!bookVars)
  <2> SUFFICES ASSUME Inv, [Next]_vars PROVE Abstract!BookNext \/ UNCHANGED Abstract!bookVars
    OBVIOUS
  <2>1. ASSUME UNCHANGED <<queue, order_index, canceled, stamp, incoming, trades, clock>>
        PROVE  UNCHANGED Abstract!bookVars
    BY <2>1 DEF Abstract!bookVars, LiveOrders, Dead
  <2>2. CASE StopMatching \/ EnterLevel \/ LeaveLevel \/ UNCHANGED vars
    BY <2>1, <2>2 DEF StopMatching, EnterLevel, LeaveLevel, vars, book, ghosts
  <2>3. CASE Sweep
    <3>1. UNCHANGED <<LiveOrders, incoming, trades, clock>>
      BY <2>3, SweepShows DEF Sweep, ghosts
    <3> QED BY <3>1 DEF Abstract!bookVars
  <2>4. CASE Refuse
    <3>1. /\ incoming = NoOrder /\ trades' = <<>>
          /\ UNCHANGED <<queue, order_index, canceled, stamp, incoming, clock>>
      BY <2>4 DEF Refuse, Inv, CallInv, book, ghosts
    <3>2. LiveOrders' = LiveOrders
      BY <3>1 DEF LiveOrders, Dead
    <3> QED BY <3>1, <3>2 DEF Abstract!BookNext, Abstract!Refuse
  <2>5. CASE Reset
    <3>1. /\ incoming = NoOrder /\ trades' = <<>> /\ UNCHANGED <<incoming, clock>>
          /\ \A s \in Sides, p \in Prices : queue'[s][p] = <<>>
      BY <2>5 DEF Reset, Inv, CallInv
    <3>2. LiveOrders' = {}
      <4>1. SUFFICES ASSUME NEW m \in LiveOrders' PROVE FALSE
        OBVIOUS
      <4>2. PICK s \in Sides, p \in Prices : \E i \in 1..Len(queue'[s][p]) :
               /\ queue'[s][p][i].id \in order_index' \ canceled'
               /\ m = Shown(s, p, queue'[s][p][i], stamp'[queue'[s][p][i].id])
        BY LiveMemberNext
      <4> QED BY <3>1, <4>2
    <3> QED BY <3>1, <3>2 DEF Abstract!BookNext, Abstract!Reset
  <2>6. CASE MatchFront
    BY <2>6, MatchFrontFills DEF Abstract!BookNext
  <2>7. CASE Rest
    BY <2>7, RestFinishes DEF Abstract!BookNext
  <2>8. ASSUME NEW o \in Orders, Accept(o) PROVE Abstract!BookNext
    BY <2>8, AcceptArrives DEF Abstract!BookNext
  <2>9. ASSUME NEW id \in Ids, CancelOrder(id) PROVE Abstract!BookNext
    BY <2>9, CancelCancels DEF Abstract!BookNext
  <2> QED BY <2>2, <2>3, <2>4, <2>5, <2>6, <2>7, <2>8, <2>9 DEF Next, MatchStep
<1> QED BY <1>1, <1>2, InductiveInvariant, PTL DEF Spec, ImplementsPriceTime, Abstract!BookSpec

----------------------------------------------------------------------------
(* Every call ends                                                         *)

(* The index and the maps hold finitely much, however many ids and prices  *)
(* there are.                                                              *)
FiniteInv == IsFiniteSet(order_index) /\ \A s \in Sides : IsFiniteSet(levels[s])

(* A step adds one order and one level at most. *)
LEMMA FiniteStep == Inv /\ FiniteInv /\ [Next]_vars => FiniteInv'
<1> SUFFICES ASSUME Inv, FiniteInv, [Next]_vars PROVE FiniteInv'
  OBVIOUS
<1>a. levels \in [Sides -> SUBSET Prices] /\ Facing \in Sides /\ incoming.side \in Sides
  BY DEF Inv, TypeOK, Facing, Opp, Sides
<1>b. IsFiniteSet(order_index) /\ \A s \in Sides : IsFiniteSet(levels[s])
  BY DEF FiniteInv
<1>c. ASSUME NEW s \in Sides, NEW new, IsFiniteSet(new), levels' = [levels EXCEPT ![s] = new]
      PROVE  \A t \in Sides : IsFiniteSet(levels'[t])
  <2>1. levels'[s] = new /\ \A t \in Sides : t # s => levels'[t] = levels[t]
    BY <1>a, <1>c
  <2> QED BY <1>b, <1>c, <2>1
<1>1. ASSUME UNCHANGED <<levels, order_index>> PROVE FiniteInv'
  BY <1>1 DEF FiniteInv
<1>2. CASE Refuse \/ StopMatching \/ EnterLevel \/ (\E o \in Orders : Accept(o)) \/ UNCHANGED vars
           \/ \E id \in Ids : CancelOrder(id)
  BY <1>1, <1>2 DEF Refuse, StopMatching, EnterLevel, Accept, CancelOrder, vars, book
<1>3. CASE Sweep
  <2>1. PICK x : levels' = levels /\ order_index' = order_index \ {x}
    BY <1>3 DEF Sweep
  <2>2. IsFiniteSet(order_index')
    BY <1>b, <2>1, FS_RemoveElement
  <2> QED BY <1>b, <2>1, <2>2 DEF FiniteInv
<1>4. CASE MatchFront
  <2>1. PICK x : levels' = levels /\ (order_index' = order_index \/ order_index' = order_index \ {x})
    BY <1>4 DEF MatchFront
  <2>2. IsFiniteSet(order_index \ {x})
    BY <1>b, FS_RemoveElement
  <2> QED BY <1>b, <2>1, <2>2 DEF FiniteInv
<1>5. CASE LeaveLevel
  <2>1. PICK new : new = levels[Facing] \ {Level}
    OBVIOUS
  <2>2. order_index' = order_index /\ (levels' = levels \/ levels' = [levels EXCEPT ![Facing] = new])
    BY <1>5, <2>1 DEF LeaveLevel
  <2>3. IsFiniteSet(new)
    BY <1>a, <1>b, <2>1, FS_RemoveElement
  <2>4. CASE levels' = [levels EXCEPT ![Facing] = new]
    BY <1>a, <1>b, <1>c, <2>2, <2>3, <2>4 DEF FiniteInv
  <2> QED BY <1>1, <2>2, <2>4
<1>6. CASE Rest
  <2>1. PICK s, new : s \in Sides /\ s = incoming.side /\ new = levels[s] \cup {incoming.price}
    BY <1>a
  <2>2. \/ UNCHANGED <<levels, order_index>>
        \/ /\ order_index' = order_index \cup {incoming.id}
           /\ levels' = [levels EXCEPT ![s] = new]
    BY <1>6, <2>1 DEF Rest
  <2>3. IsFiniteSet(new) /\ IsFiniteSet(order_index \cup {incoming.id})
    BY <1>b, <2>1, FS_AddElement
  <2>4. CASE order_index' = order_index \cup {incoming.id} /\ levels' = [levels EXCEPT ![s] = new]
    BY <1>c, <2>3, <2>4 DEF FiniteInv
  <2> QED BY <1>1, <2>2, <2>4
<1>7. CASE Reset
  BY <1>7, FS_EmptySet DEF Reset, FiniteInv
<1> QED BY <1>2, <1>3, <1>4, <1>5, <1>6, <1>7 DEF Next, MatchStep

(* What the incoming order faces is a finite number of entries and levels. *)
LEMMA FacingFinite ==
    ASSUME Inv, FiniteInv
    PROVE  /\ IsFiniteSet(FacingIds) /\ Cardinality(FacingIds) \in Nat
           /\ IsFiniteSet(levels[Facing]) /\ Cardinality(levels[Facing]) \in Nat
           /\ Facing \in Sides /\ incoming.qty \in Nat
<1>1. Facing \in Sides /\ incoming.qty \in Nat
  BY DEF Inv, TypeOK, Facing, Opp, Sides
<1>2. FacingIds \subseteq order_index
  <2>1. ASSUME NEW x \in FacingIds PROVE x \in order_index
    <3>1. PICK p \in Prices : x \in QueuedAt(Facing, p)
      BY DEF FacingIds
    <3>2. PICK i \in 1..Len(queue[Facing][p]) : x = queue[Facing][p][i].id
      BY <3>1 DEF QueuedAt
    <3> QED BY <1>1, <3>2 DEF Inv, IndexInv
  <2> QED BY <2>1
<1>3. IsFiniteSet(order_index) /\ IsFiniteSet(levels[Facing])
  BY <1>1 DEF FiniteInv
<1>4. IsFiniteSet(FacingIds)
  BY <1>2, <1>3, FS_Subset
<1> QED BY <1>1, <1>3, <1>4, FS_CardinalityType

(* A popped entry is one entry less to face. *)
LEMMA PopIds ==
    ASSUME TypeOK, IndexInv, NEW f \in Sides, NEW l \in Prices, queue[f][l] # <<>>, Pops(f, l),
           f = Facing, incoming'.side = incoming.side
    PROVE  FacingIds' \subseteq FacingIds \ {queue[f][l][1].id}
<1>0. 1 \in 1..Len(queue[f][l]) /\ Facing' = f
  BY TailFacts DEF TypeOK, Facing
<1>1. ASSUME NEW x \in FacingIds' PROVE x \in FacingIds /\ x # queue[f][l][1].id
  <2>1. PICK p \in Prices : x \in QueuedAt(Facing, p)'
    BY DEF FacingIds
  <2>2. PICK i \in 1..Len(queue'[f][p]) : x = queue'[f][p][i].id
    BY <1>0, <2>1 DEF QueuedAt
  <2>3. PICK j \in 1..Len(queue[f][p]) : j = Before(f, l, f, p, i) /\ queue'[f][p][i] = queue[f][p][j]
    <3>1. \A s \in Sides, r \in Prices : \A k \in 1..Len(queue'[s][r]) :
             /\ Before(f, l, s, r, k) \in 1..Len(queue[s][r])
             /\ queue'[s][r][k] = queue[s][r][Before(f, l, s, r, k)]
      BY PopFacts
    <3> QED BY <3>1
  <2>4. x = queue[f][p][j].id /\ (p # l \/ j # 1)
    BY <2>2, <2>3 DEF Before
  <2>5. x # queue[f][l][1].id
    BY <1>0, <2>4, OnePlace
  <2>6. x \in QueuedAt(f, p)
    BY <2>4 DEF QueuedAt
  <2> QED BY <2>5, <2>6 DEF FacingIds
<1> QED BY <1>1

(* An entry that is partly filled stays. *)
LEMMA SameFacing ==
    ASSUME \A p \in Prices : /\ Len(queue'[Facing][p]) = Len(queue[Facing][p])
                             /\ \A i \in 1..Len(queue[Facing][p]) :
                                   queue'[Facing][p][i].id = queue[Facing][p][i].id,
           incoming'.side = incoming.side
    PROVE  FacingIds' = FacingIds
<1>1. Facing' = Facing
  BY DEF Facing
<1>2. ASSUME NEW p \in Prices PROVE QueuedAt(Facing, p)' = QueuedAt(Facing, p)
  BY <1>1 DEF QueuedAt
<1> QED BY <1>2 DEF FacingIds

(* A trade takes the quantity q from the entry e at the front of a level.  *)
FrontTaken(f, l, e, q) ==
    /\ l \in Prices /\ queue[f][l] # <<>> /\ e = queue[f][l][1] /\ 1 \in 1..Len(queue[f][l])
    /\ q \in Nat \ {0} /\ q <= incoming.qty
    /\ incoming' = [incoming EXCEPT !.qty = incoming.qty - q]
    /\ \/ q = e.qty /\ Pops(f, l)
       \/ /\ e.qty - q \in Nat \ {0}
          /\ queue' = [queue EXCEPT ![f][l] = [queue[f][l] EXCEPT ![1].qty = e.qty - q]]

(* MatchFront takes it from the level the call is at.                      *)
LEMMA FrontIsTaken == ASSUME Inv, MatchFront PROVE \E l, e, q : FrontTaken(Facing, l, e, q)
<1>a. PICK f, l, e, q : f = Facing /\ l = Level /\ e = Head(Queue) /\ q = Min2(incoming.qty, e.qty)
  OBVIOUS
<1>b. /\ f \in Sides /\ l \in Prices /\ queue[f][l] # <<>> /\ 1 \in 1..Len(queue[f][l])
      /\ e = queue[f][l][1] /\ e \in Entries /\ e.id \in order_index \ canceled
      /\ q \in Nat \ {0} /\ q <= e.qty /\ q <= incoming.qty /\ incoming.id # e.id
      /\ trades' = Append(trades, [maker |-> e.id, taker |-> incoming.id, price |-> l, qty |-> q])
      /\ incoming' = [incoming EXCEPT !.qty = incoming.qty - q]
      /\ filled' = [i \in Ids |-> IF i \in {e.id, incoming.id} THEN filled[i] + q ELSE filled[i]]
      /\ \/ q = e.qty /\ Pops(f, l) /\ order_index' = order_index \ {e.id}
         \/ /\ q # e.qty /\ e.qty - q \in Nat \ {0} /\ order_index' = order_index
            /\ queue' = [queue EXCEPT ![f][l] = [queue[f][l] EXCEPT ![1].qty = e.qty - q]]
  BY <1>a, MatchFrontFacts
<1>c. FrontTaken(f, l, e, q)
  BY <1>b DEF FrontTaken
<1> QED BY <1>a, <1>c

(* A trade outweighs the place the loops of the call are at.               *)
LEMMA TradeWorks ==
    ASSUME NEW w \in Nat, NEW n \in Nat, NEW c \in Nat, NEW m \in Nat, m <= n,
           NEW q \in Nat \ {0}, q <= w, NEW r \in Nat, r <= 3
    PROVE  5 * (w - q + m + c) + r < 5 * (w + n + c) + 3
OBVIOUS

(* Every call ends: until it returns, each step leaves it less to do, in   *)
(* the sweep of canceled entries and at the trade limit too.               *)
LEMMA ProgressStep ==
    ASSUME Inv, FiniteInv, FiniteInv', [Next]_vars, pc # "idle"
    PROVE  pc' = "idle" \/ WorkLeft' < WorkLeft \/ UNCHANGED vars
<1>a. PICK f, n, c : f = Facing /\ n = Cardinality(FacingIds) /\ c = Cardinality(levels[Facing])
  OBVIOUS
<1>b. /\ IsFiniteSet(FacingIds) /\ IsFiniteSet(levels[f])
      /\ n \in Nat /\ c \in Nat /\ f \in Sides /\ incoming.qty \in Nat
  BY <1>a, FacingFinite
<1>c. WorkLeft = 5 * (incoming.qty + n + c) + PcRank
  BY <1>a DEF WorkLeft
<1>1. ASSUME incoming' = incoming, levels' = levels, FacingIds' \subseteq FacingIds,
             PcRank \in Nat, PcRank' \in Nat, PcRank' < PcRank
      PROVE  WorkLeft' < WorkLeft
  <2>1. Facing' = f
    BY <1>1, <1>a DEF Facing
  <2>2. PICK n2 \in Nat : n2 = Cardinality(FacingIds') /\ n2 <= n
    BY <1>1, <1>a, <1>b, FS_Subset, FS_CardinalityType
  <2>3. WorkLeft' = 5 * (incoming.qty + n2 + c) + PcRank'
    BY <1>1, <1>a, <2>1, <2>2 DEF WorkLeft
  <2>4. PICK r \in Nat, r2 \in Nat : r = PcRank /\ r2 = PcRank' /\ r2 < r
    BY <1>1
  <2> QED BY <1>b, <1>c, <2>2, <2>3, <2>4
<1>2. CASE StopMatching \/ EnterLevel
  <2>1. UNCHANGED <<queue, levels, incoming>> /\ incoming.qty \in Nat
    BY <1>2, <1>b DEF StopMatching, EnterLevel, book
  <2>2. PcRank \in Nat /\ PcRank' \in Nat /\ PcRank' < PcRank
    BY <1>2, <2>1 DEF StopMatching, EnterLevel, CanEnterLevel, PcRank
  <2>3. FacingIds' = FacingIds
    BY <2>1 DEF FacingIds, QueuedAt, Facing
  <2> QED BY <1>1, <2>1, <2>2, <2>3
<1>3. CASE Sweep
  <2>1. PICK l : l = Level
    OBVIOUS
  <2>2. /\ l \in Prices /\ queue[f][l] # <<>> /\ Pops(f, l)
        /\ incoming' = incoming /\ levels' = levels /\ pc' = pc
    <3>1. l \in Prices
      BY <1>3, <2>1, LevelFacts DEF Sweep, Inv
    <3> QED BY <1>3, <1>a, <2>1, <3>1 DEF Sweep, Queue, Pops
  <2>3. FacingIds' \subseteq FacingIds \ {queue[f][l][1].id}
    BY <1>a, <1>b, <2>2, PopIds DEF Inv
  <2>4. queue[f][l][1].id \in FacingIds
    <3>1. 1 \in 1..Len(queue[f][l])
      BY <1>b, <2>2, TailFacts DEF Inv, TypeOK
    <3>2. queue[f][l][1].id \in QueuedAt(f, l)
      BY <3>1 DEF QueuedAt
    <3> QED BY <1>a, <2>2, <3>2 DEF FacingIds
  <2>5. PICK n2 \in Nat : n2 = Cardinality(FacingIds') /\ n2 <= n - 1
    <3>1. PICK S : S = FacingIds \ {queue[f][l][1].id}
      OBVIOUS
    <3>2. IsFiniteSet(S) /\ Cardinality(S) = n - 1
      BY <1>a, <1>b, <2>4, <3>1, FS_RemoveElement
    <3>3. FacingIds' \subseteq S
      BY <2>3, <3>1
    <3> QED BY <3>2, <3>3, FS_Subset, FS_CardinalityType
  <2>6. PcRank = 3 /\ PcRank' = 3 /\ Facing' = f
    BY <1>3, <1>a, <2>2 DEF Sweep, PcRank, Facing
  <2>7. WorkLeft' = 5 * (incoming.qty + n2 + c) + 3
    BY <1>a, <2>2, <2>5, <2>6 DEF WorkLeft
  <2> QED BY <1>b, <1>c, <2>5, <2>6, <2>7
<1>4. CASE MatchFront
  <2>2. PICK l, e, q : FrontTaken(f, l, e, q)
    BY <1>4, <1>a, FrontIsTaken
  <2> USE DEF FrontTaken
  <2>3. levels' = levels /\ pc = "match" /\ pc' \in {"match", "rest"}
    BY <1>4 DEF MatchFront
  <2>4. incoming'.qty = incoming.qty - q /\ incoming'.side = incoming.side
    BY <2>2 DEF Inv, TypeOK
  <2>5. FacingIds' \subseteq FacingIds
    <3>1. CASE Pops(f, l)
      BY <1>a, <1>b, <2>2, <2>4, <3>1, PopIds DEF Inv
    <3>2. CASE /\ e.qty - q \in Nat \ {0}
               /\ queue' = [queue EXCEPT ![f][l] = [queue[f][l] EXCEPT ![1].qty = e.qty - q]]
      <4>1. PICK m \in Nat \ {0} : m = e.qty - q
        BY <3>2
      <4>2. PICK old, new : old = queue[f][l] /\ new = [old EXCEPT ![1].qty = m]
        OBVIOUS
      <4>3. old \in Seq(Entries) /\ old # <<>>
        BY <1>b, <2>2, <4>2 DEF Inv, TypeOK
      <4>4. /\ new \in Seq(Entries) /\ Len(new) = Len(old)
            /\ \A i \in 1..Len(old) : new[i].id = old[i].id
        BY <4>2, <4>3, FrontFacts, SMTT(60)
      <4>5. Puts(f, l, new)
        BY <3>2, <4>1, <4>2 DEF Puts
      <4>6. /\ queue'[f][l] = new
            /\ \A s \in Sides, p \in Prices : s # f \/ p # l => queue'[s][p] = queue[s][p]
        BY <1>b, <2>2, <4>4, <4>5, QueueUpdate DEF Inv
      <4>7. ASSUME NEW p \in Prices
            PROVE  /\ Len(queue'[f][p]) = Len(queue[f][p])
                   /\ \A i \in 1..Len(queue[f][p]) : queue'[f][p][i].id = queue[f][p][i].id
        <5>1. CASE p = l
          BY <4>2, <4>4, <4>6, <5>1
        <5>2. CASE p # l
          BY <1>b, <4>6, <5>2
        <5> QED BY <5>1, <5>2
      <4> QED BY <1>a, <2>4, <4>7, SameFacing
    <3> QED BY <2>2, <3>1, <3>2
  <2>6. PICK n2 \in Nat : n2 = Cardinality(FacingIds') /\ n2 <= n
    BY <1>a, <1>b, <2>5, FS_Subset, FS_CardinalityType
  <2>7. PcRank = 3 /\ PcRank' \in {0, 2, 3} /\ Facing' = f
    BY <1>4, <1>a, <2>3, <2>4 DEF MatchFront, PcRank, Facing
  <2>8. WorkLeft' = 5 * (incoming.qty - q + n2 + c) + PcRank'
    BY <1>a, <2>3, <2>4, <2>6, <2>7 DEF WorkLeft
  <2>9. PICK w \in Nat, r \in {0, 2, 3} : w = incoming.qty /\ r = PcRank'
    BY <1>b, <2>7
  <2>10. WorkLeft = 5 * (w + n + c) + 3 /\ WorkLeft' = 5 * (w - q + n2 + c) + r
    BY <1>c, <2>7, <2>8, <2>9
  <2>11. 5 * (w - q + n2 + c) + r < 5 * (w + n + c) + 3
    <3>1. q \in Nat \ {0} /\ q <= w /\ n2 \in Nat /\ n2 <= n /\ r \in Nat /\ r <= 3
      BY <2>2, <2>6, <2>9
    <3> QED BY <1>b, <2>9, <3>1, TradeWorks
  <2> QED BY <2>10, <2>11
<1>5. CASE LeaveLevel
  <2>1. PICK l : l = Level
    OBVIOUS
  <2>2. /\ UNCHANGED <<queue, incoming>> /\ pc = "match" /\ pc' = "level" /\ Facing' = f
        /\ incoming.qty = 0 \/ Queue = <<>>
        /\ levels' = IF Queue = <<>> THEN [levels EXCEPT ![f] = levels[f] \ {l}] ELSE levels
    BY <1>5, <1>a, <2>1 DEF LeaveLevel, Facing
  <2>3. FacingIds' = FacingIds
    BY <1>a, <2>2 DEF FacingIds, QueuedAt
  <2>4. CASE Queue # <<>>
    <3>1. PcRank = 2 /\ PcRank' = 1
      BY <1>b, <2>2, <2>4 DEF PcRank
    <3> QED BY <1>1, <2>2, <2>3, <2>4, <3>1
  <2>5. CASE Queue = <<>>
    <3>1. levels'[f] = levels[f] \ {l} /\ l \in levels[f]
      <4>1. l \in levels[f]
        BY <1>a, <2>1, <2>2, LevelFacts DEF Inv
      <4>2. levels \in [Sides -> SUBSET Prices]
        BY DEF Inv, TypeOK
      <4> QED BY <1>b, <2>2, <2>5, <4>1, <4>2
    <3>2. Cardinality(levels'[f]) = c - 1
      BY <1>a, <1>b, <3>1, FS_RemoveElement
    <3>3. /\ PcRank = 2 \/ PcRank = 3
          /\ PcRank' = 1 \/ PcRank' = 4
      BY <1>b, <2>2 DEF PcRank
    <3>4. WorkLeft' = 5 * (incoming.qty + n + (c - 1)) + PcRank'
      BY <1>a, <2>2, <2>3, <3>2 DEF WorkLeft
    <3> QED BY <1>b, <1>c, <3>3, <3>4
  <2> QED BY <2>4, <2>5
<1>6. CASE Rest
  BY <1>6 DEF Rest
<1>7. CASE Refuse \/ (\E o \in Orders : Accept(o)) \/ (\E id \in Ids : CancelOrder(id)) \/ Reset
  BY <1>7 DEF Refuse, Accept, CancelOrder, Reset
<1> QED BY <1>2, <1>3, <1>4, <1>5, <1>6, <1>7 DEF Next, MatchStep

(* No call loops for ever in match_buy or match_sell while it holds the    *)
(* book: for any book, limit and order, what is left to do decreases with  *)
(* every step until the call returns.                                      *)
THEOREM CallsProgressHolds == Spec => CallsProgress
<1>1. Init => FiniteInv
  BY FS_EmptySet DEF Init, FiniteInv
<1>2. Inv /\ FiniteInv /\ [Next]_vars => FiniteInv'
  BY FiniteStep
<1>3. Inv /\ FiniteInv /\ FiniteInv' /\ [Next]_vars => [pc # "idle" => pc' = "idle" \/ WorkLeft' < WorkLeft]_vars
  BY ProgressStep
<1> QED BY <1>1, <1>2, <1>3, InductiveInvariant, PTL DEF Spec, CallsProgress

============================================================================
