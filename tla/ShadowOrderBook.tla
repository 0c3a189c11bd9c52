-------------------------- MODULE ShadowOrderBook --------------------------
(***************************************************************************)
(* The OrderBook of services/shadow-engine, which decides for every order  *)
(* of a benchmark which trades the contestant's engine had to report.      *)
(*                                                                         *)
(* Each side is a sorted map from price to a FIFO queue.  Cancellation is  *)
(* lazy: it sets a flag in order_index, and the entry stays in its queue   *)
(* until matching sweeps the front of that level.  A call runs under the   *)
(* book's mutex; its loops are modelled step by step, between an accepted  *)
(* submission and the step that rests what is left.                        *)
(*                                                                         *)
(* order_index maps an id to its price, side and flag; only the flag is    *)
(* ever read, so it is abstracted to the set of ids it holds and the set   *)
(* of those that are flagged.                                              *)
(***************************************************************************)
EXTENDS Naturals, Sequences, FiniteSets

CONSTANTS
    Ids,        \* order ids (nonzero u64)
    Prices,     \* limit prices
    Quantities, \* quantities submitted
    MaxTrades,  \* MAX_TRADES_PER_MATCH (1024)
    NoId,       \* the id of no order
    MaxOrders   \* bound: submissions accepted

ASSUME PricesAssumption == Prices \subseteq Nat \ {0}
ASSUME QuantitiesAssumption == Quantities \subseteq Nat \ {0}
ASSUME MaxTradesAssumption == MaxTrades \in Nat \ {0}
ASSUME NoIdAssumption == NoId \notin Ids
ASSUME MaxOrdersAssumption == MaxOrders \in Nat

VARIABLES
    levels,      \* levels[side]: the keys of bids or asks
    queue,       \* queue[side][price]: the orders of a level, oldest first
    order_index, \* ids in order_index
    canceled,    \* ids in order_index whose is_canceled is set
    pc,          \* where the current call is, "idle" when there is none
    incoming,    \* the order being matched, or NoOrder
    trades,      \* trades in the answer to the current, or else the last, call
    \* bookkeeping that no program variable holds
    clock,       \* submissions completed, bounded by MaxOrders
    stamp,       \* stamp[id]: when the order in the book with that id arrived
    submitted,   \* submitted[id]: quantity of the last accepted order with that id
    filled,      \* filled[id]: how much of it has been traded
    capHit       \* has a match stopped at MaxTrades?

book == <<levels, queue, order_index, canceled>>
ghosts == <<clock, stamp, submitted, filled, capHit>>
vars == <<book, pc, incoming, trades, ghosts>>

Sides == {"buy", "sell"}
Opp(side) == IF side = "buy" THEN "sell" ELSE "buy"
NoOrder == [id |-> NoId, side |-> "buy", price |-> 0, qty |-> 0, market |-> TRUE]
Orders == [id: Ids, side: Sides, price: Prices, qty: Quantities, market: {FALSE}]
          \cup [id: Ids, side: Sides, price: {0}, qty: Quantities, market: {TRUE}]
Entries == [id: Ids, qty: Nat \ {0}]

Init ==
    /\ levels = [s \in Sides |-> {}]
    /\ queue = [s \in Sides |-> [p \in Prices |-> <<>>]]
    /\ order_index = {}
    /\ canceled = {}
    /\ pc = "idle"
    /\ incoming = NoOrder
    /\ trades = <<>>
    /\ clock = 0
    /\ stamp = [i \in Ids |-> 0]
    /\ submitted = [i \in Ids |-> 0]
    /\ filled = [i \in Ids |-> 0]
    /\ capHit = FALSE

----------------------------------------------------------------------------
(* submit_order: the checks before matching                                *)

(* A zero id, a limit order with a zero price, a zero quantity, or an id   *)
(* that order_index holds, flagged or not: no trades, nothing changes.     *)
(* Nor does a cancel of an id that is not in the index or already flagged. *)
Refuse ==
    /\ pc = "idle"
    /\ trades' = <<>>
    /\ UNCHANGED <<book, pc, incoming, ghosts>>

Accept(o) ==
    /\ pc = "idle"
    /\ clock < MaxOrders
    /\ o.id \notin order_index
    /\ incoming' = o
    /\ trades' = <<>>
    /\ pc' = "level"
    /\ submitted' = [submitted EXCEPT ![o.id] = o.qty]
    /\ filled' = [filled EXCEPT ![o.id] = 0]
    /\ UNCHANGED <<book, clock, stamp, capHit>>

----------------------------------------------------------------------------
(* match_buy and match_sell                                                *)

Facing == Opp(incoming.side)

\* Mutant of BestPrice: the maps are walked from the wrong end.
WorstPrice(side) ==
    CHOOSE p \in levels[side] :
        \A q \in levels[side] : IF side = "sell" THEN p >= q ELSE p <= q

\* first_key_value: lowest ask, highest bid
BestPrice(side) ==
    CHOOSE p \in levels[side] :
        \A q \in levels[side] : IF side = "sell" THEN p <= q ELSE p >= q

Crossing(o, p) == o.market \/ (IF o.side = "buy" THEN o.price >= p ELSE o.price <= p)

CanEnterLevel ==
    /\ incoming.qty > 0
    /\ levels[Facing] # {}
    /\ Crossing(incoming, BestPrice(Facing))

(* The outer loop ends: filled, the facing side is empty, or its best      *)
(* price does not cross.                                                   *)
StopMatching ==
    /\ pc = "level"
    /\ ~CanEnterLevel
    /\ pc' = "rest"
    /\ UNCHANGED <<book, incoming, trades, ghosts>>

EnterLevel ==
    /\ pc = "level"
    /\ CanEnterLevel
    /\ pc' = "match"
    /\ UNCHANGED <<book, incoming, trades, ghosts>>

Level == BestPrice(Facing)
Queue == queue[Facing][Level]

\* Mutant of Dead: the flag is not looked at.
GoneFromIndex(id) == id \notin order_index

\* index.get(&o.id).map_or(true, |e| e.is_canceled)
Dead(id) == id \notin order_index \/ id \in canceled

\* Mutant of Sweep: the entry is popped and stays in the index.
SweepQueueOnly ==
    /\ pc = "match"
    /\ incoming.qty > 0
    /\ Queue # <<>>
    /\ Dead(Head(Queue).id)
    /\ queue' = [queue EXCEPT ![Facing][Level] = Tail(@)]
    /\ UNCHANGED <<levels, order_index, canceled, pc, incoming, trades, ghosts>>

(* Lazy deletion: a dead entry at the front is popped and leaves the index. *)
Sweep ==
    /\ pc = "match"
    /\ incoming.qty > 0
    /\ Queue # <<>>
    /\ Dead(Head(Queue).id)
    /\ queue' = [queue EXCEPT ![Facing][Level] = Tail(@)]
    /\ order_index' = order_index \ {Head(Queue).id}
    /\ canceled' = canceled \ {Head(Queue).id}
    /\ UNCHANGED <<levels, pc, incoming, trades, ghosts>>

Min2(a, b) == IF a <= b THEN a ELSE b

(* The incoming order trades with the front of the queue; a filled front   *)
(* leaves the queue and the index.  At MaxTrades the function returns      *)
(* without looking at the level again.                                     *)
MatchFront ==
    /\ pc = "match"
    /\ incoming.qty > 0
    /\ Queue # <<>>
    /\ ~Dead(Head(Queue).id)
    /\ LET front == Head(Queue)
           q == Min2(incoming.qty, front.qty)
       IN  /\ trades' = Append(trades, [maker |-> front.id, taker |-> incoming.id,
                                        price |-> Level, qty |-> q])
           /\ incoming' = [incoming EXCEPT !.qty = @ - q]
           /\ queue' = [queue EXCEPT ![Facing][Level] =
                            IF q = front.qty THEN Tail(@)
                            ELSE [@ EXCEPT ![1].qty = front.qty - q]]
           /\ order_index' = IF q = front.qty THEN order_index \ {front.id} ELSE order_index
           /\ filled' = [i \in Ids |-> IF i \in {front.id, incoming.id}
                                       THEN filled[i] + q ELSE filled[i]]
    /\ pc' = IF Len(trades') >= MaxTrades THEN "rest" ELSE "match"
    /\ capHit' = (capHit \/ Len(trades') >= MaxTrades)
    /\ UNCHANGED <<levels, canceled, clock, stamp, submitted>>

\* Mutant of LeaveLevel: an empty level is kept.
KeepLevel ==
    /\ pc = "match"
    /\ incoming.qty = 0 \/ Queue = <<>>
    /\ pc' = "level"
    /\ UNCHANGED <<book, incoming, trades, ghosts>>

(* The inner loop ends with the order filled or the queue empty; an empty  *)
(* level is removed.                                                       *)
LeaveLevel ==
    /\ pc = "match"
    /\ incoming.qty = 0 \/ Queue = <<>>
    /\ levels' = IF Queue = <<>> THEN [levels EXCEPT ![Facing] = @ \ {Level}] ELSE levels
    /\ pc' = "level"
    /\ UNCHANGED <<queue, order_index, canceled, incoming, trades, ghosts>>

----------------------------------------------------------------------------
(* submit_order: what is left of a limit order rests at the end of its     *)
(* level.                                                                  *)

\* Mutant of Rest: the order rests with the quantity submitted, not what is left.
RestInFull ==
    /\ pc = "rest"
    /\ LET rests == ~incoming.market /\ incoming.qty > 0
           entry == [id |-> incoming.id, qty |-> submitted[incoming.id]]
       IN  /\ order_index' = order_index \cup (IF rests THEN {incoming.id} ELSE {})
           /\ levels' = [levels EXCEPT ![incoming.side] = @ \cup (IF rests THEN {incoming.price} ELSE {})]
           /\ queue' = IF rests THEN [queue EXCEPT ![incoming.side][incoming.price] = Append(@, entry)]
                       ELSE queue
           /\ stamp' = IF rests THEN [stamp EXCEPT ![incoming.id] = clock] ELSE stamp
    /\ pc' = "idle"
    /\ incoming' = NoOrder
    /\ clock' = clock + 1
    /\ UNCHANGED <<canceled, trades, submitted, filled, capHit>>

Rest ==
    /\ pc = "rest"
    /\ IF ~incoming.market /\ incoming.qty > 0
       THEN /\ order_index' = order_index \cup {incoming.id}
            /\ levels' = [levels EXCEPT ![incoming.side] = @ \cup {incoming.price}]
            /\ queue' = [queue EXCEPT ![incoming.side][incoming.price] =
                            Append(@, [id |-> incoming.id, qty |-> incoming.qty])]
            /\ stamp' = [stamp EXCEPT ![incoming.id] = clock]
       ELSE UNCHANGED <<order_index, levels, queue, stamp>>
    /\ pc' = "idle"
    /\ incoming' = NoOrder
    /\ clock' = clock + 1
    /\ UNCHANGED <<canceled, trades, submitted, filled, capHit>>

(* cancel_order flags an entry once. *)
CancelOrder(id) ==
    /\ pc = "idle"
    /\ id \in order_index \ canceled
    /\ canceled' = canceled \cup {id}
    /\ trades' = <<>>
    /\ UNCHANGED <<levels, queue, order_index, pc, incoming, ghosts>>

Reset ==
    /\ pc = "idle"
    /\ levels' = [s \in Sides |-> {}]
    /\ queue' = [s \in Sides |-> [p \in Prices |-> <<>>]]
    /\ order_index' = {}
    /\ canceled' = {}
    /\ trades' = <<>>
    /\ stamp' = [i \in Ids |-> 0]
    /\ submitted' = [i \in Ids |-> 0]
    /\ filled' = [i \in Ids |-> 0]
    /\ capHit' = FALSE
    /\ UNCHANGED <<pc, incoming, clock>>

----------------------------------------------------------------------------
MatchStep ==
    \/ StopMatching
    \/ EnterLevel
    \/ Sweep
    \/ MatchFront
    \/ LeaveLevel
    \/ Rest

Next ==
    \/ Refuse
    \/ \E o \in Orders : Accept(o)
    \/ MatchStep
    \/ \E id \in Ids : CancelOrder(id)
    \/ Reset

Spec == Init /\ [][Next]_vars

----------------------------------------------------------------------------
(* Properties                                                              *)

QueuedAt(s, p) == {queue[s][p][i].id : i \in 1..Len(queue[s][p])}
Queued == UNION {QueuedAt(s, p) : s \in Sides, p \in Prices}

(* Every variable has its type. *)
TypeOK ==
    /\ levels \in [Sides -> SUBSET Prices]
    /\ queue \in [Sides -> [Prices -> Seq(Entries)]]
    /\ order_index \subseteq Ids
    /\ canceled \subseteq Ids
    /\ pc \in {"idle", "level", "match", "rest"}
    /\ incoming \in [id: Ids \cup {NoId}, side: Sides, price: Prices \cup {0},
                     qty: Nat, market: BOOLEAN]
    /\ trades \in Seq([maker: Ids, taker: Ids, price: Prices, qty: Nat \ {0}])
    /\ clock \in Nat
    /\ stamp \in [Ids -> Nat]
    /\ submitted \in [Ids -> Nat]
    /\ filled \in [Ids -> Nat]
    /\ capHit \in BOOLEAN

(* order_index and the queues always agree: an id is indexed exactly when  *)
(* it is queued, in one place only, and only indexed ids are flagged.  The *)
(* lazy sweep, the pop of a filled order and the duplicate check depend on *)
(* it; an id queued twice would make a cancel hit the wrong entry.         *)
IndexMatchesQueues ==
    /\ order_index = Queued
    /\ canceled \subseteq order_index
    /\ \A s, t \in Sides, p, q \in Prices :
        \A i \in 1..Len(queue[s][p]), j \in 1..Len(queue[t][q]) :
            queue[s][p][i].id = queue[t][q][j].id => s = t /\ p = q /\ i = j

(* A queue that holds anything is reachable through its map, and unless a  *)
(* match stopped at the trade limit no call leaves an empty level behind   *)
(* (best_bid and best_ask report the first key).                           *)
LevelsMatchQueues ==
    \A s \in Sides, p \in Prices :
        /\ queue[s][p] # <<>> => p \in levels[s]
        /\ pc = "idle" /\ ~capHit /\ p \in levels[s] => queue[s][p] # <<>>

LivePrices(s) == {p \in Prices : \E i \in 1..Len(queue[s][p]) : ~Dead(queue[s][p][i].id)}

(* Between calls no live bid is at or above a live ask, as long as no      *)
(* match stopped at the trade limit and rested a crossing remainder.       *)
NotCrossed ==
    pc = "idle" /\ ~capHit =>
        \A b \in LivePrices("buy"), a \in LivePrices("sell") : b < a

(* The book is consistent in all these respects at every step of a call. *)
BookConsistent == TypeOK /\ IndexMatchesQueues /\ LevelsMatchQueues /\ NotCrossed

(* Quantity is conserved across all the calls of an order's life: what     *)
(* rests, or is still being matched, is what was submitted less what was   *)
(* traded.                                                                 *)
QuantityConserved ==
    /\ \A s \in Sides, p \in Prices : \A i \in 1..Len(queue[s][p]) :
        LET e == queue[s][p][i] IN e.qty + filled[e.id] = submitted[e.id]
    /\ pc # "idle" => incoming.qty + filled[incoming.id] = submitted[incoming.id]

(* How much work a call has left: what it may still fill, the entries (as  *)
(* many as their ids) and levels it faces, and how far the current turn of *)
(* the loops has come.                                                     *)
PcRank == CASE pc = "level" -> IF incoming.qty > 0 THEN 4 ELSE 1
            [] pc = "match" -> IF incoming.qty > 0 THEN 3 ELSE 2
            [] OTHER -> 0
FacingIds == UNION {QueuedAt(Facing, p) : p \in Prices}
WorkLeft ==
    5 * (incoming.qty + Cardinality(FacingIds) + Cardinality(levels[Facing])) + PcRank

(* Every call ends: each step of the nested loops, at the trade limit and  *)
(* over levels of dead entries too, leaves strictly less work, down to the *)
(* step that rests the order and returns.                                  *)
CallsProgress == [][pc # "idle" => pc' = "idle" \/ WorkLeft' < WorkLeft]_vars

----------------------------------------------------------------------------
(* Refinement                                                              *)

LiveOrders ==
    UNION {{[id |-> queue[s][p][i].id, side |-> s, price |-> p,
             qty |-> queue[s][p][i].qty, stamp |-> stamp[queue[s][p][i].id]]
            : i \in {j \in 1..Len(queue[s][p]) : ~Dead(queue[s][p][j].id)}}
           : s \in Sides, p \in Prices}

(* The lazy book implements price-time priority: with the live entries as  *)
(* its orders, every trade is with the best of them and every cancel takes *)
(* effect at once.                                                         *)
Abstract == INSTANCE PriceTimeBook WITH live <- LiveOrders, taker <- incoming, fills <- trades
ImplementsPriceTime == Abstract!BookSpec
============================================================================
