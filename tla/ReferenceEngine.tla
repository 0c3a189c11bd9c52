-------------------------- MODULE ReferenceEngine --------------------------
(***************************************************************************)
(* The matching engine of sandbox/strategy_bin.c, the reference contestant *)
(* that runs inside the microVM.                                           *)
(*                                                                         *)
(* Orders live in a table indexed by id; two unsorted lists name the       *)
(* active ones of each side.  Matching scans the facing list for the best  *)
(* price and, at that price, the lowest id.  Cancellation removes at once. *)
(* Orders whose id is not above every id seen before are ignored.  The     *)
(* process is single-threaded: one line of input is handled to its         *)
(* response before the next is read.                                       *)
(***************************************************************************)
EXTENDS Naturals, Sequences

CONSTANTS
    MaxId,            \* order ids are 1..MaxId
    Prices,
    Quantities,
    MaxOrdersC,       \* MAX_ORDERS (131072): ids from here on never rest
    MaxTradesC,       \* MAX_TRADES_PER_ORDER (128): trades beyond are not reported
    MaxCalls          \* bound: orders accepted

ASSUME MaxIdAssumption == MaxId \in Nat
ASSUME RefPricesAssumption == Prices \subseteq Nat \ {0}
ASSUME RefQuantitiesAssumption == Quantities \subseteq Nat \ {0}
ASSUME TablesAssumption == MaxOrdersC \in Nat /\ MaxTradesC \in Nat /\ MaxCalls \in Nat

VARIABLES
    order_index,             \* order_index[id]: price, qty, side and active
    active,                  \* active["buy"] = active_bids, active["sell"] = active_asks
    max_order_id_processed,
    pc,                      \* "idle", "match" or "insert"
    incoming,                \* the order being matched; its qty is remaining_qty
    trades,                  \* the trades of the response
    \* bookkeeping that no program variable holds
    clock,                   \* orders handled, bounded by MaxCalls
    stamp,                   \* stamp[id]: when the resting order arrived
    limits                   \* limits met: "trades" unreported, "ids" not rested

ghosts == <<clock, stamp, limits>>
vars == <<order_index, active, max_order_id_processed, pc, incoming, trades, ghosts>>

Ids == 1..MaxId
Sides == {"buy", "sell"}
Opp(side) == IF side = "buy" THEN "sell" ELSE "buy"
NoOrder == [id |-> 0, side |-> "buy", price |-> 0, qty |-> 0, market |-> TRUE]
Orders == [id: Ids, side: Sides, price: Prices, qty: Quantities, market: {FALSE}]
          \cup [id: Ids, side: Sides, price: {0}, qty: Quantities, market: {TRUE}]

EmptySlot == [price |-> 0, qty |-> 0, side |-> "buy", active |-> FALSE]

\* reset_order_book
Init ==
    /\ order_index = [i \in Ids |-> EmptySlot]
    /\ active = [s \in Sides |-> <<>>]
    /\ max_order_id_processed = 0
    /\ pc = "idle"
    /\ incoming = NoOrder
    /\ trades = <<>>
    /\ clock = 0
    /\ stamp = [i \in Ids |-> 0]
    /\ limits = {}

(* A new run has a new microVM, and with it a new process. *)
ResetOrderBook ==
    /\ pc = "idle"
    /\ order_index' = [i \in Ids |-> EmptySlot]
    /\ active' = [s \in Sides |-> <<>>]
    /\ max_order_id_processed' = 0
    /\ trades' = <<>>
    /\ stamp' = [i \in Ids |-> 0]
    /\ limits' = {}
    /\ UNCHANGED <<pc, incoming, clock>>

----------------------------------------------------------------------------
(* A limit or market line whose id is not new is answered with no trades. *)
IgnoreOld(o) ==
    /\ pc = "idle"
    /\ o.id <= max_order_id_processed
    /\ trades' = <<>>
    /\ UNCHANGED <<order_index, active, max_order_id_processed, pc, incoming, ghosts>>

Receive(o) ==
    /\ pc = "idle"
    /\ clock < MaxCalls
    /\ o.id > max_order_id_processed
    /\ max_order_id_processed' = o.id
    /\ incoming' = o
    /\ trades' = <<>>
    /\ pc' = "match"
    /\ UNCHANGED <<order_index, active, ghosts>>

(* The scan of the facing list. *)
Facing == Opp(incoming.side)
Listed(side) == {active[side][k] : k \in {j \in 1..Len(active[side]) :
                                            order_index[active[side][j]].active}}
\* Mutant of Preferred: at equal prices the newest order goes first.
PreferNewest(side, i, j) ==
    \/ IF side = "sell" THEN order_index[i].price < order_index[j].price
                        ELSE order_index[i].price > order_index[j].price
    \/ order_index[i].price = order_index[j].price /\ i > j

Preferred(side, i, j) ==
    \/ IF side = "sell" THEN order_index[i].price < order_index[j].price
                        ELSE order_index[i].price > order_index[j].price
    \/ order_index[i].price = order_index[j].price /\ i < j
Best(side) == CHOOSE i \in Listed(side) : \A j \in Listed(side) \ {i} : Preferred(side, i, j)

Crossing(o, p) == o.market \/ (IF o.side = "buy" THEN o.price >= p ELSE o.price <= p)

CanTrade ==
    /\ incoming.qty > 0
    /\ Listed(Facing) # {}
    /\ Crossing(incoming, order_index[Best(Facing)].price)

Min2(a, b) == IF a <= b THEN a ELSE b
\* Mutant of Without: the id is not removed.
KeepListed(list, id) == list

(* remove_bid, remove_ask: the entries after the first occurrence move up. *)
Without(list, id) ==
    LET at == {k \in 1..Len(list) : list[k] = id}
        first == CHOOSE k \in at : \A j \in at : k <= j
    IN  IF at = {} THEN list
        ELSE [k \in 1..(Len(list) - 1) |-> list[IF k < first THEN k ELSE k + 1]]

(* match_buy_order, match_sell_order: one turn of the loop.  Past the      *)
(* limit of reported trades matching goes on unreported.                   *)
MatchBest ==
    /\ pc = "match"
    /\ CanTrade
    /\ LET m == Best(Facing)
           q == Min2(incoming.qty, order_index[m].qty)
       IN  /\ trades' = IF Len(trades) < MaxTradesC
                        THEN Append(trades, [maker |-> m, taker |-> incoming.id,
                                             price |-> order_index[m].price, qty |-> q])
                        ELSE trades
           /\ incoming' = [incoming EXCEPT !.qty = @ - q]
           /\ order_index' = [order_index EXCEPT ![m].qty = @ - q,
                                                 ![m].active = (q # order_index[m].qty)]
           /\ active' = IF q = order_index[m].qty
                        THEN [active EXCEPT ![Facing] = Without(@, m)] ELSE active
    /\ limits' = IF Len(trades) < MaxTradesC THEN limits ELSE limits \cup {"trades"}
    /\ UNCHANGED <<max_order_id_processed, pc, clock, stamp>>

MatchDone ==
    /\ pc = "match"
    /\ ~CanTrade
    /\ pc' = "insert"
    /\ UNCHANGED <<order_index, active, max_order_id_processed, incoming, trades, ghosts>>

Remains == ~incoming.market /\ incoming.qty > 0

(* The rest of a limit order takes its slot of the table. *)
InsertRemaining ==
    /\ pc = "insert"
    /\ limits' = IF Remains /\ incoming.id >= MaxOrdersC THEN limits \cup {"ids"} ELSE limits
    /\ IF Remains /\ incoming.id < MaxOrdersC
       THEN /\ order_index' = [order_index EXCEPT ![incoming.id] =
                                 [price |-> incoming.price, qty |-> incoming.qty,
                                  side |-> incoming.side, active |-> TRUE]]
            /\ active' = [active EXCEPT ![incoming.side] = Append(@, incoming.id)]
            /\ stamp' = [stamp EXCEPT ![incoming.id] = clock]
       ELSE UNCHANGED <<order_index, active, stamp>>
    /\ pc' = "idle"
    /\ incoming' = NoOrder
    /\ clock' = clock + 1
    /\ UNCHANGED <<max_order_id_processed, trades>>

(* cancel_order; the response of a cancel has no trades. *)
CancelOrder(id) ==
    /\ pc = "idle"
    /\ trades' = <<>>
    /\ IF id < MaxOrdersC /\ order_index[id].active
       THEN /\ order_index' = [order_index EXCEPT ![id].active = FALSE]
            /\ active' = [active EXCEPT ![order_index[id].side] = Without(@, id)]
       ELSE UNCHANGED <<order_index, active>>
    /\ UNCHANGED <<max_order_id_processed, pc, incoming, ghosts>>

Next ==
    \/ \E o \in Orders : IgnoreOld(o)
    \/ \E o \in Orders : Receive(o)
    \/ MatchBest
    \/ MatchDone
    \/ InsertRemaining
    \/ \E id \in Ids : CancelOrder(id)
    \/ ResetOrderBook

Spec == Init /\ [][Next]_vars

----------------------------------------------------------------------------
(* Properties                                                              *)

(* The lists and the table agree: every listed id is active on that side,  *)
(* listed once, and every active id is listed.  remove_bid and remove_ask  *)
(* take out only the first occurrence, so a second one would let a filled  *)
(* order come back when its slot is reused.                                *)
ListsMatchTable ==
    /\ \A s \in Sides : \A i, j \in 1..Len(active[s]) : active[s][i] = active[s][j] => i = j
    /\ \A id \in Ids, s \in Sides :
        (\E k \in 1..Len(active[s]) : active[s][k] = id) <=>
        (order_index[id].active /\ order_index[id].side = s)

ActiveOrders ==
    {[id |-> i, side |-> order_index[i].side, price |-> order_index[i].price,
      qty |-> order_index[i].qty, stamp |-> stamp[i]] : i \in {j \in Ids : order_index[j].active}}

(* Until it meets a limit, the reference engine implements price-time      *)
(* priority: ids above every earlier id arrive in the order in which they  *)
(* were generated, so the lowest id at a price is the oldest.              *)
Abstract == INSTANCE PriceTimeBook
                WITH live <- ActiveOrders, taker <- incoming, fills <- trades,
                     MaxTrades <- MaxTradesC
ImplementsPriceTime ==
    Abstract!BookInit /\ [][limits' # {} \/ Abstract!BookNext]_<<Abstract!bookVars, limits>>
============================================================================
