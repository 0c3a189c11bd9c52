--------------------------- MODULE PriceTimeBook ---------------------------
(***************************************************************************)
(* What a matching engine of this system promises: a limit order book with *)
(* price-time priority.  The book is a set of live orders, each stamped    *)
(* with its arrival; a canceled order is gone at once; an incoming order   *)
(* trades with the best crossing order until nothing crosses, and what is  *)
(* left of a limit order joins the book.  There are no queues, no index    *)
(* and no lazy deletion here.                                              *)
(***************************************************************************)
EXTENDS Naturals, Sequences

CONSTANTS
    NoOrder,    \* value of taker between two submissions
    MaxTrades   \* number of fills after which an engine may stop matching

VARIABLES
    live,   \* resting orders: records with id, side, price, qty, stamp
    taker,  \* the order being matched, or NoOrder
    fills,  \* the trades of the current, or else the last, call
    clock   \* the stamp of the next order to rest

bookVars == <<live, taker, fills, clock>>

Opposite(side) == IF side = "buy" THEN "sell" ELSE "buy"

\* An order that faces orders of this side would rather trade at p than at q.
BetterPrice(side, p, q) == IF side = "sell" THEN p < q ELSE p > q

Crosses(o, price) ==
    o.market \/ (IF o.side = "buy" THEN o.price >= price ELSE o.price <= price)

Candidates == {m \in live : m.side # taker.side /\ Crosses(taker, m.price)}
Ahead(m, n) ==
    \/ BetterPrice(m.side, m.price, n.price)
    \/ m.price = n.price /\ m.stamp < n.stamp

Least(a, b) == IF a <= b THEN a ELSE b

Resting(o, s) == [id |-> o.id, side |-> o.side, price |-> o.price, qty |-> o.qty, stamp |-> s]

----------------------------------------------------------------------------
BookInit ==
    /\ live = {}
    /\ taker = NoOrder
    /\ fills = <<>>
    /\ clock = 0

(* An order arrives whose id no live order has. *)
Arrive ==
    /\ taker = NoOrder
    /\ taker' # NoOrder
    /\ taker'.qty > 0
    /\ \A m \in live : m.id # taker'.id
    /\ fills' = <<>>
    /\ UNCHANGED <<live, clock>>

(* A submission is turned away, or there is nothing to cancel. *)
Refuse ==
    /\ taker = NoOrder
    /\ fills' = <<>>
    /\ UNCHANGED <<live, taker, clock>>

(* The incoming order trades with the first of the orders that cross it,   *)
(* at the resting order's price, for the smaller of the two quantities.    *)
Fill ==
    /\ taker # NoOrder
    /\ taker.qty > 0
    /\ \E m \in Candidates :
        LET q == Least(taker.qty, m.qty)
        IN  /\ \A n \in Candidates \ {m} : Ahead(m, n)
            /\ fills' = Append(fills, [maker |-> m.id, taker |-> taker.id,
                                       price |-> m.price, qty |-> q])
            /\ taker' = [taker EXCEPT !.qty = @ - q]
            /\ live' = (live \ {m}) \cup
                       (IF q = m.qty THEN {} ELSE {[m EXCEPT !.qty = @ - q]})
    /\ UNCHANGED clock

(* Matching ends when the order is filled, nothing crosses it, or the      *)
(* number of trades has reached the limit.                                 *)
Finish ==
    /\ taker # NoOrder
    /\ taker.qty = 0 \/ Candidates = {} \/ Len(fills) >= MaxTrades
    /\ live' = live \cup (IF ~taker.market /\ taker.qty > 0 THEN {Resting(taker, clock)} ELSE {})
    /\ taker' = NoOrder
    /\ clock' = clock + 1
    /\ UNCHANGED fills

(* A cancel takes effect at once and is answered without trades. *)
Cancel ==
    /\ taker = NoOrder
    /\ \E m \in live : live' = live \ {m}
    /\ fills' = <<>>
    /\ UNCHANGED <<taker, clock>>

Reset ==
    /\ taker = NoOrder
    /\ live' = {}
    /\ fills' = <<>>
    /\ UNCHANGED <<taker, clock>>

BookNext == Arrive \/ Refuse \/ Fill \/ Finish \/ Cancel \/ Reset

BookSpec == BookInit /\ [][BookNext]_bookVars
============================================================================
