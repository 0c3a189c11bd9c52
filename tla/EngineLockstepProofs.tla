----------------------- MODULE EngineLockstepProofs ------------------------
(***************************************************************************)
(* Proofs about ReferenceEngine, for any number of ids, any prices and     *)
(* quantities and any limits, and about the run of both engines that       *)
(* EngineLockstep describes.                                               *)
(***************************************************************************)
EXTENDS EngineLockstep, WellFoundedInduction, TLAPS

----------------------------------------------------------------------------
(* The inductive invariant of the reference engine                         *)

Slot == [price: Prices \cup {0}, qty: Nat, side: Sides, active: BOOLEAN]

TypeInv ==
    /\ order_index \in [Ids -> Slot]
    /\ active \in [Sides -> Seq(Ids)]
    /\ max_order_id_processed \in Nat
    /\ pc \in {"idle", "match", "insert"}
    /\ incoming \in [id: Ids \cup {0}, side: Sides, price: Prices \cup {0}, qty: Nat, market: BOOLEAN]
    /\ trades \in Seq([maker: Ids, taker: Ids, price: Prices, qty: Nat \ {0}])
    /\ clock \in Nat
    /\ stamp \in [Ids -> Nat]
    /\ limits \subseteq {"trades", "ids"}

(* A call works on the newest id, and rests what crosses nothing. *)
CallInv ==
    /\ pc = "idle" => incoming = NoOrder
    /\ pc # "idle" => /\ incoming.id \in Ids /\ incoming.id = max_order_id_processed
                      /\ incoming.market \/ incoming.price \in Prices
    /\ pc = "insert" => ~CanTrade

(* The active orders have earlier ids, and a quantity at a price. *)
SlotInv ==
    \A i \in Ids : order_index[i].active =>
        /\ order_index[i].price \in Prices /\ order_index[i].qty > 0
        /\ i <= max_order_id_processed /\ i < MaxOrdersC
        /\ pc # "idle" => i # incoming.id

(* They arrived in the order of their ids. *)
ArrivalInv ==
    \A i \in Ids : order_index[i].active =>
        /\ stamp[i] < clock
        /\ \A j \in Ids : order_index[j].active /\ i < j => stamp[i] < stamp[j]

EInv == TypeInv /\ ListsMatchTable /\ CallInv /\ SlotInv /\ ArrivalInv

----------------------------------------------------------------------------
(* Lemmas about the operators                                              *)

(* A set of natural numbers has a least element. *)
LEMMA LeastNat ==
    ASSUME NEW T \in SUBSET Nat, T # {}
    PROVE  \E x \in T : \A y \in T : x <= y
<1>1. PICK x \in T : \A y \in T : ~(<<y, x>> \in OpToRel(<, Nat))
  BY WFMin, NatLessThanWellFounded
<1>2. \A y \in T : ~(y < x)
  BY <1>1 DEF OpToRel
<1> QED BY <1>2

(* The order of preference: the scan of a list finds one best order. *)
IsBest(side, T, i) == i \in T /\ \A j \in T \ {i} : Preferred(side, i, j)

(* Preference is a strict total order of the orders by price and arrival. *)
LEMMA PreferenceFacts ==
    ASSUME TypeInv, NEW side, NEW i \in Ids, NEW j \in Ids
    PROVE  /\ order_index[i].price \in Nat
           /\ ~Preferred(side, i, i)
           /\ i # j => Preferred(side, i, j) \/ Preferred(side, j, i)
           /\ \A k \in Ids : Preferred(side, i, j) /\ Preferred(side, j, k) => Preferred(side, i, k)
<1>1. \A k \in Ids : order_index[k].price \in Nat /\ k \in Nat
  <2>1. \A x \in Prices \cup {0} : x \in Nat
    BY RefPricesAssumption
  <2>2. \A k \in Ids : order_index[k].price \in Prices \cup {0} /\ k \in Nat
    BY MaxIdAssumption DEF TypeInv, Slot, Ids
  <2> QED BY <2>1, <2>2
<1> QED BY <1>1 DEF Preferred

(* Every set of ids has a best one. *)
LEMMA HasBest ==
    ASSUME TypeInv, NEW side, NEW T \in SUBSET Ids, T # {}
    PROVE  \E i \in T : IsBest(side, T, i)
<1> DEFINE Bad == {n \in Nat : \E U \in SUBSET Ids :
                      U \subseteq 1..n /\ U # {} /\ ~\E i \in U : IsBest(side, U, i)}
<1>1. Bad = {}
  <2>1. SUFFICES ASSUME Bad # {} PROVE FALSE
    OBVIOUS
  <2>2. PICK n \in Bad : \A k \in Bad : n <= k
    BY <2>1, LeastNat
  <2>3. PICK U \in SUBSET Ids : U \subseteq 1..n /\ U # {} /\ ~\E i \in U : IsBest(side, U, i)
    OBVIOUS
  <2>4. n \in Nat /\ n # 0
    <3>1. 1..0 = {}
      OBVIOUS
    <3> QED BY <2>3, <3>1
  <2>5. n - 1 \in Nat /\ n - 1 \notin Bad
    BY <2>2, <2>4
  <2>6. U \ {n} \in SUBSET Ids /\ U \ {n} \subseteq 1..(n - 1)
    BY <2>3, <2>4
  <2>7. U \ {n} = {} \/ \E i \in U \ {n} : IsBest(side, U \ {n}, i)
    BY <2>5, <2>6
  <2>8. CASE n \notin U
    <3>1. U \ {n} = U
      BY <2>8
    <3> QED BY <2>3, <2>7, <3>1
  <2>9. CASE n \in U /\ U \ {n} = {}
    BY <2>3, <2>9 DEF IsBest
  <2>10. CASE n \in U /\ \E i \in U \ {n} : IsBest(side, U \ {n}, i)
    <3>1. PICK i \in U \ {n} : IsBest(side, U \ {n}, i)
      BY <2>10
    <3>2. i \in Ids /\ n \in Ids /\ i # n
      BY <2>10
    <3>3. CASE Preferred(side, i, n)
      <4>1. IsBest(side, U, i)
        BY <3>1, <3>3 DEF IsBest
      <4> QED BY <2>3, <4>1
    <3>4. CASE Preferred(side, n, i)
      <4>1. ASSUME NEW j \in U \ {n} PROVE Preferred(side, n, j)
        <5>1. j = i \/ Preferred(side, i, j)
          BY <3>1 DEF IsBest
        <5>2. j \in Ids
          OBVIOUS
        <5> QED BY <3>2, <3>4, <5>1, <5>2, PreferenceFacts
      <4>2. IsBest(side, U, n)
        BY <2>10, <4>1 DEF IsBest
      <4> QED BY <2>3, <2>10, <4>2
    <3> QED BY <3>2, <3>3, <3>4, PreferenceFacts
  <2> QED BY <2>7, <2>8, <2>9, <2>10
<1>2. MaxId \in Nat /\ T \subseteq 1..MaxId
  BY MaxIdAssumption DEF Ids
<1>3. MaxId \notin Bad
  BY <1>1
<1> QED BY <1>2, <1>3

(* What the scan of a list that holds an order finds. *)
LEMMA BestFacts ==
    ASSUME TypeInv, NEW side \in Sides, Listed(side) # {}
    PROVE  Best(side) \in Listed(side) /\ \A j \in Listed(side) \ {Best(side)} : Preferred(side, Best(side), j)
<1>1. Listed(side) \in SUBSET Ids
  BY DEF Listed, TypeInv
<1>2. \E i \in Listed(side) : IsBest(side, Listed(side), i)
  BY <1>1, HasBest
<1>3. \E i \in Listed(side) : \A j \in Listed(side) \ {i} : Preferred(side, i, j)
  BY <1>2 DEF IsBest
<1> QED BY <1>3 DEF Best

Elems(list) == {list[k] : k \in 1..Len(list)}

(* A list without repetitions, after an id was taken out. *)
LEMMA WithoutFacts ==
    ASSUME NEW T, NEW list \in Seq(T), NEW id,
           \A i, j \in 1..Len(list) : list[i] = list[j] => i = j
    PROVE  /\ Without(list, id) \in Seq(T)
           /\ \A i, j \in 1..Len(Without(list, id)) :
                 Without(list, id)[i] = Without(list, id)[j] => i = j
           /\ Elems(Without(list, id)) = Elems(list) \ {id}
<1>1. CASE \A k \in 1..Len(list) : list[k] # id
  <2>1. Without(list, id) = list
    BY <1>1 DEF Without
  <2> QED BY <1>1, <2>1 DEF Elems
<1>2. CASE \E k \in 1..Len(list) : list[k] = id
  <2>1. PICK n \in 1..Len(list) : list[n] = id
    BY <1>2
  <2>2. PICK at : at = {k \in 1..Len(list) : list[k] = id}
    OBVIOUS
  <2>3. at = {n} /\ (CHOOSE k \in at : \A j \in at : k <= j) = n
    BY <2>1, <2>2
  <2>4. PICK new : new = [k \in 1..(Len(list) - 1) |-> list[IF k < n THEN k ELSE k + 1]]
    OBVIOUS
  <2>5. Without(list, id) = new
    <3>1. PICK first : first = (CHOOSE k \in at : \A j \in at : k <= j)
      OBVIOUS
    <3>2. Without(list, id) = IF at = {} THEN list
                              ELSE [k \in 1..(Len(list) - 1) |-> list[IF k < first THEN k ELSE k + 1]]
      BY <2>2, <3>1, Zenon DEF Without
    <3> QED BY <2>3, <2>4, <3>1, <3>2
  <2>6. Len(list) \in Nat /\ Len(list) >= 1
    BY <2>1
  <2>7. \A k \in 1..(Len(list) - 1) : /\ (IF k < n THEN k ELSE k + 1) \in 1..Len(list)
                                      /\ (IF k < n THEN k ELSE k + 1) # n
    BY <2>6
  <2>8. new \in Seq(T) /\ Len(new) = Len(list) - 1
    <3>1. \A k \in 1..(Len(list) - 1) : list[IF k < n THEN k ELSE k + 1] \in T
      BY <2>7
    <3>2. Len(list) - 1 \in Nat
      BY <2>6
    <3>3. new \in [1..(Len(list) - 1) -> T]
      BY <2>4, <3>1
    <3> QED BY <3>2, <3>3
  <2>9. \A i, j \in 1..Len(new) : new[i] = new[j] => i = j
    <3>1. SUFFICES ASSUME NEW i \in 1..Len(new), NEW j \in 1..Len(new), new[i] = new[j] PROVE i = j
      OBVIOUS
    <3>2. (IF i < n THEN i ELSE i + 1) = (IF j < n THEN j ELSE j + 1)
      BY <2>4, <2>7, <2>8, <3>1
    <3> QED BY <2>6, <2>8, <3>2
  <2>10. ASSUME NEW k \in 1..Len(new) PROVE new[k] # id /\ \E j \in 1..Len(list) : list[j] = new[k]
    BY <2>1, <2>4, <2>7, <2>8
  <2>11. ASSUME NEW j \in 1..Len(list), list[j] # id PROVE \E k \in 1..Len(new) : new[k] = list[j]
    <3>1. CASE j < n
      BY <2>4, <2>6, <2>8, <3>1
    <3>2. CASE j > n
      <4>1. j - 1 \in 1..Len(new) /\ ~(j - 1 < n)
        BY <2>6, <2>8, <3>2
      <4>2. new[j - 1] = list[j]
        BY <2>4, <2>6, <2>8, <4>1
      <4> QED BY <4>1, <4>2
    <3> QED BY <2>1, <2>11, <3>1, <3>2
  <2>12. Elems(new) = Elems(list) \ {id}
    <3>1. Elems(new) \subseteq Elems(list) \ {id}
      BY <2>10 DEF Elems
    <3>2. Elems(list) \ {id} \subseteq Elems(new)
      BY <2>11 DEF Elems
    <3> QED BY <3>1, <3>2
  <2> QED BY <2>5, <2>8, <2>9, <2>12
<1> QED BY <1>1, <1>2

(* The lists name exactly the active orders of their side. *)
LEMMA ListedIs ==
    ASSUME TypeInv, ListsMatchTable, NEW s \in Sides, NEW i
    PROVE  i \in Listed(s) <=> i \in Ids /\ order_index[i].active /\ order_index[i].side = s
<1>1. ASSUME i \in Listed(s) PROVE i \in Ids /\ order_index[i].active /\ order_index[i].side = s
  <2>1. PICK k \in 1..Len(active[s]) : i = active[s][k]
    BY <1>1 DEF Listed
  <2>2. i \in Ids
    BY <2>1 DEF TypeInv
  <2> QED BY <2>1, <2>2 DEF ListsMatchTable
<1>2. ASSUME i \in Ids, order_index[i].active, order_index[i].side = s PROVE i \in Listed(s)
  <2>1. PICK k \in 1..Len(active[s]) : active[s][k] = i
    BY <1>2 DEF ListsMatchTable
  <2> QED BY <1>2, <2>1 DEF Listed
<1> QED BY <1>1, <1>2

(* The scan reads the table, the lists and the order being matched. *)
LEMMA SameScan ==
    ASSUME UNCHANGED <<order_index, active, incoming>>
    PROVE  CanTrade' <=> CanTrade
<1>1. Facing' = Facing /\ \A s : Listed(s)' = Listed(s)
  BY DEF Facing, Listed
<1>2. \A s, i, j : Preferred(s, i, j)' <=> Preferred(s, i, j)
  BY DEF Preferred
<1>3. \A s : Best(s)' = Best(s)
  BY <1>1, <1>2 DEF Best
<1> QED BY <1>1, <1>3 DEF CanTrade, Crossing

(* An order is a line the fleet writes. *)
LEMMA OrderFacts ==
    ASSUME NEW o \in Orders
    PROVE  /\ o.id \in Ids /\ o.side \in Sides /\ o.price \in Prices \cup {0} /\ o.qty \in Nat \ {0}
           /\ o.market \in BOOLEAN /\ (o.market \/ o.price \in Prices) /\ o.id \in Nat
           /\ o \in [id: Ids \cup {0}, side: Sides, price: Prices \cup {0}, qty: Nat, market: BOOLEAN]
<1>1. \A x \in Quantities : x \in Nat \ {0}
  BY RefQuantitiesAssumption
<1>2. CASE o \in [id: Ids, side: Sides, price: Prices, qty: Quantities, market: {FALSE}]
  <2>1. /\ o.id \in Ids /\ o.side \in Sides /\ o.price \in Prices /\ o.qty \in Quantities /\ o.market = FALSE
        /\ o = [id |-> o.id, side |-> o.side, price |-> o.price, qty |-> o.qty, market |-> o.market]
    BY <1>2
  <2>2. o.id \in Nat /\ o.qty \in Nat \ {0}
    BY <1>1, <2>1, MaxIdAssumption DEF Ids
  <2> QED BY <2>1, <2>2
<1>3. CASE o \in [id: Ids, side: Sides, price: {0}, qty: Quantities, market: {TRUE}]
  <2>1. /\ o.id \in Ids /\ o.side \in Sides /\ o.price \in {0} /\ o.qty \in Quantities /\ o.market = TRUE
        /\ o = [id |-> o.id, side |-> o.side, price |-> o.price, qty |-> o.qty, market |-> o.market]
    BY <1>3
  <2>2. o.id \in Nat /\ o.qty \in Nat \ {0}
    BY <1>1, <2>1, MaxIdAssumption DEF Ids
  <2> QED BY <2>1, <2>2
<1> QED BY <1>2, <1>3 DEF Orders

----------------------------------------------------------------------------
(* One step of each action                                                 *)

(* What a step that leaves the orders and the call alone keeps. *)
LEMMA SameBook ==
    ASSUME EInv, UNCHANGED <<order_index, active, max_order_id_processed, pc, incoming, ghosts>>,
           trades' = trades \/ trades' = <<>>
    PROVE  EInv'
<1> USE DEF EInv, ghosts
<1>1. TypeInv'
  <2>1. trades' \in Seq([maker: Ids, taker: Ids, price: Prices, qty: Nat \ {0}])
    <3>1. CASE trades' = trades
      BY <3>1 DEF TypeInv
    <3>2. CASE trades' = <<>>
      BY <3>2
    <3> QED BY <3>1, <3>2
  <2> QED BY <2>1 DEF TypeInv
<1>2. ListsMatchTable'
  BY DEF ListsMatchTable
<1>3. CallInv'
  BY SameScan DEF CallInv
<1>4. SlotInv'
  BY DEF SlotInv
<1>5. ArrivalInv'
  BY DEF ArrivalInv
<1> QED BY <1>1, <1>2, <1>3, <1>4, <1>5

(* An order that is taken has a new id. *)
LEMMA ReceiveStep == ASSUME EInv, NEW o \in Orders, Receive(o) PROVE EInv'
<1> USE DEF EInv, Receive, ghosts
<1>0. /\ o.id \in Ids /\ o.side \in Sides /\ o.price \in Prices \cup {0} /\ o.qty \in Nat
      /\ o.market \in BOOLEAN /\ (o.market \/ o.price \in Prices) /\ o.id \in Nat
      /\ o \in [id: Ids \cup {0}, side: Sides, price: Prices \cup {0}, qty: Nat, market: BOOLEAN]
  BY OrderFacts
<1>1. TypeInv'
  BY <1>0 DEF TypeInv
<1>2. ListsMatchTable'
  BY DEF ListsMatchTable
<1>3. CallInv'
  BY <1>0 DEF CallInv
<1>4. SlotInv'
  <2>1. ASSUME NEW i \in Ids, order_index[i].active PROVE i <= o.id /\ i # o.id
    <3>1. i <= max_order_id_processed /\ max_order_id_processed < o.id
      BY <2>1 DEF SlotInv
    <3>2. i \in Nat /\ max_order_id_processed \in Nat
      BY MaxIdAssumption DEF TypeInv, Ids
    <3> QED BY <1>0, <3>1, <3>2
  <2> QED BY <2>1 DEF SlotInv
<1>5. ArrivalInv'
  BY DEF ArrivalInv
<1> QED BY <1>1, <1>2, <1>3, <1>4, <1>5

(* The loop ends and nothing that is left could trade. *)
LEMMA MatchDoneStep == ASSUME EInv, MatchDone PROVE EInv'
<1> USE DEF EInv, MatchDone, ghosts
<1>1. TypeInv'
  BY DEF TypeInv
<1>2. ListsMatchTable'
  BY DEF ListsMatchTable
<1>3. CallInv'
  BY SameScan DEF CallInv
<1>4. SlotInv'
  BY DEF SlotInv
<1>5. ArrivalInv'
  BY DEF ArrivalInv
<1> QED BY <1>1, <1>2, <1>3, <1>4, <1>5

(* What a turn of the loop does. *)
LEMMA MatchBestFacts ==
    ASSUME EInv, MatchBest, NEW f, NEW m, NEW q,
           f = Facing, m = Best(f), q = Min2(incoming.qty, order_index[m].qty)
    PROVE  /\ f \in Sides /\ m \in Ids /\ m \in Listed(f)
           /\ order_index[m].active /\ order_index[m].side = f /\ order_index[m].price \in Prices
           /\ q \in Nat \ {0} /\ q <= incoming.qty /\ q <= order_index[m].qty
           /\ order_index[m].qty \in Nat /\ incoming.qty \in Nat /\ incoming.id \in Ids
           /\ order_index' \in [Ids -> Slot]
           /\ \A i \in Ids : i # m => order_index'[i] = order_index[i]
           /\ order_index'[m].price = order_index[m].price /\ order_index'[m].side = order_index[m].side
           /\ order_index'[m].qty = order_index[m].qty - q
           /\ order_index'[m].active <=> q # order_index[m].qty
           /\ active' = IF q = order_index[m].qty
                        THEN [active EXCEPT ![f] = Without(@, m)] ELSE active
           /\ incoming' = [incoming EXCEPT !.qty = @ - q]
<1> USE DEF EInv
<1>1. f \in Sides
  BY DEF TypeInv, Facing, Opp, Sides
<1>2. m \in Listed(f)
  BY <1>1, BestFacts DEF MatchBest, CanTrade
<1>3. m \in Ids /\ order_index[m].active /\ order_index[m].side = f
  BY <1>1, <1>2, ListedIs
<1>4. order_index[m].price \in Prices /\ order_index[m].qty > 0
  BY <1>3 DEF SlotInv
<1>5. /\ order_index[m] \in Slot /\ order_index[m].qty \in Nat /\ incoming.qty \in Nat
      /\ incoming.qty > 0 /\ incoming.id \in Ids
  BY <1>3 DEF TypeInv, Slot, MatchBest, CanTrade, CallInv
<1>6. q \in Nat \ {0} /\ q <= incoming.qty /\ q <= order_index[m].qty /\ order_index[m].qty - q \in Nat
  BY <1>4, <1>5 DEF Min2
<1>7. PICK still \in BOOLEAN : still = (q # order_index[m].qty)
  OBVIOUS
<1>8. PICK slot : slot = [order_index[m] EXCEPT !.qty = order_index[m].qty - q, !.active = still]
  OBVIOUS
<1>9. /\ slot \in Slot /\ slot.price = order_index[m].price /\ slot.side = order_index[m].side
      /\ slot.qty = order_index[m].qty - q /\ slot.active = still
  BY <1>5, <1>6, <1>8 DEF Slot
<1>10. order_index' = [order_index EXCEPT ![m] = slot]
  BY <1>7, <1>8 DEF MatchBest
<1>11. /\ order_index' \in [Ids -> Slot] /\ order_index'[m] = slot
       /\ \A i \in Ids : i # m => order_index'[i] = order_index[i]
  BY <1>3, <1>9, <1>10 DEF TypeInv
<1>12. /\ active' = IF q = order_index[m].qty
                    THEN [active EXCEPT ![f] = Without(@, m)] ELSE active
       /\ incoming' = [incoming EXCEPT !.qty = @ - q]
  BY DEF MatchBest
<1> QED BY <1>1, <1>2, <1>3, <1>4, <1>5, <1>6, <1>7, <1>9, <1>11, <1>12

(* A filled order leaves the table and its list together. *)
LEMMA TakenOut ==
    ASSUME TypeInv, ListsMatchTable, NEW f \in Sides, NEW m \in Ids, order_index[m].side = f,
           active' = [active EXCEPT ![f] = Without(@, m)],
           \A i \in Ids : i # m => order_index'[i] = order_index[i],
           ~order_index'[m].active
    PROVE  ListsMatchTable' /\ active' \in [Sides -> Seq(Ids)]
<1>1. active[f] \in Seq(Ids) /\ \A i, j \in 1..Len(active[f]) : active[f][i] = active[f][j] => i = j
  BY DEF TypeInv, ListsMatchTable
<1>2. PICK new : new = Without(active[f], m)
  OBVIOUS
<1>3. /\ new \in Seq(Ids)
      /\ \A i, j \in 1..Len(new) : new[i] = new[j] => i = j
  BY <1>1, <1>2, WithoutFacts
<1>4. \A x : (\E k \in 1..Len(new) : new[k] = x) <=> x # m /\ \E k \in 1..Len(active[f]) : active[f][k] = x
  <2>1. Elems(new) = Elems(active[f]) \ {m}
    BY <1>1, <1>2, WithoutFacts
  <2>2. \A list, x : x \in Elems(list) <=> \E k \in 1..Len(list) : list[k] = x
    BY DEF Elems
  <2>3. \A x : x \in Elems(new) <=> x # m /\ x \in Elems(active[f])
    BY <2>1
  <2> QED BY <2>2, <2>3
<1>5. /\ active' \in [Sides -> Seq(Ids)] /\ active'[f] = new
      /\ \A s \in Sides : s # f => active'[s] = active[s]
  BY <1>2, <1>3 DEF TypeInv
<1>6. ASSUME NEW s \in Sides
      PROVE  \A i, j \in 1..Len(active'[s]) : active'[s][i] = active'[s][j] => i = j
  <2>1. CASE s = f
    BY <1>3, <1>5, <2>1
  <2>2. CASE s # f
    BY <1>5, <2>2 DEF ListsMatchTable
  <2> QED BY <2>1, <2>2
<1>7. ASSUME NEW id \in Ids, NEW s \in Sides
      PROVE  (\E k \in 1..Len(active'[s]) : active'[s][k] = id) <=>
             (order_index'[id].active /\ order_index'[id].side = s)
  <2>0. (\E k \in 1..Len(active[s]) : active[s][k] = id) <=>
        (order_index[id].active /\ order_index[id].side = s)
    BY DEF ListsMatchTable
  <2>1. CASE s = f
    BY <1>4, <1>5, <2>0, <2>1, SMTT(60)
  <2>2. CASE s # f
    <3>1. active'[s] = active[s]
      BY <1>5, <2>2
    <3>2. CASE id = m
      BY <2>0, <2>2, <3>1, <3>2
    <3>3. CASE id # m
      BY <2>0, <3>1, <3>3
    <3> QED BY <3>2, <3>3
  <2> QED BY <2>1, <2>2
<1> QED BY <1>5, <1>6, <1>7 DEF ListsMatchTable

(* A trade takes the same quantity off both orders; a filled one is gone. *)
LEMMA MatchBestStep == ASSUME EInv, MatchBest PROVE EInv'
<1>a. PICK f, m, q : f = Facing /\ m = Best(f) /\ q = Min2(incoming.qty, order_index[m].qty)
  OBVIOUS
<1>b. /\ f \in Sides /\ m \in Ids /\ order_index[m].side = f
      /\ order_index[m].active /\ order_index[m].price \in Prices
      /\ q \in Nat \ {0} /\ q <= incoming.qty /\ q <= order_index[m].qty
      /\ order_index[m].qty \in Nat /\ incoming.qty \in Nat /\ incoming.id \in Ids
  BY <1>a, MatchBestFacts
<1>c. /\ order_index' \in [Ids -> Slot]
      /\ \A i \in Ids : i # m => order_index'[i] = order_index[i]
      /\ order_index'[m].price = order_index[m].price /\ order_index'[m].side = order_index[m].side
      /\ order_index'[m].qty = order_index[m].qty - q
      /\ order_index'[m].active <=> q # order_index[m].qty
      /\ active' = IF q = order_index[m].qty
                   THEN [active EXCEPT ![f] = Without(@, m)] ELSE active
      /\ incoming' = [incoming EXCEPT !.qty = @ - q]
  BY <1>a, MatchBestFacts
<1>d. /\ pc = "match" /\ UNCHANGED <<max_order_id_processed, pc, clock, stamp>>
      /\ limits' = limits \/ limits' = limits \cup {"trades"}
  BY DEF MatchBest
<1>e. TypeInv /\ ListsMatchTable /\ CallInv /\ SlotInv /\ ArrivalInv
  BY DEF EInv
<1>f. /\ incoming' \in [id: Ids \cup {0}, side: Sides, price: Prices \cup {0}, qty: Nat, market: BOOLEAN]
      /\ incoming'.id = incoming.id /\ incoming'.price = incoming.price /\ incoming'.market = incoming.market
  <2>1. incoming \in [id: Ids \cup {0}, side: Sides, price: Prices \cup {0}, qty: Nat, market: BOOLEAN]
    BY <1>e DEF TypeInv
  <2>2. PICK rest \in Nat : rest = incoming.qty - q
    BY <1>b
  <2>3. incoming' = [incoming EXCEPT !.qty = rest]
    BY <1>c, <2>2
  <2> QED BY <2>1, <2>2, <2>3
<1>1. ListsMatchTable' /\ active' \in [Sides -> Seq(Ids)]
  <2>1. CASE q = order_index[m].qty
    BY <1>b, <1>c, <1>e, <2>1, TakenOut
  <2>2. CASE q # order_index[m].qty
    <3>1. active' = active /\ \A i \in Ids : /\ order_index'[i].active <=> order_index[i].active
                                             /\ order_index'[i].side = order_index[i].side
      BY <1>b, <1>c, <2>2
    <3>2. \A s \in Sides : \A i, j \in 1..Len(active'[s]) : active'[s][i] = active'[s][j] => i = j
      BY <1>e, <3>1 DEF ListsMatchTable
    <3>3. ASSUME NEW id \in Ids, NEW s \in Sides
          PROVE  (\E k \in 1..Len(active'[s]) : active'[s][k] = id) <=>
                 (order_index'[id].active /\ order_index'[id].side = s)
      <4>1. (\E k \in 1..Len(active[s]) : active[s][k] = id) <=>
            (order_index[id].active /\ order_index[id].side = s)
        BY <1>e DEF ListsMatchTable
      <4> QED BY <3>1, <4>1
    <3>4. active' \in [Sides -> Seq(Ids)]
      BY <1>e, <3>1 DEF TypeInv
    <3> QED BY <3>2, <3>3, <3>4 DEF ListsMatchTable
  <2> QED BY <2>1, <2>2
<1>2. TypeInv'
  <2>1. trades' \in Seq([maker: Ids, taker: Ids, price: Prices, qty: Nat \ {0}])
    <3>1. [maker |-> m, taker |-> incoming.id, price |-> order_index[m].price, qty |-> q]
             \in [maker: Ids, taker: Ids, price: Prices, qty: Nat \ {0}]
      BY <1>b
    <3>2. \/ trades' = trades
          \/ trades' = Append(trades, [maker |-> m, taker |-> incoming.id, price |-> order_index[m].price, qty |-> q])
      BY <1>a DEF MatchBest
    <3>3. PICK t : t = [maker |-> m, taker |-> incoming.id, price |-> order_index[m].price, qty |-> q]
      OBVIOUS
    <3>4. trades \in Seq([maker: Ids, taker: Ids, price: Prices, qty: Nat \ {0}])
      BY <1>e DEF TypeInv
    <3>5. trades' = trades \/ trades' = Append(trades, t)
      BY <3>2, <3>3
    <3>6. PICK T : T = [maker: Ids, taker: Ids, price: Prices, qty: Nat \ {0}]
      OBVIOUS
    <3>7. t \in T /\ trades \in Seq(T)
      BY <3>1, <3>3, <3>4, <3>6
    <3>8. trades' \in Seq(T)
      BY <3>5, <3>7
    <3> QED BY <3>6, <3>8
  <2>2. limits' \subseteq {"trades", "ids"}
    BY <1>d, <1>e DEF TypeInv
  <2> QED BY <1>1, <1>c, <1>d, <1>e, <1>f, <2>1, <2>2 DEF TypeInv
<1>3. CallInv'
  BY <1>d, <1>e, <1>f DEF CallInv
<1>4. SlotInv'
  <2>1. ASSUME NEW i \in Ids, order_index'[i].active
        PROVE  /\ order_index'[i].price \in Prices /\ order_index'[i].qty > 0
               /\ i <= max_order_id_processed' /\ i < MaxOrdersC /\ (pc' # "idle" => i # incoming'.id)
    <3>1. CASE i = m
      <4>1. order_index'[m].qty > 0
        BY <1>b, <1>c, <2>1, <3>1
      <4> QED BY <1>b, <1>c, <1>d, <1>e, <1>f, <3>1, <4>1 DEF SlotInv
    <3>2. CASE i # m
      BY <1>c, <1>d, <1>e, <1>f, <2>1, <3>2 DEF SlotInv
    <3> QED BY <3>1, <3>2
  <2> QED BY <2>1 DEF SlotInv
<1>5. ArrivalInv'
  <2>1. \A i \in Ids : order_index'[i].active => order_index[i].active
    BY <1>b, <1>c
  <2> QED BY <1>d, <1>e, <2>1 DEF ArrivalInv
<1> QED BY <1>1, <1>2, <1>3, <1>4, <1>5 DEF EInv

(* What is left takes the slot of its id, the newest. *)
LEMMA InsertStep == ASSUME EInv, InsertRemaining PROVE EInv'
<1>a. /\ pc = "insert" /\ pc' = "idle" /\ incoming' = NoOrder /\ clock' = clock + 1
      /\ UNCHANGED <<max_order_id_processed, trades>>
      /\ limits' = limits \/ limits' = limits \cup {"ids"}
  BY DEF InsertRemaining
<1>b. TypeInv /\ ListsMatchTable /\ CallInv /\ SlotInv /\ ArrivalInv
  BY DEF EInv
<1>c. PICK n : n = incoming.id
  OBVIOUS
<1>d. n \in Ids /\ n = max_order_id_processed /\ incoming.side \in Sides /\ clock \in Nat
  BY <1>a, <1>b, <1>c DEF CallInv, TypeInv
<1>e. NoOrder \in [id: Ids \cup {0}, side: Sides, price: Prices \cup {0}, qty: Nat, market: BOOLEAN]
  BY DEF NoOrder, Sides
<1>f. limits' \subseteq {"trades", "ids"}
  BY <1>a, <1>b DEF TypeInv
<1>1. CASE Remains /\ n < MaxOrdersC
  <2>a. PICK slot : slot = [price |-> incoming.price, qty |-> incoming.qty, side |-> incoming.side, active |-> TRUE]
    OBVIOUS
  <2>b. /\ slot \in Slot /\ slot.price \in Prices /\ slot.qty > 0 /\ slot.side = incoming.side /\ slot.active = TRUE
    BY <1>1, <1>a, <1>b, <2>a DEF Slot, Remains, TypeInv, CallInv
  <2>c. /\ order_index' = [order_index EXCEPT ![n] = slot]
        /\ active' = [active EXCEPT ![incoming.side] = Append(@, n)]
        /\ stamp' = [stamp EXCEPT ![n] = clock]
    BY <1>1, <1>c, <2>a DEF InsertRemaining
  <2>d. /\ order_index' \in [Ids -> Slot] /\ order_index'[n] = slot
        /\ \A i \in Ids : i # n => order_index'[i] = order_index[i]
        /\ stamp' \in [Ids -> Nat] /\ stamp'[n] = clock
        /\ \A i \in Ids : i # n => stamp'[i] = stamp[i]
    BY <1>b, <1>d, <2>b, <2>c DEF TypeInv
  <2>e. ~order_index[n].active
    BY <1>a, <1>b, <1>c, <1>d DEF SlotInv
  <2>f. PICK f \in Sides : f = incoming.side
    BY <1>d
  <2>g. PICK new : new = Append(active[f], n)
    OBVIOUS
  <2>h. /\ active[f] \in Seq(Ids) /\ new \in Seq(Ids) /\ Len(new) = Len(active[f]) + 1 /\ Len(active[f]) \in Nat
        /\ new[Len(active[f]) + 1] = n /\ \A i \in 1..Len(active[f]) : new[i] = active[f][i]
    BY <1>b, <1>d, <2>g DEF TypeInv
  <2>i. active' \in [Sides -> Seq(Ids)] /\ active'[f] = new /\ \A s \in Sides : s # f => active'[s] = active[s]
    BY <1>b, <2>c, <2>f, <2>g, <2>h DEF TypeInv
  <2>j. \A s \in Sides : \A k \in 1..Len(active[s]) : active[s][k] # n
    BY <1>b, <1>d, <2>e DEF ListsMatchTable
  <2>1. TypeInv'
    BY <1>a, <1>b, <1>e, <1>f, <1>d, <2>d, <2>i DEF TypeInv
  <2>2. ListsMatchTable'
    <3>1. ASSUME NEW s \in Sides, NEW i \in 1..Len(active'[s]), NEW j \in 1..Len(active'[s]),
                 active'[s][i] = active'[s][j]
          PROVE  i = j
      <4>1. CASE s # f
        BY <1>b, <2>i, <3>1, <4>1 DEF ListsMatchTable
      <4>2. CASE s = f
        <5>1. \A k \in 1..Len(new) : k \in 1..Len(active[f]) \/ k = Len(active[f]) + 1
          BY <2>h
        <5>2. \A k, l \in 1..Len(active[f]) : active[f][k] = active[f][l] => k = l
          BY <1>b DEF ListsMatchTable
        <5> QED BY <2>h, <2>i, <2>j, <3>1, <4>2, <5>1, <5>2
      <4> QED BY <4>1, <4>2
    <3>2. ASSUME NEW id \in Ids, NEW s \in Sides
          PROVE  (\E k \in 1..Len(active'[s]) : active'[s][k] = id) <=>
                 (order_index'[id].active /\ order_index'[id].side = s)
      <4>0. (\E k \in 1..Len(active[s]) : active[s][k] = id) <=>
            (order_index[id].active /\ order_index[id].side = s)
        BY <1>b DEF ListsMatchTable
      <4>1. CASE s # f
        <5>1. active'[s] = active[s]
          BY <2>i, <4>1
        <5>2. CASE id = n
          BY <2>b, <2>d, <2>f, <2>j, <4>1, <5>1, <5>2
        <5>3. CASE id # n
          BY <2>d, <4>0, <5>1, <5>3
        <5> QED BY <5>2, <5>3
      <4>2. CASE s = f
        <5>1. (\E k \in 1..Len(new) : new[k] = id) <=> (id = n \/ \E k \in 1..Len(active[f]) : active[f][k] = id)
          <6>1. \A k \in 1..Len(new) : k \in 1..Len(active[f]) \/ k = Len(active[f]) + 1
            BY <2>h
          <6>2. Len(active[f]) + 1 \in 1..Len(new) /\ \A k \in 1..Len(active[f]) : k \in 1..Len(new)
            BY <2>h
          <6> QED BY <2>h, <6>1, <6>2
        <5>2. CASE id = n
          BY <2>b, <2>d, <2>f, <2>i, <4>2, <5>1, <5>2
        <5>3. CASE id # n
          BY <2>d, <2>i, <4>0, <4>2, <5>1, <5>3
        <5> QED BY <5>2, <5>3
      <4> QED BY <4>1, <4>2
    <3> QED BY <3>1, <3>2 DEF ListsMatchTable
  <2>3. CallInv'
    BY <1>a DEF CallInv
  <2>4. SlotInv'
    <3>1. ASSUME NEW i \in Ids, order_index'[i].active
          PROVE  /\ order_index'[i].price \in Prices /\ order_index'[i].qty > 0
                 /\ i <= max_order_id_processed' /\ i < MaxOrdersC
      <4>1. CASE i = n
        BY <1>1, <1>a, <1>d, <2>b, <2>d, <4>1, MaxIdAssumption DEF Ids
      <4>2. CASE i # n
        BY <1>a, <1>b, <2>d, <3>1, <4>2 DEF SlotInv
      <4> QED BY <4>1, <4>2
    <3> QED BY <1>a, <3>1 DEF SlotInv
  <2>5. ArrivalInv'
    <3>1. ASSUME NEW i \in Ids, order_index'[i].active PROVE stamp'[i] < clock'
      <4>0. clock \in Nat /\ stamp \in [Ids -> Nat]
        BY <1>b DEF TypeInv
      <4>1. CASE i = n
        BY <1>a, <1>d, <2>d, <4>0, <4>1
      <4>2. CASE i # n
        <5>1. stamp[i] < clock
          BY <1>b, <2>d, <3>1, <4>2 DEF ArrivalInv
        <5> QED BY <1>a, <1>d, <2>d, <4>0, <4>2, <5>1
      <4> QED BY <4>1, <4>2
    <3>2. ASSUME NEW i \in Ids, NEW j \in Ids, order_index'[i].active, order_index'[j].active, i < j
          PROVE  stamp'[i] < stamp'[j]
      <4>1. CASE j = n
        BY <1>b, <2>d, <3>2, <4>1, MaxIdAssumption DEF ArrivalInv, Ids
      <4>2. CASE j # n
        <5>1. j <= n
          BY <1>b, <1>d, <2>d, <3>2, <4>2 DEF SlotInv
        <5>2. i # n
          BY <3>2, <5>1, MaxIdAssumption DEF Ids
        <5> QED BY <1>b, <2>d, <3>2, <4>2, <5>2 DEF ArrivalInv
      <4> QED BY <4>1, <4>2
    <3> QED BY <3>1, <3>2 DEF ArrivalInv
  <2> QED BY <2>1, <2>2, <2>3, <2>4, <2>5 DEF EInv
<1>2. CASE ~(Remains /\ n < MaxOrdersC)
  <2>0. UNCHANGED <<order_index, active, stamp>>
    BY <1>2, <1>c DEF InsertRemaining
  <2>1. TypeInv'
    BY <1>a, <1>b, <1>e, <1>f, <1>d, <2>0 DEF TypeInv
  <2>2. ListsMatchTable'
    BY <1>b, <2>0 DEF ListsMatchTable
  <2>3. CallInv'
    BY <1>a DEF CallInv
  <2>4. SlotInv'
    BY <1>a, <1>b, <2>0 DEF SlotInv
  <2>5. ArrivalInv'
    BY <1>a, <1>b, <1>d, <2>0 DEF ArrivalInv, TypeInv
  <2> QED BY <2>1, <2>2, <2>3, <2>4, <2>5 DEF EInv
<1> QED BY <1>1, <1>2

(* A canceled order leaves the table and its list together. *)
LEMMA CancelStep == ASSUME EInv, NEW id \in Ids, CancelOrder(id) PROVE EInv'
<1>a. /\ trades' = <<>> /\ UNCHANGED <<max_order_id_processed, pc, incoming, clock, stamp, limits>>
      /\ pc = "idle"
  BY DEF CancelOrder, ghosts
<1>b. TypeInv /\ ListsMatchTable /\ CallInv /\ SlotInv /\ ArrivalInv
  BY DEF EInv
<1>1. CASE id < MaxOrdersC /\ order_index[id].active
  <2>a. PICK f : f = order_index[id].side
    OBVIOUS
  <2>b. order_index[id] \in Slot /\ f \in Sides
    BY <1>b, <2>a DEF TypeInv, Slot
  <2>c. PICK slot : slot = [order_index[id] EXCEPT !.active = FALSE]
    OBVIOUS
  <2>d. slot \in Slot /\ slot.active = FALSE
    BY <2>b, <2>c DEF Slot
  <2>e. order_index' = [order_index EXCEPT ![id] = slot]
    BY <1>1, <2>c DEF CancelOrder
  <2>f. /\ order_index' \in [Ids -> Slot] /\ order_index'[id] = slot
        /\ \A i \in Ids : i # id => order_index'[i] = order_index[i]
    BY <1>b, <2>d, <2>e DEF TypeInv
  <2>g. active' = [active EXCEPT ![f] = Without(@, id)]
    BY <1>1, <2>a DEF CancelOrder
  <2>h. ~order_index'[id].active
    BY <2>d, <2>f
  <2>1. ListsMatchTable' /\ active' \in [Sides -> Seq(Ids)]
    BY <1>b, <2>a, <2>b, <2>f, <2>g, <2>h, TakenOut
  <2>2. TypeInv'
    BY <1>a, <1>b, <2>f, <2>1 DEF TypeInv
  <2>3. CallInv'
    BY <1>a, <1>b DEF CallInv
  <2>4. SlotInv'
    BY <1>a, <1>b, <2>f, <2>h DEF SlotInv
  <2>5. ArrivalInv'
    BY <1>a, <1>b, <2>f, <2>h DEF ArrivalInv
  <2> QED BY <2>1, <2>2, <2>3, <2>4, <2>5 DEF EInv
<1>2. CASE ~(id < MaxOrdersC /\ order_index[id].active)
  <2>1. UNCHANGED <<order_index, active, max_order_id_processed, pc, incoming, ghosts>>
    BY <1>2 DEF CancelOrder
  <2> QED BY <1>a, <2>1, SameBook
<1> QED BY <1>1, <1>2

(* An empty book satisfies the invariant. *)
LEMMA EmptyBook ==
    ASSUME /\ order_index' = [i \in Ids |-> EmptySlot]
           /\ active' = [s \in Sides |-> <<>>]
           /\ max_order_id_processed' = 0
           /\ pc' = "idle"
           /\ incoming' = NoOrder
           /\ trades' = <<>>
           /\ clock' \in Nat
           /\ stamp' = [i \in Ids |-> 0]
           /\ limits' = {}
    PROVE  EInv'
<1>0. NoOrder \in [id: Ids \cup {0}, side: Sides, price: Prices \cup {0}, qty: Nat, market: BOOLEAN]
  BY DEF NoOrder, Sides
<1>1. EmptySlot \in Slot /\ EmptySlot.active = FALSE
  BY DEF EmptySlot, Slot, Sides
<1>2. \A i \in Ids : ~order_index'[i].active
  BY <1>1
<1>3. TypeInv'
  BY <1>0, <1>1 DEF TypeInv
<1>4. ListsMatchTable'
  <2>1. \A s \in Sides : Len(active'[s]) = 0
    OBVIOUS
  <2> QED BY <1>2, <2>1 DEF ListsMatchTable
<1>5. CallInv' /\ SlotInv' /\ ArrivalInv'
  BY <1>2 DEF CallInv, SlotInv, ArrivalInv
<1> QED BY <1>3, <1>4, <1>5 DEF EInv

(* A new process starts with an empty book. *)
LEMMA ResetStep == ASSUME EInv, ResetOrderBook PROVE EInv'
<1>1. pc = "idle" /\ UNCHANGED <<pc, incoming, clock>> /\ incoming = NoOrder /\ clock \in Nat
  BY DEF ResetOrderBook, EInv, CallInv, TypeInv
<1> QED BY <1>1, EmptyBook DEF ResetOrderBook

(* The engine starts with an empty book. *)
LEMMA InitStep == Init => EInv
<1> SUFFICES ASSUME Init PROVE EInv
  OBVIOUS
<1>0. NoOrder \in [id: Ids \cup {0}, side: Sides, price: Prices \cup {0}, qty: Nat, market: BOOLEAN]
  BY DEF NoOrder, Sides
<1>1. EmptySlot \in Slot /\ EmptySlot.active = FALSE
  BY DEF EmptySlot, Slot, Sides
<1>2. \A i \in Ids : ~order_index[i].active
  BY <1>1 DEF Init
<1>3. TypeInv
  BY <1>0, <1>1 DEF TypeInv, Init
<1>4. ListsMatchTable
  <2>1. \A s \in Sides : Len(active[s]) = 0
    BY DEF Init
  <2> QED BY <1>2, <2>1 DEF ListsMatchTable
<1>5. CallInv /\ SlotInv /\ ArrivalInv
  BY <1>2 DEF CallInv, SlotInv, ArrivalInv, Init
<1> QED BY <1>3, <1>4, <1>5 DEF EInv

(* Every step of the engine keeps the invariant. *)
LEMMA NextStep == EInv /\ [Next]_vars => EInv'
<1> SUFFICES ASSUME EInv, [Next]_vars PROVE EInv'
  OBVIOUS
<1>1. CASE \E o \in Orders : IgnoreOld(o)
  BY <1>1, SameBook DEF IgnoreOld
<1>2. CASE \E o \in Orders : Receive(o)
  BY <1>2, ReceiveStep
<1>3. CASE MatchBest
  BY <1>3, MatchBestStep
<1>4. CASE MatchDone
  BY <1>4, MatchDoneStep
<1>5. CASE InsertRemaining
  BY <1>5, InsertStep
<1>6. CASE \E id \in Ids : CancelOrder(id)
  BY <1>6, CancelStep
<1>7. CASE ResetOrderBook
  BY <1>7, ResetStep
<1>8. CASE UNCHANGED vars
  BY <1>8, SameBook DEF vars
<1> QED BY <1>1, <1>2, <1>3, <1>4, <1>5, <1>6, <1>7, <1>8 DEF Next

(* The invariant holds of every behavior of the reference engine. *)
THEOREM EngineInvariant == Spec => []EInv
BY InitStep, NextStep, PTL DEF Spec

----------------------------------------------------------------------------
(* The refinement of PriceTimeBook                                         *)

Shown(i) == [id |-> i, side |-> order_index[i].side, price |-> order_index[i].price,
             qty |-> order_index[i].qty, stamp |-> stamp[i]]

(* The abstract book holds the active orders, each under its id. *)
LEMMA ActiveMember ==
    ASSUME NEW m
    PROVE  m \in ActiveOrders <=> \E i \in Ids : order_index[i].active /\ m = Shown(i)
BY DEF ActiveOrders, Shown

(* The same after a step. *)
LEMMA ActiveMemberNext ==
    ASSUME NEW m
    PROVE  m \in ActiveOrders' <=>
              \E i \in Ids : /\ order_index'[i].active
                             /\ m = [id |-> i, side |-> order_index'[i].side, price |-> order_index'[i].price,
                                     qty |-> order_index'[i].qty, stamp |-> stamp'[i]]
BY DEF ActiveOrders

(* The scan's best order comes before every other that crosses: at equal   *)
(* prices the lowest id arrived first.                                     *)
LEMMA BestIsFirst ==
    ASSUME EInv, pc = "match", CanTrade, NEW i, i = Best(Facing)
    PROVE  /\ Shown(i) \in Abstract!Candidates
           /\ \A n \in Abstract!Candidates \ {Shown(i)} : Abstract!Ahead(Shown(i), n)
<1>a. PICK f : f = Facing
  OBVIOUS
<1>b. TypeInv /\ ListsMatchTable /\ SlotInv /\ ArrivalInv
  BY DEF EInv
<1>c. /\ f \in Sides /\ incoming.side \in Sides /\ f # incoming.side
      /\ \A s \in Sides : s # incoming.side => s = f
  BY <1>a, <1>b DEF TypeInv, Facing, Opp, Sides
<1>d. i \in Listed(f) /\ \A j \in Listed(f) \ {i} : Preferred(f, i, j)
  BY <1>a, <1>b, <1>c, BestFacts DEF CanTrade
<1>e. i \in Ids /\ order_index[i].active /\ order_index[i].side = f
  BY <1>b, <1>c, <1>d, ListedIs
<1>f. Crossing(incoming, order_index[i].price)
  BY DEF CanTrade
<1>g. PICK m : m = Shown(i)
  OBVIOUS
<1>h. m.id = i /\ m.side = f /\ m.price = order_index[i].price /\ m.stamp = stamp[i]
  BY <1>e, <1>g DEF Shown
<1>1. m \in Abstract!Candidates
  <2>1. m \in ActiveOrders
    BY <1>e, <1>g, ActiveMember
  <2> QED BY <1>c, <1>f, <1>h, <2>1 DEF Abstract!Candidates, Abstract!Crosses, Crossing
<1>2. ASSUME NEW n \in Abstract!Candidates, n # m PROVE Abstract!Ahead(m, n)
  <2>1. n \in ActiveOrders /\ n.side # incoming.side
    BY DEF Abstract!Candidates
  <2>2. PICK j \in Ids : order_index[j].active /\ n = Shown(j)
    BY <2>1, ActiveMember
  <2>3. n.side = order_index[j].side /\ n.price = order_index[j].price /\ n.stamp = stamp[j]
    BY <2>2 DEF Shown
  <2>4. order_index[j].side \in Sides
    BY <1>b DEF TypeInv, Slot
  <2>5. j \in Listed(f) /\ j # i
    BY <1>2, <1>b, <1>c, <1>g, <2>1, <2>2, <2>3, <2>4, ListedIs
  <2>6. Preferred(f, i, j)
    BY <1>d, <2>5
  <2>7. i < j => stamp[i] < stamp[j]
    BY <1>b, <1>e, <2>2 DEF ArrivalInv
  <2> QED BY <1>h, <2>3, <2>6, <2>7 DEF Preferred, Abstract!Ahead, Abstract!BetterPrice
<1> QED BY <1>g, <1>1, <1>2

(* A turn of the loop fills the first of the crossing orders, and no       *)
(* other; the trade is reported below the limit.                           *)
LEMMA MatchBestTakes ==
    ASSUME EInv, MatchBest
    PROVE  \E k \in Abstract!Candidates, q \in Nat \ {0} :
              /\ \A n \in Abstract!Candidates \ {k} : Abstract!Ahead(k, n)
              /\ q = Min2(incoming.qty, k.qty)
              /\ ActiveOrders' = (ActiveOrders \ {k}) \cup
                                 (IF q = k.qty THEN {} ELSE {[k EXCEPT !.qty = k.qty - q]})
              /\ incoming' = [incoming EXCEPT !.qty = incoming.qty - q]
              /\ trades' = IF Len(trades) < MaxTradesC
                           THEN Append(trades, [maker |-> k.id, taker |-> incoming.id,
                                                price |-> k.price, qty |-> q])
                           ELSE trades
<1>a. PICK f, m, q : f = Facing /\ m = Best(f) /\ q = Min2(incoming.qty, order_index[m].qty)
  OBVIOUS
<1>b. /\ m \in Ids /\ order_index[m].active
      /\ q \in Nat \ {0} /\ order_index[m].qty \in Nat /\ incoming.qty \in Nat /\ incoming.id \in Ids
  BY <1>a, MatchBestFacts
<1>c. /\ \A i \in Ids : i # m => order_index'[i] = order_index[i]
      /\ order_index'[m].price = order_index[m].price /\ order_index'[m].side = order_index[m].side
      /\ order_index'[m].qty = order_index[m].qty - q
      /\ order_index'[m].active <=> q # order_index[m].qty
  BY <1>a, MatchBestFacts
<1>d. /\ pc = "match" /\ CanTrade /\ incoming.qty > 0 /\ stamp' = stamp /\ clock' = clock
      /\ incoming' = [incoming EXCEPT !.qty = incoming.qty - q]
  BY <1>a DEF MatchBest, CanTrade
<1>e. trades' = IF Len(trades) < MaxTradesC
                THEN Append(trades, [maker |-> m, taker |-> incoming.id, price |-> order_index[m].price, qty |-> q])
                ELSE trades
  BY <1>a DEF MatchBest
<1>f. PICK k : k = Shown(m)
  OBVIOUS
<1>g. k.id = m /\ k.price = order_index[m].price /\ k.qty = order_index[m].qty
  BY <1>f DEF Shown
<1>1. k \in Abstract!Candidates /\ \A n \in Abstract!Candidates \ {k} : Abstract!Ahead(k, n)
  BY <1>a, <1>d, <1>f, BestIsFirst
<1>2. q = Min2(incoming.qty, k.qty)
  BY <1>a, <1>g
<1>3. PICK rest : rest = [k EXCEPT !.qty = k.qty - q]
  OBVIOUS
<1>4. rest = [id |-> m, side |-> order_index'[m].side, price |-> order_index'[m].price,
              qty |-> order_index'[m].qty, stamp |-> stamp'[m]]
  BY <1>c, <1>d, <1>f, <1>g, <1>3 DEF Shown
<1>5. ASSUME NEW x \in ActiveOrders' PROVE x \in ActiveOrders \ {k} \/ (x = rest /\ q # k.qty)
  <2>1. PICK i \in Ids : /\ order_index'[i].active
                         /\ x = [id |-> i, side |-> order_index'[i].side, price |-> order_index'[i].price,
                                 qty |-> order_index'[i].qty, stamp |-> stamp'[i]]
    BY ActiveMemberNext
  <2>2. CASE i = m
    BY <1>c, <1>g, <1>4, <2>1, <2>2
  <2>3. CASE i # m
    <3>1. order_index[i].active /\ x = Shown(i)
      BY <1>c, <1>d, <2>1, <2>3 DEF Shown
    <3>2. x \in ActiveOrders
      BY <3>1, ActiveMember
    <3>3. x.id # m
      BY <2>1, <2>3
    <3> QED BY <1>g, <3>2, <3>3
  <2> QED BY <2>2, <2>3
<1>6. ASSUME NEW x \in ActiveOrders, x # k PROVE x \in ActiveOrders'
  <2>1. PICK i \in Ids : order_index[i].active /\ x = Shown(i)
    BY ActiveMember
  <2>2. i # m
    BY <1>f, <1>6, <2>1
  <2>3. /\ order_index'[i].active
        /\ x = [id |-> i, side |-> order_index'[i].side, price |-> order_index'[i].price,
                qty |-> order_index'[i].qty, stamp |-> stamp'[i]]
    BY <1>c, <1>d, <2>1, <2>2 DEF Shown
  <2> QED BY <2>3, ActiveMemberNext
<1>7. ASSUME q # k.qty PROVE rest \in ActiveOrders'
  <2>1. order_index'[m].active
    BY <1>c, <1>g, <1>7
  <2> QED BY <1>b, <1>4, <2>1, ActiveMemberNext
<1>8. ActiveOrders' = (ActiveOrders \ {k}) \cup (IF q = k.qty THEN {} ELSE {rest})
  <2>1. CASE q = k.qty
    BY <1>5, <1>6, <2>1
  <2>2. CASE q # k.qty
    BY <1>5, <1>6, <1>7, <2>2
  <2> QED BY <2>1, <2>2
<1> QED BY <1>b, <1>d, <1>e, <1>g, <1>1, <1>2, <1>3, <1>8

(* Below the limit that is a trade of the abstract book. *)
LEMMA MatchBestFills == ASSUME EInv, MatchBest, limits' = {} PROVE Abstract!Fill
<1>1. Len(trades) < MaxTradesC /\ incoming.qty > 0 /\ incoming # NoOrder /\ clock' = clock
  <2>1. Len(trades) < MaxTradesC
    BY DEF MatchBest
  <2>2. incoming.qty > 0 /\ clock' = clock
    BY DEF MatchBest, CanTrade
  <2>3. incoming # NoOrder
    BY <2>2 DEF NoOrder
  <2> QED BY <2>1, <2>2, <2>3
<1>2. PICK k \in Abstract!Candidates, q \in Nat \ {0} :
         /\ \A n \in Abstract!Candidates \ {k} : Abstract!Ahead(k, n)
         /\ q = Min2(incoming.qty, k.qty)
         /\ ActiveOrders' = (ActiveOrders \ {k}) \cup
                            (IF q = k.qty THEN {} ELSE {[k EXCEPT !.qty = k.qty - q]})
         /\ incoming' = [incoming EXCEPT !.qty = incoming.qty - q]
         /\ trades' = Append(trades, [maker |-> k.id, taker |-> incoming.id,
                                      price |-> k.price, qty |-> q])
  BY <1>1, MatchBestTakes
<1>3. q = Abstract!Least(incoming.qty, k.qty)
  BY <1>2 DEF Abstract!Least, Min2
<1> QED BY <1>1, <1>2, <1>3 DEF Abstract!Fill

(* Matching has ended, and what is left of a limit order joins the active  *)
(* ones, stamped now, if its id has a slot.                                *)
LEMMA InsertTakes ==
    ASSUME EInv, InsertRemaining
    PROVE  /\ incoming.qty = 0 \/ Abstract!Candidates = {}
           /\ ActiveOrders' = ActiveOrders \cup (IF Remains /\ incoming.id < MaxOrdersC
                                                 THEN {Abstract!Resting(incoming, clock)} ELSE {})
<1>a. /\ pc = "insert" /\ incoming' = NoOrder /\ clock' = clock + 1 /\ trades' = trades
  BY DEF InsertRemaining
<1>b. TypeInv /\ ListsMatchTable /\ CallInv /\ SlotInv
  BY DEF EInv
<1>c. PICK n : n = incoming.id
  OBVIOUS
<1>d. n \in Ids /\ incoming # NoOrder /\ ~CanTrade /\ ~order_index[n].active
  <2>1. n \in Ids /\ ~CanTrade
    BY <1>a, <1>b, <1>c DEF CallInv
  <2>2. n # 0
    BY <2>1 DEF Ids
  <2>3. ~order_index[n].active
    BY <1>a, <1>b, <1>c, <2>1 DEF SlotInv
  <2> QED BY <1>c, <2>1, <2>2, <2>3 DEF NoOrder
<1>1. incoming.qty = 0 \/ Abstract!Candidates = {}
  <2>1. SUFFICES ASSUME incoming.qty # 0, NEW x \in Abstract!Candidates PROVE FALSE
    OBVIOUS
  <2>2. incoming.qty > 0 /\ incoming.side \in Sides
    BY <1>b, <2>1 DEF TypeInv
  <2>3. x \in ActiveOrders /\ x.side # incoming.side /\ Abstract!Crosses(incoming, x.price)
    BY DEF Abstract!Candidates
  <2>4. PICK i \in Ids : order_index[i].active /\ x = Shown(i)
    BY <2>3, ActiveMember
  <2>5. x.side = order_index[i].side /\ x.price = order_index[i].price /\ order_index[i].side \in Sides
    BY <1>b, <2>4 DEF Shown, TypeInv, Slot
  <2>6. PICK f \in Sides : f = Facing /\ f = order_index[i].side
    BY <2>2, <2>3, <2>5 DEF Facing, Opp, Sides
  <2>7. i \in Listed(f) /\ Listed(f) # {}
    BY <1>b, <2>4, <2>6, ListedIs
  <2>8. PICK b : b = Best(f)
    OBVIOUS
  <2>9. b \in Listed(f) /\ \A j \in Listed(f) \ {b} : Preferred(f, b, j)
    BY <1>b, <2>7, <2>8, BestFacts
  <2>10. i = b \/ Preferred(f, b, i)
    BY <2>7, <2>9
  <2>11. Crossing(incoming, order_index[i].price)
    BY <2>3, <2>5 DEF Abstract!Crosses, Crossing
  <2>12. b \in Ids /\ order_index[b].price \in Nat /\ order_index[i].price \in Nat /\ incoming.price \in Nat
    <3>1. b \in Ids
      BY <1>b, <2>9, ListedIs
    <3>2. incoming.price \in Nat
      <4>1. incoming.price \in Prices \cup {0}
        BY <1>b DEF TypeInv
      <4>2. \A y \in Prices \cup {0} : y \in Nat
        BY RefPricesAssumption
      <4> QED BY <4>1, <4>2
    <3> QED BY <1>b, <3>1, <3>2, PreferenceFacts
  <2>13. f = Opp(incoming.side)
    BY <2>6 DEF Facing
  <2>14. Crossing(incoming, order_index[b].price)
    BY <2>2, <2>10, <2>11, <2>12, <2>13 DEF Crossing, Preferred, Opp, Sides
  <2> QED BY <1>d, <2>2, <2>6, <2>7, <2>8, <2>14 DEF CanTrade
<1>2. ASSUME ~(Remains /\ n < MaxOrdersC) PROVE ActiveOrders' = ActiveOrders
  <2>1. UNCHANGED <<order_index, stamp>>
    BY <1>2, <1>c DEF InsertRemaining
  <2> QED BY <2>1 DEF ActiveOrders
<1>3. ASSUME Remains, n < MaxOrdersC
      PROVE  ActiveOrders' = ActiveOrders \cup {Abstract!Resting(incoming, clock)}
  <2>2. PICK slot : slot = [price |-> incoming.price, qty |-> incoming.qty, side |-> incoming.side, active |-> TRUE]
    OBVIOUS
  <2>3. order_index' = [order_index EXCEPT ![n] = slot] /\ stamp' = [stamp EXCEPT ![n] = clock]
    BY <1>3, <1>c, <2>2 DEF InsertRemaining
  <2>4. /\ order_index'[n] = slot /\ \A i \in Ids : i # n => order_index'[i] = order_index[i]
        /\ stamp'[n] = clock /\ \A i \in Ids : i # n => stamp'[i] = stamp[i]
    BY <1>b, <1>d, <2>3 DEF TypeInv
  <2>5. PICK k : k = Abstract!Resting(incoming, clock)
    OBVIOUS
  <2>6. k = [id |-> n, side |-> slot.side, price |-> slot.price, qty |-> slot.qty, stamp |-> clock] /\ slot.active
    BY <1>c, <2>2, <2>5 DEF Abstract!Resting
  <2>7. ASSUME NEW x \in ActiveOrders' PROVE x \in ActiveOrders \cup {k}
    <3>1. PICK i \in Ids : /\ order_index'[i].active
                           /\ x = [id |-> i, side |-> order_index'[i].side, price |-> order_index'[i].price,
                                   qty |-> order_index'[i].qty, stamp |-> stamp'[i]]
      BY ActiveMemberNext
    <3>2. CASE i = n
      BY <2>4, <2>6, <3>1, <3>2
    <3>3. CASE i # n
      <4>1. order_index[i].active /\ x = Shown(i)
        BY <2>4, <3>1, <3>3 DEF Shown
      <4> QED BY <4>1, ActiveMember
    <3> QED BY <3>2, <3>3
  <2>8. ASSUME NEW x \in ActiveOrders PROVE x \in ActiveOrders'
    <3>1. PICK i \in Ids : order_index[i].active /\ x = Shown(i)
      BY ActiveMember
    <3>2. i # n
      BY <1>d, <3>1
    <3>3. /\ order_index'[i].active
          /\ x = [id |-> i, side |-> order_index'[i].side, price |-> order_index'[i].price,
                  qty |-> order_index'[i].qty, stamp |-> stamp'[i]]
      BY <2>4, <3>1, <3>2 DEF Shown
    <3> QED BY <3>3, ActiveMemberNext
  <2>9. k \in ActiveOrders'
    <3>1. /\ order_index'[n].active
          /\ k = [id |-> n, side |-> order_index'[n].side, price |-> order_index'[n].price,
                  qty |-> order_index'[n].qty, stamp |-> stamp'[n]]
      BY <2>4, <2>6
    <3> QED BY <1>d, <3>1, ActiveMemberNext
  <2> QED BY <2>5, <2>7, <2>8, <2>9
<1> QED BY <1>c, <1>1, <1>2, <1>3

(* With a slot for every id that is the end of a call of the abstract book. *)
LEMMA InsertFinishes == ASSUME EInv, InsertRemaining, limits' = {} PROVE Abstract!Finish
<1>1. /\ pc = "insert" /\ incoming' = NoOrder /\ clock' = clock + 1 /\ trades' = trades
      /\ ~(Remains /\ incoming.id >= MaxOrdersC)
  BY DEF InsertRemaining
<1>2. incoming.id \in Ids /\ incoming.id \in Nat
  BY <1>1, MaxIdAssumption DEF EInv, CallInv, Ids
<1>3. incoming # NoOrder
  BY <1>2 DEF NoOrder, Ids
<1>4. Remains => incoming.id < MaxOrdersC
  BY <1>1, <1>2, TablesAssumption
<1>5. ActiveOrders' = ActiveOrders \cup (IF ~incoming.market /\ incoming.qty > 0
                                         THEN {Abstract!Resting(incoming, clock)} ELSE {})
  BY <1>4, InsertTakes DEF Remains
<1> QED BY <1>1, <1>3, <1>5, InsertTakes DEF Abstract!Finish

(* A canceled order is gone at once, and only that one. *)
LEMMA CancelTakesOut ==
    ASSUME EInv, NEW id \in Ids, CancelOrder(id)
    PROVE  IF order_index[id].active
           THEN ActiveOrders' = ActiveOrders \ {Shown(id)} /\ Shown(id) \in ActiveOrders
           ELSE ActiveOrders' = ActiveOrders
<1>a. stamp' = stamp /\ TypeInv /\ (order_index[id].active => id < MaxOrdersC)
  BY DEF CancelOrder, EInv, SlotInv, ghosts
<1>1. CASE order_index[id].active
  <2>1. PICK slot : slot = [order_index[id] EXCEPT !.active = FALSE]
    OBVIOUS
  <2>2. order_index' = [order_index EXCEPT ![id] = slot]
    BY <1>a, <1>1, <2>1 DEF CancelOrder
  <2>3. slot.active = FALSE
    BY <1>a, <2>1 DEF TypeInv, Slot
  <2>4. ~order_index'[id].active /\ \A i \in Ids : i # id => order_index'[i] = order_index[i]
    BY <1>a, <2>2, <2>3 DEF TypeInv
  <2>5. PICK k : k = Shown(id)
    OBVIOUS
  <2>6. k \in ActiveOrders /\ k.id = id
    BY <1>1, <2>5, ActiveMember DEF Shown
  <2>7. ASSUME NEW x \in ActiveOrders' PROVE x \in ActiveOrders \ {k}
    <3>1. PICK i \in Ids : /\ order_index'[i].active
                           /\ x = [id |-> i, side |-> order_index'[i].side, price |-> order_index'[i].price,
                                   qty |-> order_index'[i].qty, stamp |-> stamp'[i]]
      BY ActiveMemberNext
    <3>2. i # id /\ x.id = i
      BY <2>4, <3>1
    <3>3. order_index[i].active /\ x = Shown(i)
      BY <1>a, <2>4, <3>1, <3>2 DEF Shown
    <3>4. x \in ActiveOrders
      BY <3>3, ActiveMember
    <3> QED BY <2>6, <3>2, <3>4
  <2>8. ASSUME NEW x \in ActiveOrders, x # k PROVE x \in ActiveOrders'
    <3>1. PICK i \in Ids : order_index[i].active /\ x = Shown(i)
      BY ActiveMember
    <3>2. i # id
      BY <2>5, <2>8, <3>1
    <3>3. /\ order_index'[i].active
          /\ x = [id |-> i, side |-> order_index'[i].side, price |-> order_index'[i].price,
                  qty |-> order_index'[i].qty, stamp |-> stamp'[i]]
      BY <1>a, <2>4, <3>1, <3>2 DEF Shown
    <3> QED BY <3>3, ActiveMemberNext
  <2>9. ActiveOrders' = ActiveOrders \ {k}
    BY <2>7, <2>8
  <2> QED BY <1>1, <2>5, <2>6, <2>9
<1>2. CASE ~order_index[id].active
  <2>1. order_index' = order_index
    BY <1>2 DEF CancelOrder
  <2>2. ActiveOrders' = ActiveOrders
    BY <1>a, <2>1 DEF ActiveOrders
  <2> QED BY <1>2, <2>2
<1> QED BY <1>1, <1>2

(* That is a cancel of the abstract book, or there is nothing to cancel. *)
LEMMA CancelCancels ==
    ASSUME EInv, NEW id \in Ids, CancelOrder(id)
    PROVE  Abstract!Cancel \/ Abstract!Refuse
<1>1. trades' = <<>> /\ UNCHANGED <<incoming, clock>> /\ incoming = NoOrder
  BY DEF CancelOrder, EInv, CallInv, ghosts
<1> QED BY <1>1, CancelTakesOut DEF Abstract!Cancel, Abstract!Refuse

(* An order that is taken has an id that no active order has. *)
LEMMA ReceiveArrives == ASSUME EInv, NEW o \in Orders, Receive(o) PROVE Abstract!Arrive
<1>1. /\ incoming = NoOrder /\ incoming' = o /\ trades' = <<>> /\ o.id > max_order_id_processed
      /\ UNCHANGED <<order_index, clock, stamp>> /\ SlotInv /\ max_order_id_processed \in Nat
  BY DEF Receive, EInv, CallInv, TypeInv, ghosts
<1>2. o.id \in Nat \ {0} /\ o.qty > 0
  BY OrderFacts DEF Ids
<1>3. o # NoOrder
  BY <1>2 DEF NoOrder
<1>4. ActiveOrders' = ActiveOrders
  BY <1>1 DEF ActiveOrders
<1>5. ASSUME NEW m \in ActiveOrders PROVE m.id # o.id
  <2>1. PICK i \in Ids : order_index[i].active /\ m = Shown(i)
    BY ActiveMember
  <2>2. i <= max_order_id_processed /\ m.id = i /\ i \in Nat
    BY <1>1, <2>1, MaxIdAssumption DEF SlotInv, Shown, Ids
  <2> QED BY <1>1, <1>2, <2>2
<1> QED BY <1>1, <1>2, <1>3, <1>4, <1>5 DEF Abstract!Arrive

(* Every step of the engine that has met no limit is one of the book. *)
LEMMA StepImplements ==
    ASSUME EInv, [Next]_vars
    PROVE  [limits' # {} \/ Abstract!BookNext]_<<Abstract!bookVars, limits>>
<1> SUFFICES ASSUME limits' = {} PROVE Abstract!BookNext \/ UNCHANGED <<Abstract!bookVars, limits>>
  OBVIOUS
<1> USE DEF Abstract!BookNext
<1>1. ASSUME NEW o \in Orders, IgnoreOld(o) PROVE Abstract!Refuse
  <2>1. /\ incoming = NoOrder /\ trades' = <<>> /\ UNCHANGED <<order_index, incoming, clock, stamp>>
    BY <1>1 DEF IgnoreOld, EInv, CallInv, ghosts
  <2>2. ActiveOrders' = ActiveOrders
    BY <2>1 DEF ActiveOrders
  <2> QED BY <2>1, <2>2 DEF Abstract!Refuse
<1>2. CASE \E o \in Orders : Receive(o)
  BY <1>2, ReceiveArrives
<1>3. CASE MatchBest
  BY <1>3, MatchBestFills
<1>4. ASSUME MatchDone \/ UNCHANGED vars PROVE UNCHANGED <<Abstract!bookVars, limits>>
  <2>1. UNCHANGED <<order_index, incoming, trades, clock, stamp, limits>>
    BY <1>4 DEF MatchDone, vars, ghosts
  <2>2. ActiveOrders' = ActiveOrders
    BY <2>1 DEF ActiveOrders
  <2> QED BY <2>1, <2>2 DEF Abstract!bookVars
<1>5. CASE InsertRemaining
  BY <1>5, InsertFinishes
<1>6. CASE \E id \in Ids : CancelOrder(id)
  BY <1>6, CancelCancels
<1>7. ASSUME ResetOrderBook PROVE Abstract!Reset
  <2>1. /\ incoming = NoOrder /\ trades' = <<>> /\ UNCHANGED <<incoming, clock>>
        /\ order_index' = [i \in Ids |-> EmptySlot]
    BY <1>7 DEF ResetOrderBook, EInv, CallInv
  <2>2. \A i \in Ids : ~order_index'[i].active
    BY <2>1 DEF EmptySlot
  <2>3. ActiveOrders' = {}
    BY <2>2, ActiveMemberNext
  <2> QED BY <2>1, <2>3 DEF Abstract!Reset
<1> QED BY <1>1, <1>2, <1>3, <1>4, <1>5, <1>6, <1>7 DEF Next

(* The engine starts as an empty book. *)
LEMMA InitImplements == Init => Abstract!BookInit
<1> SUFFICES ASSUME Init PROVE Abstract!BookInit
  OBVIOUS
<1>1. \A i \in Ids : ~order_index[i].active
  BY DEF Init, EmptySlot
<1>2. ActiveOrders = {}
  BY <1>1, ActiveMember
<1> QED BY <1>2 DEF Init, Abstract!BookInit

(* Until it meets a limit, the reference engine is a book with price-time  *)
(* priority, whatever the ids, prices, quantities and table sizes are.     *)
THEOREM EngineImplementsPriceTime == Spec => ImplementsPriceTime
<1>1. Init => Abstract!BookInit
  BY InitImplements
<1>2. EInv /\ [Next]_vars => [limits' # {} \/ Abstract!BookNext]_<<Abstract!bookVars, limits>>
  BY StepImplements
<1> QED BY <1>1, <1>2, EngineInvariant, PTL DEF Spec, ImplementsPriceTime

----------------------------------------------------------------------------
(* The engine inside the run of both engines                               *)

(* A worker holds nothing or an order of the stream. *)
HeldInv == held = NoOrder \/ held \in Orders

(* Every step of the run is a step of the engine, or leaves it alone. *)
LEMMA StreamStep == HeldInv /\ [LockstepNext]_lockstepVars => HeldInv' /\ [Next]_vars
<1> SUFFICES ASSUME HeldInv, [LockstepNext]_lockstepVars PROVE HeldInv' /\ [Next]_vars
  OBVIOUS
<1>1. ASSUME NEW o \in Orders, Write(o) PROVE Next
  BY <1>1 DEF Write, Next
<1>2. ASSUME NEW o \in Orders, GenerateOrder(o) PROVE HeldInv' /\ Next
  <2>1. held' = held /\ Write(o)
    BY <1>2 DEF GenerateOrder
  <2> QED BY <1>1, <2>1 DEF HeldInv
<1>3. ASSUME NEW o \in Orders, HoldOrder(o) PROVE HeldInv' /\ UNCHANGED vars
  BY <1>3 DEF HoldOrder, HeldInv
<1>4. ASSUME WriteHeld PROVE HeldInv' /\ Next
  <2>1. held \in Orders /\ Write(held) /\ held' = NoOrder
    BY <1>4 DEF WriteHeld, HeldInv
  <2> QED BY <1>1, <2>1 DEF HeldInv
<1>5. ASSUME WriteFails PROVE HeldInv' /\ UNCHANGED vars
  BY <1>5 DEF WriteFails, HeldInv
<1>6. ASSUME NEW target \in Ids, GenerateCancel(target) PROVE HeldInv' /\ Next
  BY <1>6 DEF GenerateCancel, HeldInv, Next
<1>7. ASSUME EngineMatches \/ EngineAnswers PROVE HeldInv' /\ Next
  BY <1>7 DEF EngineMatches, EngineAnswers, stream, HeldInv, Next
<1>8. ASSUME ShadowSubmit \/ ShadowMatches \/ ShadowAnswers \/ ShadowCancel
      PROVE  HeldInv' /\ UNCHANGED vars
  BY <1>8 DEF ShadowSubmit, ShadowMatches, ShadowAnswers, ShadowCancel, Compared, stream, HeldInv
<1>9. ASSUME NewRun PROVE HeldInv' /\ Next
  BY <1>9 DEF NewRun, HeldInv, Next
<1>10. ASSUME UNCHANGED lockstepVars PROVE HeldInv' /\ UNCHANGED vars
  BY <1>10 DEF lockstepVars, stream, HeldInv
<1> QED BY <1>2, <1>3, <1>4, <1>5, <1>6, <1>7, <1>8, <1>9, <1>10 DEF LockstepNext

(* The reference engine runs unchanged under the stream of the fleet. *)
THEOREM LockstepRunsEngine == LockstepSpec => Spec
<1>1. LockstepInit => Init /\ HeldInv
  BY DEF LockstepInit, HeldInv
<1> QED BY <1>1, StreamStep, PTL DEF LockstepSpec, Spec

(* remove_bid and remove_ask take out one occurrence, and there is no      *)
(* other: lists and table name the same orders throughout the run.         *)
THEOREM ListsMatchTableHolds == LockstepSpec => []ListsMatchTable
<1>1. EInv => ListsMatchTable
  BY DEF EInv
<1> QED BY <1>1, LockstepRunsEngine, EngineInvariant, PTL

(* The scan by price and lowest id keeps price-time priority throughout    *)
(* the run, until the engine meets one of its limits.                      *)
THEOREM ImplementsPriceTimeHolds == LockstepSpec => ImplementsPriceTime
BY LockstepRunsEngine, EngineImplementsPriceTime, PTL

----------------------------------------------------------------------------
(* The shadow engine inside the run of both engines                        *)

\* What is proved of ShadowOrderBook, about the shadow book of the run.
SP == INSTANCE ShadowOrderBookProofs
        WITH order_index <- s_index, pc <- s_pc, incoming <- s_incoming, trades <- s_trades,
             clock <- s_clock, stamp <- s_stamp, NoId <- 0, MaxOrders <- MaxCalls

(* The constants of the run are constants of the shadow book. *)
LEMMA ShadowConstants ==
    /\ Prices \subseteq Nat \ {0} /\ Quantities \subseteq Nat \ {0}
    /\ MaxTrades \in Nat \ {0} /\ 0 \notin Ids /\ MaxCalls \in Nat
BY RefPricesAssumption, RefQuantitiesAssumption, ShadowLimitAssumption, TablesAssumption DEF Ids

(* Both instances of ShadowOrderBook name the same book and the same steps. *)
LEMMA SameShadow ==
    /\ S!LiveOrders = SP!LiveOrders
    /\ \A o : S!Accept(o) => SP!Accept(o)
    /\ S!StopMatching => SP!StopMatching
    /\ S!EnterLevel => SP!EnterLevel
    /\ S!Sweep => SP!Sweep
    /\ S!MatchFront => SP!MatchFront
    /\ S!LeaveLevel => SP!LeaveLevel
    /\ S!Rest => SP!Rest
    /\ S!Refuse => SP!Refuse
    /\ \A i : S!CancelOrder(i) => SP!CancelOrder(i)
    /\ S!Reset => SP!Reset
<1>1. S!ghosts = SP!ghosts /\ S!book = SP!book /\ S!NoOrder = SP!NoOrder /\ S!Sides = SP!Sides
  BY DEF S!ghosts, SP!ghosts, S!book, SP!book, S!NoOrder, SP!NoOrder, S!Sides, SP!Sides
<1>2. S!Facing = SP!Facing
  BY DEF S!Facing, SP!Facing, S!Opp, SP!Opp
<1>3. \A s : S!BestPrice(s) = SP!BestPrice(s)
  BY DEF S!BestPrice, SP!BestPrice
<1>4. S!Level = SP!Level /\ S!Queue = SP!Queue
  BY <1>2, <1>3 DEF S!Level, SP!Level, S!Queue, SP!Queue
<1>5. S!CanEnterLevel <=> SP!CanEnterLevel
  BY <1>2, <1>3 DEF S!CanEnterLevel, SP!CanEnterLevel, S!Crossing, SP!Crossing
<1>6. \A i : S!Dead(i) <=> SP!Dead(i)
  BY DEF S!Dead, SP!Dead
<1>7. S!LiveOrders = SP!LiveOrders
  BY DEF S!LiveOrders, SP!LiveOrders, S!Dead, SP!Dead, S!Sides, SP!Sides
<1>8. \A o : S!Accept(o) => SP!Accept(o)
  BY <1>1 DEF S!Accept, SP!Accept, S!book, SP!book, S!ghosts, SP!ghosts
<1>9. S!StopMatching => SP!StopMatching
  BY <1>1, <1>5 DEF S!StopMatching, SP!StopMatching, S!book, SP!book, S!ghosts, SP!ghosts
<1>10. S!EnterLevel => SP!EnterLevel
  BY <1>1, <1>5 DEF S!EnterLevel, SP!EnterLevel, S!book, SP!book, S!ghosts, SP!ghosts
<1>11. S!Sweep => SP!Sweep
  BY <1>1, <1>2, <1>4, <1>6 DEF S!Sweep, SP!Sweep, S!book, SP!book, S!ghosts, SP!ghosts
<1>12. S!MatchFront => SP!MatchFront
  BY <1>1, <1>2, <1>4, <1>6 DEF S!MatchFront, SP!MatchFront, S!Min2, SP!Min2
<1>13. S!LeaveLevel => SP!LeaveLevel
  BY <1>1, <1>2, <1>4 DEF S!LeaveLevel, SP!LeaveLevel, S!book, SP!book, S!ghosts, SP!ghosts
<1>14. S!Rest => SP!Rest
  BY <1>1 DEF S!Rest, SP!Rest
<1>15. S!Refuse => SP!Refuse
  BY <1>1 DEF S!Refuse, SP!Refuse, S!book, SP!book, S!ghosts, SP!ghosts
<1>16. \A i : S!CancelOrder(i) => SP!CancelOrder(i)
  BY <1>1 DEF S!CancelOrder, SP!CancelOrder, S!book, SP!book, S!ghosts, SP!ghosts
<1>17. S!Reset => SP!Reset
  BY <1>1 DEF S!Reset, SP!Reset
<1> QED BY <1>7, <1>8, <1>9, <1>10, <1>11, <1>12, <1>13, <1>14, <1>15, <1>16, <1>17

----------------------------------------------------------------------------
(* Books that trade on                                                     *)

\* A book without stamps, the order it matches, and the trades so far.
Book(l, t, f) == [live |-> l, taker |-> t, fills |-> f]

Crossers(b) == {m \in b.live : m.side # b.taker.side /\ Crossing(b.taker, m.price)}

\* Price, then the lowest id.
Before(m, n) ==
    \/ IF m.side = "sell" THEN m.price < n.price ELSE m.price > n.price
    \/ m.price = n.price /\ m.id < n.id

Traded(b, m, q) ==
    Book((b.live \ {m}) \cup (IF q = m.qty THEN {} ELSE {[m EXCEPT !.qty = m.qty - q]}),
         [b.taker EXCEPT !.qty = b.taker.qty - q],
         Append(b.fills, [maker |-> m.id, taker |-> b.taker.id, price |-> m.price, qty |-> q]))

\* One trade with the first order that crosses.
Trades(b, c) ==
    /\ b.taker.qty > 0
    /\ \E m \in Crossers(b) :
          /\ \A n \in Crossers(b) \ {m} : Before(m, n)
          /\ c = Traded(b, m, Min2(b.taker.qty, m.qty))

Ended(b) == b.taker.qty = 0 \/ Crossers(b) = {}

\* Any number of trades lead from b to c.
Closed(R) == \A x \in R : \A y : Trades(x, y) => y \in R
Reaches(b, c) == \A R : b \in R /\ Closed(R) => c \in R

(* One more trade is reached too. *)
LEMMA ReachesOn == ASSUME NEW b, NEW c, NEW d, Reaches(b, c), Trades(c, d) PROVE Reaches(b, d)
BY DEF Reaches, Closed

(* A book that trades no more reaches itself only. *)
LEMMA ReachesEnd == ASSUME NEW b, NEW c, Reaches(b, c), Ended(b), b.taker.qty \in Nat PROVE c = b
<1>1. \A y : ~Trades(b, y)
  BY DEF Trades, Ended
<1>2. Closed({b})
  BY <1>1 DEF Closed
<1>3. b \in {b}
  OBVIOUS
<1> QED BY <1>2, <1>3 DEF Reaches

(* A trade is the only one a book can make: what it reaches in the end it  *)
(* reaches from there.                                                     *)
LEMMA ReachesFrom ==
    ASSUME NEW b, NEW c, NEW d, Reaches(b, d), Trades(b, c), Ended(d), b.taker.qty \in Nat,
           \A m \in b.live : m.side \in Sides /\ m.price \in Nat /\ m.id \in Nat,
           b.taker.side \in Sides
    PROVE  Reaches(c, d)
<1>1. ASSUME NEW y, Trades(b, y) PROVE y = c
  <2>1. PICK m \in Crossers(b) :
           /\ \A n \in Crossers(b) \ {m} : Before(m, n)
           /\ c = Traded(b, m, Min2(b.taker.qty, m.qty))
    BY DEF Trades
  <2>2. PICK n \in Crossers(b) :
           /\ \A k \in Crossers(b) \ {n} : Before(n, k)
           /\ y = Traded(b, n, Min2(b.taker.qty, n.qty))
    BY <1>1 DEF Trades
  <2>3. m \in b.live /\ n \in b.live /\ m.side # b.taker.side /\ n.side # b.taker.side
    BY DEF Crossers
  <2>4. m.side = n.side
    BY <2>3 DEF Sides
  <2>5. m = n
    <3>1. SUFFICES ASSUME m # n PROVE FALSE
      OBVIOUS
    <3>2. Before(m, n) /\ Before(n, m)
      BY <2>1, <2>2, <3>1
    <3>3. m.price \in Nat /\ n.price \in Nat /\ m.id \in Nat /\ n.id \in Nat
      BY <2>3
    <3> QED BY <2>4, <3>2, <3>3 DEF Before
  <2> QED BY <2>1, <2>2, <2>5
<1>2. d # b
  BY DEF Trades, Ended
<1>3. SUFFICES ASSUME NEW R, c \in R, Closed(R) PROVE d \in R
  BY DEF Reaches
<1>4. Closed(R \cup {b})
  BY <1>1, <1>3 DEF Closed
<1>5. d \in R \cup {b}
  BY <1>4 DEF Reaches
<1> QED BY <1>2, <1>5

(* An order without its stamp. *)
LEMMA UnstampedMember ==
    ASSUME NEW L, \A m \in L : m \in [id: Nat, side: Sides, price: Nat, qty: Nat, stamp: Nat], NEW x
    PROVE  x \in Unstamped(L) <=>
              \E m \in L : x = [id |-> m.id, side |-> m.side, price |-> m.price, qty |-> m.qty, stamp |-> 0]
<1>1. ASSUME NEW m \in L
      PROVE  [m EXCEPT !.stamp = 0] = [id |-> m.id, side |-> m.side, price |-> m.price, qty |-> m.qty, stamp |-> 0]
  OBVIOUS
<1> QED BY <1>1 DEF Unstamped

\* Typed orders, one to an id, whose stamps follow their ids.
Aligned(L) ==
    /\ \A m \in L : m \in [id: Nat, side: Sides, price: Nat, qty: Nat, stamp: Nat]
    /\ \A m, n \in L : m.id = n.id => m = n
    /\ \A m, n \in L : m.id < n.id => m.stamp < n.stamp

(* Where stamps follow ids, a trade with the first order by arrival is one *)
(* with the first by id.                                                   *)
LEMMA FillTrades ==
    ASSUME NEW L, Aligned(L), NEW t, t.qty \in Nat, t.qty > 0,
           NEW m \in L, m.side # t.side, Crossing(t, m.price),
           \A n \in L : n # m /\ n.side # t.side /\ Crossing(t, n.price) =>
              \/ IF m.side = "sell" THEN m.price < n.price ELSE m.price > n.price
              \/ m.price = n.price /\ m.stamp < n.stamp,
           NEW q, q = Min2(t.qty, m.qty),
           NEW K, K = (L \ {m}) \cup (IF q = m.qty THEN {} ELSE {[m EXCEPT !.qty = m.qty - q]}),
           NEW f
    PROVE  Trades(Book(Unstamped(L), t, f),
                  Book(Unstamped(K), [t EXCEPT !.qty = t.qty - q],
                       Append(f, [maker |-> m.id, taker |-> t.id, price |-> m.price, qty |-> q])))
<1>a. /\ \A n \in L : n \in [id: Nat, side: Sides, price: Nat, qty: Nat, stamp: Nat]
      /\ \A n, k \in L : n.id = k.id => n = k
      /\ \A n, k \in L : n.id < k.id => n.stamp < k.stamp
  BY DEF Aligned
<1>b. PICK b : b = Book(Unstamped(L), t, f)
  OBVIOUS
<1>c. b.live = Unstamped(L) /\ b.taker = t /\ b.fills = f
  BY <1>b DEF Book
<1>d. PICK x : x = [id |-> m.id, side |-> m.side, price |-> m.price, qty |-> m.qty, stamp |-> 0]
  OBVIOUS
<1>e. x \in Unstamped(L)
  BY <1>a, <1>d, UnstampedMember
<1>1. x \in Crossers(b)
  BY <1>c, <1>d, <1>e DEF Crossers
<1>2. ASSUME NEW y \in Crossers(b), y # x PROVE Before(x, y)
  <2>1. y \in Unstamped(L) /\ y.side # t.side /\ Crossing(t, y.price)
    BY <1>c DEF Crossers
  <2>2. PICK n \in L : y = [id |-> n.id, side |-> n.side, price |-> n.price, qty |-> n.qty, stamp |-> 0]
    BY <1>a, <2>1, UnstampedMember
  <2>3. n # m /\ n.side # t.side /\ Crossing(t, n.price)
    BY <1>2, <1>d, <2>1, <2>2
  <2>4. m.id # n.id /\ m.id \in Nat /\ n.id \in Nat /\ m.stamp \in Nat /\ n.stamp \in Nat
    BY <1>a, <2>3
  <2>5. m.stamp < n.stamp => m.id < n.id
    <3>1. n.id < m.id => n.stamp < m.stamp
      BY <1>a
    <3> QED BY <2>4, <3>1
  <2>6. \/ IF m.side = "sell" THEN m.price < n.price ELSE m.price > n.price
        \/ m.price = n.price /\ m.stamp < n.stamp
    BY <2>3
  <2> QED BY <1>d, <2>2, <2>5, <2>6 DEF Before
<1>3. PICK y : y = [x EXCEPT !.qty = x.qty - q]
  OBVIOUS
<1>4. PICK k : k = [m EXCEPT !.qty = m.qty - q]
  OBVIOUS
<1>5. m \in [id: Nat, side: Sides, price: Nat, qty: Nat, stamp: Nat] /\ q \in Nat /\ q <= m.qty /\ q <= t.qty
  BY <1>a DEF Min2
<1>6. /\ k \in [id: Nat, side: Sides, price: Nat, qty: Nat, stamp: Nat] /\ k.id = m.id
      /\ y = [id |-> k.id, side |-> k.side, price |-> k.price, qty |-> k.qty, stamp |-> 0]
  BY <1>3, <1>4, <1>5, <1>d
<1>7. \A n \in K : n \in [id: Nat, side: Sides, price: Nat, qty: Nat, stamp: Nat]
  BY <1>4, <1>6, <1>a
<1>8. Unstamped(K) = (Unstamped(L) \ {x}) \cup (IF q = m.qty THEN {} ELSE {y})
  <2>1. ASSUME NEW z \in Unstamped(K) PROVE z \in Unstamped(L) \ {x} \/ (q # m.qty /\ z = y)
    <3>1. PICK n \in K : z = [id |-> n.id, side |-> n.side, price |-> n.price, qty |-> n.qty, stamp |-> 0]
      BY <1>7, UnstampedMember
    <3>2. CASE n \in L /\ n # m
      <4>1. z \in Unstamped(L)
        BY <1>a, <3>1, <3>2, UnstampedMember
      <4>2. n.id # m.id
        BY <1>a, <3>2
      <4> QED BY <1>d, <3>1, <4>1, <4>2
    <3>3. CASE q # m.qty /\ n = k
      BY <1>6, <3>1, <3>3
    <3> QED BY <1>4, <3>2, <3>3
  <2>2. ASSUME NEW z \in Unstamped(L), z # x PROVE z \in Unstamped(K)
    <3>1. PICK n \in L : z = [id |-> n.id, side |-> n.side, price |-> n.price, qty |-> n.qty, stamp |-> 0]
      BY <1>a, UnstampedMember
    <3>2. n # m
      BY <1>d, <2>2, <3>1
    <3>3. n \in K
      BY <3>2
    <3> QED BY <1>7, <3>1, <3>3, UnstampedMember
  <2>3. q # m.qty => y \in Unstamped(K)
    <3>1. q # m.qty => k \in K
      BY <1>4
    <3> QED BY <1>6, <1>7, <3>1, UnstampedMember
  <2> QED BY <2>1, <2>2, <2>3
<1>9. Book(Unstamped(K), [t EXCEPT !.qty = t.qty - q],
           Append(f, [maker |-> m.id, taker |-> t.id, price |-> m.price, qty |-> q])) = Traded(b, x, q)
  <2>1. x.qty = m.qty /\ x.id = m.id /\ x.price = m.price
    BY <1>d
  <2> QED BY <1>3, <1>8, <1>c, <2>1 DEF Traded
<1>10. q = Min2(b.taker.qty, x.qty) /\ b.taker.qty > 0
  BY <1>c, <1>d
<1> QED BY <1>1, <1>2, <1>9, <1>10, <1>b DEF Trades

----------------------------------------------------------------------------
(* Both engines on the same order                                          *)

Fills == Seq([maker: Nat, taker: Nat, price: Nat, qty: Nat])

\* The response ends at the limit of reported trades.
Reported(f) == SubSeq(f, 1, Min2(Len(f), MaxTradesC))

(* A trade past the limit is not reported. *)
LEMMA ReportedAppend ==
    ASSUME NEW T, NEW f \in Seq(T), NEW x \in T
    PROVE  Reported(Append(f, x)) = IF Len(Reported(f)) < MaxTradesC
                                    THEN Append(Reported(f), x) ELSE Reported(f)
<1>1. Len(f) \in Nat /\ Append(f, x) \in Seq(T) /\ Len(Append(f, x)) = Len(f) + 1 /\ MaxTradesC \in Nat
  BY TablesAssumption
<1>2. CASE Len(f) < MaxTradesC
  <2>1. Min2(Len(f), MaxTradesC) = Len(f) /\ Min2(Len(f) + 1, MaxTradesC) = Len(f) + 1
    BY <1>1, <1>2 DEF Min2
  <2>2. SubSeq(f, 1, Len(f)) = f
    BY <1>1
  <2>3. SubSeq(Append(f, x), 1, Len(f) + 1) = Append(f, x)
    BY <1>1
  <2> QED BY <1>1, <1>2, <2>1, <2>2, <2>3 DEF Reported
<1>3. CASE ~(Len(f) < MaxTradesC)
  <2>1. Min2(Len(f), MaxTradesC) = MaxTradesC /\ Min2(Len(f) + 1, MaxTradesC) = MaxTradesC
    BY <1>1, <1>3 DEF Min2
  <2>2. SubSeq(Append(f, x), 1, MaxTradesC) = SubSeq(f, 1, MaxTradesC)
    BY <1>1, <1>3
  <2>3. Len(SubSeq(f, 1, MaxTradesC)) = MaxTradesC
    BY <1>1, <1>3
  <2>4. Reported(f) = SubSeq(f, 1, MaxTradesC)
    BY <2>1 DEF Reported
  <2>5. Reported(Append(f, x)) = SubSeq(f, 1, MaxTradesC)
    BY <1>1, <2>1, <2>2 DEF Reported
  <2>6. ~(Len(Reported(f)) < MaxTradesC)
    BY <1>1, <2>3, <2>4
  <2> QED BY <2>4, <2>5, <2>6
<1> QED BY <1>2, <1>3

\* The book of the shadow engine, with the order it matches or will match.
ShadowBook ==
    Book(Unstamped(S!LiveOrders),
         IF s_pc = "idle" THEN line ELSE s_incoming,
         IF s_pc = "idle" THEN <<>> ELSE s_trades)

(* The orders of the reference engine arrived in the order of their ids. *)
LEMMA ActiveAligned == ASSUME EInv PROVE Aligned(ActiveOrders)
<1>a. TypeInv /\ ArrivalInv
  BY DEF EInv
<1>1. ASSUME NEW m \in ActiveOrders
      PROVE  /\ m \in [id: Nat, side: Sides, price: Nat, qty: Nat, stamp: Nat]
             /\ m.id \in Ids /\ order_index[m.id].active /\ m = Shown(m.id) /\ m.stamp = stamp[m.id]
  <2>1. PICK i \in Ids : order_index[i].active /\ m = Shown(i)
    BY ActiveMember
  <2>2. i \in Nat /\ order_index[i].price \in Nat
    <3>1. \A x \in Prices \cup {0} : x \in Nat
      BY RefPricesAssumption
    <3>2. order_index[i].price \in Prices \cup {0} /\ i \in Nat
      BY <1>a, MaxIdAssumption DEF TypeInv, Slot, Ids
    <3> QED BY <3>1, <3>2
  <2>3. order_index[i].side \in Sides /\ order_index[i].qty \in Nat /\ stamp[i] \in Nat
    BY <1>a DEF TypeInv, Slot
  <2>4. m.id = i
    BY <2>1 DEF Shown
  <2> QED BY <2>1, <2>2, <2>3, <2>4 DEF Shown
<1>2. ASSUME NEW m \in ActiveOrders, NEW n \in ActiveOrders, m.id < n.id PROVE m.stamp < n.stamp
  BY <1>1, <1>2, <1>a DEF ArrivalInv
<1>3. ASSUME NEW m \in ActiveOrders, NEW n \in ActiveOrders, m.id = n.id PROVE m = n
  BY <1>1, <1>3
<1> QED BY <1>1, <1>2, <1>3 DEF Aligned

(* A turn of the reference engine is the next trade of its book. *)
LEMMA EngineTrades ==
    ASSUME EInv, MatchBest, NEW f \in Fills, trades = Reported(f)
    PROVE  \E g \in Fills : /\ Trades(Book(Unstamped(ActiveOrders), incoming, f),
                                      Book(Unstamped(ActiveOrders'), incoming', g))
                            /\ trades' = Reported(g)
<1>1. PICK k \in Abstract!Candidates, q \in Nat \ {0} :
         /\ \A n \in Abstract!Candidates \ {k} : Abstract!Ahead(k, n)
         /\ q = Min2(incoming.qty, k.qty)
         /\ ActiveOrders' = (ActiveOrders \ {k}) \cup
                            (IF q = k.qty THEN {} ELSE {[k EXCEPT !.qty = k.qty - q]})
         /\ incoming' = [incoming EXCEPT !.qty = incoming.qty - q]
         /\ trades' = IF Len(trades) < MaxTradesC
                      THEN Append(trades, [maker |-> k.id, taker |-> incoming.id,
                                           price |-> k.price, qty |-> q])
                      ELSE trades
  BY MatchBestTakes
<1>2. k \in ActiveOrders /\ k.side # incoming.side /\ Crossing(incoming, k.price)
  BY DEF Abstract!Candidates, Abstract!Crosses, Crossing
<1>3. ASSUME NEW n \in ActiveOrders, n # k, n.side # incoming.side, Crossing(incoming, n.price)
      PROVE  \/ IF k.side = "sell" THEN k.price < n.price ELSE k.price > n.price
             \/ k.price = n.price /\ k.stamp < n.stamp
  <2>1. n \in Abstract!Candidates
    BY <1>3 DEF Abstract!Candidates, Abstract!Crosses, Crossing
  <2> QED BY <1>1, <1>3, <2>1 DEF Abstract!Ahead, Abstract!BetterPrice
<1>4. incoming.qty \in Nat /\ incoming.qty > 0 /\ incoming.id \in Nat
  <2>1. incoming.qty \in Nat /\ incoming.id \in Ids
    BY DEF EInv, TypeInv, CallInv, MatchBest
  <2> QED BY <2>1, MaxIdAssumption DEF MatchBest, CanTrade, Ids
<1>5. PICK x : x = [maker |-> k.id, taker |-> incoming.id, price |-> k.price, qty |-> q]
  OBVIOUS
<1>6. x \in [maker: Nat, taker: Nat, price: Nat, qty: Nat]
  <2>1. k.id \in Nat /\ k.price \in Nat
    BY <1>2, ActiveAligned DEF Aligned
  <2> QED BY <1>4, <1>5, <2>1
<1>7. Trades(Book(Unstamped(ActiveOrders), incoming, f),
             Book(Unstamped(ActiveOrders'), incoming', Append(f, x)))
  BY <1>1, <1>2, <1>3, <1>4, <1>5, ActiveAligned, FillTrades
<1>8. Append(f, x) \in Fills
  <2>1. PICK T : T = [maker: Nat, taker: Nat, price: Nat, qty: Nat]
    OBVIOUS
  <2>2. Append(f, x) \in Seq(T)
    BY <1>6, <2>1 DEF Fills
  <2> QED BY <2>1, <2>2 DEF Fills
<1>9. trades' = Reported(Append(f, x))
  BY <1>1, <1>5, <1>6, ReportedAppend DEF Fills
<1> QED BY <1>7, <1>8, <1>9

(* A step of the run changes the one book of both instances. *)
LEMMA SameShadowNext == S!LiveOrders' = SP!LiveOrders'
BY DEF S!LiveOrders, SP!LiveOrders, S!Dead, SP!Dead, S!Sides, SP!Sides

(* A trade of the shadow engine is the next one of its book. *)
LEMMA ShadowTrades ==
    ASSUME SP!Inv, Aligned(S!LiveOrders), S!MatchFront
    PROVE  Trades(ShadowBook, ShadowBook')
<1>1. SP!Abstract!Fill /\ s_pc = "match" /\ s_pc' \in {"rest", "match"}
  BY SameShadow, SP!MatchFrontFills, ShadowConstants DEF SP!MatchFront
<1>2. PICK L, K : L = S!LiveOrders /\ K = S!LiveOrders' /\ L = SP!LiveOrders /\ K = SP!LiveOrders'
  BY SameShadow, SameShadowNext
<1>3. PICK k, q :
         /\ k \in SP!Abstract!Candidates
         /\ q = SP!Abstract!Least(s_incoming.qty, k.qty)
         /\ \A n \in SP!Abstract!Candidates \ {k} : SP!Abstract!Ahead(k, n)
         /\ s_trades' = Append(s_trades, [maker |-> k.id, taker |-> s_incoming.id,
                                          price |-> k.price, qty |-> q])
         /\ s_incoming' = [s_incoming EXCEPT !.qty = s_incoming.qty - q]
         /\ K = (L \ {k}) \cup (IF q = k.qty THEN {} ELSE {[k EXCEPT !.qty = k.qty - q]})
  BY <1>1, <1>2 DEF SP!Abstract!Fill
<1>4. q = Min2(s_incoming.qty, k.qty) /\ s_incoming.qty > 0 /\ s_incoming.qty \in Nat
  BY <1>1, <1>3 DEF SP!Abstract!Fill, SP!Abstract!Least, Min2, SP!Inv, SP!TypeOK
<1>5. k \in L /\ k.side # s_incoming.side /\ Crossing(s_incoming, k.price)
  BY <1>2, <1>3 DEF SP!Abstract!Candidates, SP!Abstract!Crosses, Crossing
<1>6. ASSUME NEW n \in L, n # k, n.side # s_incoming.side, Crossing(s_incoming, n.price)
      PROVE  \/ IF k.side = "sell" THEN k.price < n.price ELSE k.price > n.price
             \/ k.price = n.price /\ k.stamp < n.stamp
  <2>1. n \in SP!Abstract!Candidates
    BY <1>2, <1>6 DEF SP!Abstract!Candidates, SP!Abstract!Crosses, Crossing
  <2> QED BY <1>3, <1>6, <2>1 DEF SP!Abstract!Ahead, SP!Abstract!BetterPrice
<1>7. Trades(Book(Unstamped(L), s_incoming, s_trades),
             Book(Unstamped(K), s_incoming', s_trades'))
  BY <1>2, <1>3, <1>4, <1>5, <1>6, FillTrades
<1> QED BY <1>1, <1>2, <1>7 DEF ShadowBook

(* Who has the order; the engine that has it works on it, and nothing else.*)
StageInv ==
    /\ stage \in {"none", "engine", "shadow"}
    /\ stage = "engine" <=> pc # "idle"
    /\ stage # "shadow" \/ line.qty = 0 => s_pc = "idle"
    /\ stage = "none" => line = NoOrder
    /\ stage = "engine" => line \in Orders
    /\ stage = "shadow" => line \in Orders \/ (line.id \in Ids /\ line.qty = 0)
    /\ pc # "idle" => incoming.id = line.id
    /\ s_pc # "idle" => s_incoming.id = line.id

(* Writing an order hands it to the engine, or to the shadow engine when   *)
(* the engine ignores it.                                                  *)
LEMMA StageWrite ==
    ASSUME StageInv, NEW o \in Orders, Write(o)
    PROVE  StageInv'
<1>1. /\ stage = "none" /\ line' = o /\ UNCHANGED <<s_pc, s_incoming>> /\ s_pc = "idle" /\ pc = "idle"
  BY DEF Write, StageInv, shadow
<1>2. \/ stage' = "engine" /\ pc' = "match" /\ incoming' = o
      \/ stage' = "shadow" /\ pc' = "idle"
  BY <1>1 DEF Write, Receive, IgnoreOld
<1> QED BY <1>1, <1>2 DEF StageInv

(* The steps of the stream keep it. *)
LEMMA StageStep ==
    ASSUME StageInv, HeldInv, EInv, SP!Inv, [LockstepNext]_lockstepVars
    PROVE  StageInv'
<1>a. incoming.qty \in Nat /\ incoming = [id |-> incoming.id, side |-> incoming.side, price |-> incoming.price,
                                          qty |-> incoming.qty, market |-> incoming.market]
  BY DEF EInv, TypeInv
<1>b. s_incoming = [id |-> s_incoming.id, side |-> s_incoming.side, price |-> s_incoming.price,
                    qty |-> s_incoming.qty, market |-> s_incoming.market]
  BY DEF SP!Inv, SP!TypeOK
<1>1. ASSUME NEW o \in Orders, GenerateOrder(o) PROVE StageInv'
  BY <1>1, StageWrite DEF GenerateOrder
<1>2. ASSUME NEW o \in Orders, HoldOrder(o) PROVE StageInv'
  BY <1>2 DEF HoldOrder, StageInv, vars, shadow
<1>3. CASE WriteHeld
  <2>1. held \in Orders /\ Write(held)
    BY <1>3 DEF WriteHeld, HeldInv
  <2> QED BY <2>1, StageWrite
<1>4. CASE WriteFails
  BY <1>4 DEF WriteFails, StageInv, vars, shadow
<1>5. ASSUME NEW target \in Ids, GenerateCancel(target) PROVE StageInv'
  <2>1. /\ stage = "none" /\ stage' = "shadow" /\ line' = [NoOrder EXCEPT !.id = target]
        /\ UNCHANGED <<pc, incoming, s_pc, s_incoming>>
    BY <1>5 DEF GenerateCancel, CancelOrder, shadow
  <2>2. line'.id = target /\ line'.qty = 0
    BY <2>1 DEF NoOrder
  <2> QED BY <2>1, <2>2 DEF StageInv
<1>6. CASE EngineMatches
  <2>1. /\ stage = "engine" /\ UNCHANGED <<stage, line, s_pc, s_incoming>>
        /\ pc # "idle" /\ pc' # "idle" /\ incoming'.id = incoming.id
    <3>1. stage = "engine" /\ UNCHANGED <<stage, line, s_pc, s_incoming>>
      BY <1>6 DEF EngineMatches, shadow
    <3>2. CASE MatchBest
      <4>1. \E q : incoming' = [incoming EXCEPT !.qty = q]
        BY <3>2, MatchBestTakes
      <4> QED BY <1>a, <3>1, <3>2, <4>1 DEF MatchBest
    <3>3. CASE MatchDone
      BY <3>1, <3>3 DEF MatchDone
    <3> QED BY <1>6, <3>2, <3>3 DEF EngineMatches
  <2> QED BY <2>1 DEF StageInv
<1>7. CASE EngineAnswers
  <2>1. /\ stage = "engine" /\ stage' = "shadow" /\ pc' = "idle" /\ UNCHANGED <<line, s_pc, s_incoming>>
    BY <1>7 DEF EngineAnswers, InsertRemaining, shadow
  <2> QED BY <2>1 DEF StageInv
<1>8. CASE ShadowSubmit
  <2>1. /\ stage = "shadow" /\ line.qty > 0 /\ UNCHANGED <<stage, line, pc, incoming>>
        /\ s_pc' = "level" /\ s_incoming' = line
    BY <1>8 DEF ShadowSubmit, S!Accept, vars
  <2> QED BY <2>1 DEF StageInv
<1>9. CASE ShadowMatches
  <2>1. /\ stage = "shadow" /\ UNCHANGED <<stage, line, pc, incoming>>
    BY <1>9 DEF ShadowMatches, vars
  <2>2. s_pc # "idle" /\ s_incoming'.id = s_incoming.id
    <3>1. CASE S!StopMatching \/ S!EnterLevel \/ S!Sweep \/ S!LeaveLevel
      BY <3>1 DEF S!StopMatching, S!EnterLevel, S!Sweep, S!LeaveLevel
    <3>2. CASE S!MatchFront
      <4>1. \E q : s_incoming' = [s_incoming EXCEPT !.qty = q]
        BY <3>2 DEF S!MatchFront
      <4> QED BY <1>b, <3>2, <4>1 DEF S!MatchFront
    <3> QED BY <1>9, <3>1, <3>2 DEF ShadowMatches
  <2> QED BY <2>1, <2>2 DEF StageInv
<1>10. CASE ShadowAnswers \/ ShadowCancel
  <2>1. stage = "shadow" /\ stage' = "none" /\ line' = NoOrder /\ UNCHANGED <<pc, incoming>>
    BY <1>10 DEF ShadowAnswers, ShadowCancel, Compared, vars
  <2>2. s_pc' = "idle"
    BY <1>10 DEF ShadowAnswers, ShadowCancel, S!Rest, S!CancelOrder, S!Refuse
  <2> QED BY <2>1, <2>2 DEF StageInv
<1>11. CASE NewRun
  <2>1. UNCHANGED <<stage, line, pc, incoming, s_pc, s_incoming>>
    BY <1>11 DEF NewRun, ResetOrderBook, S!Reset
  <2> QED BY <2>1 DEF StageInv
<1>12. CASE UNCHANGED lockstepVars
  BY <1>12 DEF lockstepVars, StageInv, vars, shadow
<1> QED BY <1>1, <1>2, <1>3, <1>4, <1>5, <1>6, <1>7, <1>8, <1>9, <1>10, <1>11, <1>12 DEF LockstepNext

(* The shadow book of the run keeps what is proved of ShadowOrderBook. *)
LEMMA ShadowStep ==
    ASSUME StageInv, SP!Inv, [LockstepNext]_lockstepVars
    PROVE  SP!Inv'
<1>1. CASE ShadowSubmit
  <2>1. line \in Orders /\ SP!Accept(line)
    BY <1>1, SameShadow DEF ShadowSubmit, StageInv
  <2>2. line \in SP!Orders
    BY <2>1 DEF Orders, SP!Orders, Sides, SP!Sides
  <2> QED BY <2>1, <2>2, SP!AcceptStep, ShadowConstants
<1>2. CASE ShadowMatches
  <2>1. SP!StopMatching \/ SP!EnterLevel \/ SP!Sweep \/ SP!MatchFront \/ SP!LeaveLevel
    BY <1>2, SameShadow DEF ShadowMatches
  <2>2. CASE SP!StopMatching
    BY <2>2, SP!StopMatchingStep, ShadowConstants
  <2>3. CASE SP!EnterLevel
    BY <2>3, SP!EnterLevelStep, ShadowConstants
  <2>4. CASE SP!Sweep
    BY <2>4, SP!SweepStep, ShadowConstants
  <2>5. CASE SP!MatchFront
    BY <2>5, SP!MatchFrontStep, ShadowConstants
  <2>6. CASE SP!LeaveLevel
    BY <2>6, SP!LeaveLevelStep, ShadowConstants
  <2> QED BY <2>1, <2>2, <2>3, <2>4, <2>5, <2>6
<1>3. CASE ShadowAnswers
  <2>1. SP!Rest
    BY <1>3, SameShadow DEF ShadowAnswers
  <2> QED BY <2>1, SP!RestStep, ShadowConstants
<1>4. CASE ShadowCancel
  <2>1. line.id \in Ids
    BY <1>4, OrderFacts DEF ShadowCancel, StageInv
  <2>2. SP!CancelOrder(line.id) \/ SP!Refuse
    BY <1>4, SameShadow DEF ShadowCancel
  <2>3. CASE SP!CancelOrder(line.id)
    BY <2>1, <2>3, SP!CancelStep, ShadowConstants
  <2>4. CASE SP!Refuse
    BY <2>4, SP!RefuseStep, ShadowConstants
  <2> QED BY <2>2, <2>3, <2>4
<1>5. CASE NewRun
  <2>1. SP!Reset
    BY <1>5, SameShadow DEF NewRun
  <2> QED BY <2>1, SP!ResetStep, ShadowConstants
<1>6. ASSUME UNCHANGED shadow PROVE SP!Inv'
  <2>1. UNCHANGED SP!vars
    BY <1>6 DEF shadow, SP!vars, SP!book, SP!ghosts
  <2> QED BY <2>1, SP!StutterStep, ShadowConstants
<1>7. \/ ShadowSubmit \/ ShadowMatches \/ ShadowAnswers \/ ShadowCancel \/ NewRun
      \/ UNCHANGED shadow
  BY DEF LockstepNext, lockstepVars, GenerateOrder, HoldOrder, Write, WriteHeld, WriteFails,
         GenerateCancel, EngineMatches, EngineAnswers
<1> QED BY <1>1, <1>2, <1>3, <1>4, <1>5, <1>6, <1>7

(* Both books start empty, and no order is under way. *)
LEMMA RunInit == LockstepInit => StageInv /\ SP!Inv /\ HeldInv
<1> SUFFICES ASSUME LockstepInit PROVE StageInv /\ SP!Inv /\ HeldInv
  OBVIOUS
<1>1. StageInv /\ HeldInv
  BY DEF LockstepInit, Init, S!Init, StageInv, HeldInv
<1>2. SP!Init /\ s_clock \in Nat
  BY DEF LockstepInit, S!Init, SP!Init, S!Sides, SP!Sides, S!NoOrder, SP!NoOrder
<1>3. SP!Inv
  BY <1>2, SP!EmptyBook, ShadowConstants DEF SP!Init
<1> QED BY <1>1, <1>3

(* Until the run comes apart the ids go up in both engines, and a match    *)
(* that was cut short has nothing left to rest.                            *)
IdsInv ==
    ~apart =>
        /\ stage # "none" /\ line.qty > 0 => line.id = max_order_id_processed
        /\ \A i \in s_index : /\ i <= max_order_id_processed
                              /\ stage # "none" /\ line.qty > 0 => i # line.id
        /\ \A i, j \in s_index : i < j => s_stamp[i] < s_stamp[j]
        /\ s_pc = "rest" => s_incoming.qty = 0 \/ Len(s_trades) < MaxTrades

(* An order that is taken has the highest id of all. *)
LEMMA IdsWrite ==
    ASSUME IdsInv, EInv, SP!Inv, NEW o \in Orders, Write(o)
    PROVE  IdsInv'
<1> SUFFICES ASSUME ~apart' PROVE IdsInv'
  BY DEF IdsInv
<1>1. /\ Receive(o) /\ apart' = apart /\ stage' = "engine" /\ line' = o
      /\ UNCHANGED <<s_index, s_stamp, s_pc, s_incoming, s_trades>>
  BY DEF Write, shadow
<1>2. o.id > max_order_id_processed /\ max_order_id_processed' = o.id
  BY <1>1 DEF Receive
<1>3. o.id \in Nat /\ max_order_id_processed \in Nat /\ s_index \subseteq Nat
  BY OrderFacts, MaxIdAssumption DEF EInv, TypeInv, SP!Inv, SP!TypeOK, Ids
<1>4. \A i \in s_index : i <= max_order_id_processed
  BY <1>1 DEF IdsInv
<1>5. \A i \in s_index : i <= o.id /\ i # o.id
  BY <1>2, <1>3, <1>4
<1> QED BY <1>1, <1>2, <1>5 DEF IdsInv

(* The steps of the run keep it. *)
LEMMA IdsStep ==
    ASSUME IdsInv, StageInv, HeldInv, EInv, SP!Inv, SP!Inv', [LockstepNext]_lockstepVars
    PROVE  IdsInv'
<1> SUFFICES ASSUME ~apart' PROVE IdsInv'
  BY DEF IdsInv
<1>0. /\ s_index \subseteq Ids /\ s_index \subseteq Nat /\ s_stamp \in [Ids -> Nat]
      /\ s_trades' \in Seq([maker: Ids, taker: Ids, price: Prices, qty: Nat \ {0}])
      /\ s_incoming'.qty \in Nat /\ max_order_id_processed \in Nat
  <2>1. Ids \subseteq Nat
    BY MaxIdAssumption DEF Ids
  <2>2. s_index \subseteq Ids /\ s_stamp \in [Ids -> Nat]
    BY DEF SP!Inv, SP!TypeOK
  <2>3. s_trades' \in Seq([maker: Ids, taker: Ids, price: Prices, qty: Nat \ {0}])
    BY DEF SP!Inv, SP!TypeOK
  <2>4. s_incoming'.qty \in Nat
    BY DEF SP!Inv, SP!TypeOK
  <2>5. max_order_id_processed \in Nat
    BY DEF EInv, TypeInv
  <2> QED BY <2>1, <2>2, <2>3, <2>4, <2>5
<1>1. ASSUME NEW o \in Orders, GenerateOrder(o) PROVE IdsInv'
  BY <1>1, IdsWrite DEF GenerateOrder
<1>2. ASSUME NEW o \in Orders, HoldOrder(o) PROVE IdsInv'
  BY <1>2 DEF HoldOrder, IdsInv, vars, shadow
<1>3. CASE WriteHeld
  <2>1. held \in Orders /\ Write(held)
    BY <1>3 DEF WriteHeld, HeldInv
  <2> QED BY <2>1, IdsWrite
<1>4. CASE WriteFails
  BY <1>4 DEF WriteFails, IdsInv, vars, shadow
<1>5. ASSUME NEW target \in Ids, GenerateCancel(target) PROVE IdsInv'
  <2>1. /\ line' = [NoOrder EXCEPT !.id = target] /\ ~apart
        /\ UNCHANGED <<max_order_id_processed, s_index, s_stamp, s_pc, s_incoming, s_trades>>
    BY <1>5 DEF GenerateCancel, CancelOrder, shadow
  <2>2. ~(line'.qty > 0)
    BY <2>1 DEF NoOrder
  <2> QED BY <2>1, <2>2 DEF IdsInv
<1>6. CASE EngineMatches \/ EngineAnswers
  <2>1. ~apart /\ stage # "none" /\ stage' # "none" /\ line' = line
    <3>1. CASE EngineMatches
      BY <3>1 DEF EngineMatches
    <3>2. CASE EngineAnswers
      <4>1. stage = "engine" /\ stage' = "shadow" /\ line' = line
        BY <3>2 DEF EngineAnswers
      <4>2. ~apart
        BY <3>2, Zenon DEF EngineAnswers
      <4> QED BY <4>1, <4>2
    <3> QED BY <1>6, <3>1, <3>2
  <2>2. UNCHANGED <<s_index, s_stamp, s_pc, s_incoming, s_trades>>
    BY <1>6 DEF EngineMatches, EngineAnswers, shadow
  <2>3. max_order_id_processed' = max_order_id_processed
    BY <1>6 DEF EngineMatches, EngineAnswers, MatchBest, MatchDone, InsertRemaining
  <2> QED BY <2>1, <2>2, <2>3 DEF IdsInv
<1>7. CASE ShadowSubmit
  <2>1. /\ ~apart /\ s_pc' # "rest"
        /\ UNCHANGED <<stage, max_order_id_processed, line, s_index, s_stamp>>
    BY <1>7 DEF ShadowSubmit, S!Accept, S!book, vars
  <2> QED BY <2>1 DEF IdsInv
<1>8. CASE ShadowMatches
  <2>1. /\ ~apart /\ UNCHANGED <<stage, max_order_id_processed, line>>
        /\ ~(s_pc' = "rest" /\ s_incoming'.qty > 0 /\ Len(s_trades') >= MaxTrades)
    BY <1>8 DEF ShadowMatches, vars
  <2>2. s_stamp' = s_stamp /\ s_index' \subseteq s_index
    <3>1. CASE S!StopMatching \/ S!EnterLevel \/ S!LeaveLevel \/ S!Sweep
      BY <3>1 DEF S!StopMatching, S!EnterLevel, S!LeaveLevel, S!Sweep, S!book, S!ghosts
    <3>2. CASE S!MatchFront
      BY <3>2 DEF S!MatchFront
    <3> QED BY <1>8, <3>1, <3>2 DEF ShadowMatches
  <2>3. s_pc' = "rest" => s_incoming'.qty = 0 \/ Len(s_trades') < MaxTrades
    <3>1. Len(s_trades') \in Nat /\ MaxTrades \in Nat
      BY <1>0, ShadowLimitAssumption
    <3> QED BY <1>0, <2>1, <3>1
  <2> QED BY <2>1, <2>2, <2>3 DEF IdsInv
<1>9. CASE ShadowAnswers
  <2>1. /\ ~apart /\ stage = "shadow" /\ stage' = "none" /\ UNCHANGED max_order_id_processed
        /\ s_pc = "rest" /\ s_pc' = "idle"
        /\ \/ UNCHANGED <<s_index, s_stamp>>
           \/ /\ s_index' = s_index \cup {s_incoming.id}
              /\ s_stamp' = [s_stamp EXCEPT ![s_incoming.id] = s_clock]
    BY <1>9 DEF ShadowAnswers, Compared, S!Rest, vars
  <2>2. line.qty > 0 /\ s_incoming.id = line.id /\ line.id \in Ids
    BY <2>1, OrderFacts DEF StageInv
  <2>3. CASE UNCHANGED <<s_index, s_stamp>>
    BY <2>1, <2>3 DEF IdsInv
  <2>4. CASE /\ s_index' = s_index \cup {s_incoming.id}
             /\ s_stamp' = [s_stamp EXCEPT ![s_incoming.id] = s_clock]
    <3>1. \A i \in s_index : i <= line.id /\ i # line.id /\ line.id = max_order_id_processed
      BY <2>1, <2>2 DEF IdsInv
    <3>2. \A i \in s_index : s_stamp[i] < s_clock
      BY SP!LiveFacts, ShadowConstants
    <3>3. s_stamp'[line.id] = s_clock /\ \A i \in s_index : s_stamp'[i] = s_stamp[i]
      BY <1>0, <2>2, <2>4, <3>1
    <3>4. \A i \in s_index' : i <= max_order_id_processed
      BY <1>0, <2>1, <2>2, <2>4, <3>1 DEF IdsInv
    <3>5. ASSUME NEW i \in s_index', NEW j \in s_index', i < j PROVE s_stamp'[i] < s_stamp'[j]
      <4>1. i \in s_index
        <5>1. line.id \in Nat
          BY <2>2, MaxIdAssumption DEF Ids
        <5>2. j <= line.id
          BY <2>2, <2>4, <3>1, <5>1
        <5>3. i # line.id
          BY <1>0, <2>2, <2>4, <3>5, <5>1, <5>2
        <5> QED BY <2>2, <2>4, <5>3
      <4>2. CASE j = line.id
        BY <3>2, <3>3, <4>1, <4>2
      <4>3. CASE j # line.id
        <5>1. j \in s_index
          BY <2>2, <2>4, <4>3
        <5> QED BY <2>1, <3>3, <3>5, <4>1, <5>1 DEF IdsInv
      <4> QED BY <4>2, <4>3
    <3> QED BY <2>1, <3>4, <3>5 DEF IdsInv
  <2> QED BY <2>1, <2>3, <2>4
<1>10. CASE ShadowCancel
  <2>1. /\ ~apart /\ stage' = "none" /\ s_pc' # "rest"
        /\ UNCHANGED <<max_order_id_processed, s_index, s_stamp>>
    BY <1>10 DEF ShadowCancel, Compared, S!CancelOrder, S!Refuse, S!ghosts, S!book, vars
  <2> QED BY <2>1 DEF IdsInv
<1>11. CASE NewRun
  <2>1. s_index' = {} /\ stage' = "none" /\ s_pc' # "rest"
    BY <1>11 DEF NewRun, S!Reset
  <2> QED BY <2>1 DEF IdsInv
<1>12. CASE UNCHANGED lockstepVars
  BY <1>12 DEF lockstepVars, IdsInv, vars, shadow
<1> QED BY <1>1, <1>2, <1>3, <1>4, <1>5, <1>6, <1>7, <1>8, <1>9, <1>10, <1>11, <1>12 DEF LockstepNext

(* So the orders of the shadow book arrived in the order of their ids. *)
LEMMA ShadowAligned == ASSUME IdsInv, SP!Inv, ~apart PROVE Aligned(S!LiveOrders)
<1>1. PICK L : L = S!LiveOrders /\ L = SP!LiveOrders
  BY SameShadow
<1>2. ASSUME NEW m \in L
      PROVE  /\ m \in [id: Nat, side: Sides, price: Nat, qty: Nat, stamp: Nat]
             /\ m.id \in s_index /\ m.stamp = s_stamp[m.id]
  <2>1. /\ m \in [id: Ids, side: SP!Sides, price: Prices, qty: Nat \ {0}, stamp: Nat]
        /\ m.id \in s_index /\ m.stamp = s_stamp[m.id]
    BY <1>1, SP!LiveFacts, ShadowConstants
  <2>2. Ids \subseteq Nat /\ Prices \subseteq Nat /\ SP!Sides = Sides
    BY MaxIdAssumption, RefPricesAssumption DEF Ids, Sides, SP!Sides
  <2> QED BY <2>1, <2>2
<1>3. ASSUME NEW m \in L, NEW n \in L, m.id = n.id PROVE m = n
  BY <1>1, <1>3, SP!LiveFacts, ShadowConstants
<1>4. ASSUME NEW m \in L, NEW n \in L, m.id < n.id PROVE m.stamp < n.stamp
  BY <1>2, <1>4 DEF IdsInv
<1> QED BY <1>1, <1>2, <1>3, <1>4 DEF Aligned

\* What is left of an order, as it joins a book.
Rests(t) ==
    IF ~t.market /\ t.qty > 0
    THEN {[id |-> t.id, side |-> t.side, price |-> t.price, qty |-> t.qty, stamp |-> 0]} ELSE {}

(* Until the run comes apart, the engine is ahead of the shadow engine by  *)
(* trades that the shadow book will make, or by a cancel.                  *)
AheadInv ==
    ~apart =>
        /\ stage = "none" => /\ Unstamped(ActiveOrders) = Unstamped(S!LiveOrders)
                             /\ trades = Reported(s_trades)
        /\ stage = "engine" =>
              \E f \in Fills : /\ Reaches(ShadowBook, Book(Unstamped(ActiveOrders), incoming, f))
                               /\ trades = Reported(f)
        /\ stage = "shadow" /\ line.qty > 0 =>
              \E l, t : \E f \in Fills : /\ Reaches(ShadowBook, Book(l, t, f)) /\ Ended(Book(l, t, f))
                                         /\ Unstamped(ActiveOrders) = l \cup Rests(t)
                                         /\ trades = Reported(f)
        /\ stage = "shadow" /\ line.qty = 0 =>
              /\ Unstamped(ActiveOrders) = {o \in Unstamped(S!LiveOrders) : o.id # line.id}
              /\ trades = <<>>

(* No trades, none reported. *)
LEMMA ReportedNone == <<>> \in Fills /\ Reported(<<>>) = <<>>
<1>1. Min2(Len(<<>>), MaxTradesC) = 0
  BY TablesAssumption DEF Min2
<1>2. SubSeq(<<>>, 1, 0) = <<>>
  OBVIOUS
<1> QED BY <1>1, <1>2 DEF Reported, Fills

(* An order taken out of a book is taken out of the book without stamps. *)
LEMMA UnstampedWithout ==
    ASSUME NEW L, Aligned(L), NEW i, NEW K, K = {m \in L : m.id # i}
    PROVE  Unstamped(K) = {o \in Unstamped(L) : o.id # i}
<1>1. \A m \in L : m \in [id: Nat, side: Sides, price: Nat, qty: Nat, stamp: Nat]
  BY DEF Aligned
<1>2. \A m \in K : m \in [id: Nat, side: Sides, price: Nat, qty: Nat, stamp: Nat]
  BY <1>1
<1>3. ASSUME NEW x \in Unstamped(K) PROVE x \in Unstamped(L) /\ x.id # i
  <2>1. PICK m \in K : x = [id |-> m.id, side |-> m.side, price |-> m.price, qty |-> m.qty, stamp |-> 0]
    BY <1>2, UnstampedMember
  <2>2. m \in L /\ x.id = m.id /\ m.id # i
    BY <2>1
  <2> QED BY <1>1, <2>1, <2>2, UnstampedMember
<1>4. ASSUME NEW x \in Unstamped(L), x.id # i PROVE x \in Unstamped(K)
  <2>1. PICK m \in L : x = [id |-> m.id, side |-> m.side, price |-> m.price, qty |-> m.qty, stamp |-> 0]
    BY <1>1, UnstampedMember
  <2>2. m \in K
    BY <1>4, <2>1
  <2> QED BY <1>2, <2>1, <2>2, UnstampedMember
<1> QED BY <1>3, <1>4

(* An order that joins a book joins the book without stamps. *)
LEMMA UnstampedWith ==
    ASSUME NEW L, NEW t, NEW s, NEW K,
           K = L \cup (IF ~t.market /\ t.qty > 0
                       THEN {[id |-> t.id, side |-> t.side, price |-> t.price, qty |-> t.qty, stamp |-> s]}
                       ELSE {})
    PROVE  Unstamped(K) = Unstamped(L) \cup Rests(t)
<1>1. CASE ~t.market /\ t.qty > 0
  <2>1. PICK r : r = [id |-> t.id, side |-> t.side, price |-> t.price, qty |-> t.qty, stamp |-> s]
    OBVIOUS
  <2>2. [r EXCEPT !.stamp = 0] = [id |-> t.id, side |-> t.side, price |-> t.price, qty |-> t.qty, stamp |-> 0]
    BY <2>1
  <2>3. K = L \cup {r}
    BY <1>1, <2>1
  <2>4. Unstamped(K) = Unstamped(L) \cup {[r EXCEPT !.stamp = 0]}
    BY <2>3 DEF Unstamped
  <2> QED BY <1>1, <2>2, <2>4 DEF Rests
<1>2. CASE ~(~t.market /\ t.qty > 0)
  <2>1. K = L /\ Rests(t) = {}
    BY <1>2 DEF Rests
  <2> QED BY <2>1
<1> QED BY <1>1, <1>2

(* What leaves both books and the order alone keeps it. *)
LEMMA AheadSame ==
    ASSUME AheadInv, UNCHANGED <<vars, shadow, stage, line, apart>>
    PROVE  AheadInv'
<1>1. ActiveOrders' = ActiveOrders
  BY DEF ActiveOrders, vars, ghosts
<1>2. S!LiveOrders' = S!LiveOrders
  BY DEF S!LiveOrders, S!Dead, shadow
<1>3. ShadowBook' = ShadowBook
  BY <1>2 DEF ShadowBook, shadow
<1>4. UNCHANGED <<incoming, trades, s_trades, stage, line, apart>>
  BY DEF vars, shadow
<1> QED BY <1>1, <1>2, <1>3, <1>4 DEF AheadInv

(* An order that is taken meets the same book in both engines. *)
LEMMA AheadWrite ==
    ASSUME AheadInv, StageInv, NEW o \in Orders, Write(o)
    PROVE  AheadInv'
<1> SUFFICES ASSUME ~apart' PROVE AheadInv'
  BY DEF AheadInv
<1>1. /\ Receive(o) /\ apart' = apart /\ stage = "none" /\ stage' = "engine" /\ line' = o
      /\ UNCHANGED shadow
  BY DEF Write
<1>2. ActiveOrders' = ActiveOrders /\ incoming' = o /\ trades' = <<>>
  BY <1>1 DEF Receive, ActiveOrders, ghosts
<1>3. S!LiveOrders' = S!LiveOrders
  BY <1>1 DEF S!LiveOrders, S!Dead, shadow
<1>4. s_pc' = "idle"
  BY <1>1 DEF StageInv, shadow
<1>5. Unstamped(ActiveOrders) = Unstamped(S!LiveOrders)
  BY <1>1 DEF AheadInv
<1>6. ShadowBook' = Book(Unstamped(ActiveOrders'), incoming', <<>>)
  BY <1>1, <1>2, <1>3, <1>4, <1>5 DEF ShadowBook
<1>7. Reaches(ShadowBook', Book(Unstamped(ActiveOrders'), incoming', <<>>))
  BY <1>6 DEF Reaches
<1> QED BY <1>1, <1>2, <1>7, ReportedNone DEF AheadInv

(* A cancel takes the order out of the engine's book first. *)
LEMMA AheadCancel ==
    ASSUME AheadInv, StageInv, EInv, NEW target \in Ids, GenerateCancel(target)
    PROVE  AheadInv'
<1> SUFFICES ASSUME ~apart' PROVE AheadInv'
  BY DEF AheadInv
<1>1. /\ ~apart /\ stage = "none" /\ stage' = "shadow" /\ CancelOrder(target) /\ UNCHANGED shadow
      /\ line' = [NoOrder EXCEPT !.id = target]
  BY DEF GenerateCancel
<1>2. line'.id = target /\ line'.qty = 0 /\ trades' = <<>>
  BY <1>1 DEF NoOrder, CancelOrder
<1>3. S!LiveOrders' = S!LiveOrders
  BY <1>1 DEF S!LiveOrders, S!Dead, shadow
<1>4. Unstamped(ActiveOrders) = Unstamped(S!LiveOrders)
  BY <1>1 DEF AheadInv
<1>5. ActiveOrders' = {m \in ActiveOrders : m.id # target}
  <2>1. CASE order_index[target].active
    <3>1. ActiveOrders' = ActiveOrders \ {Shown(target)} /\ Shown(target) \in ActiveOrders
      BY <1>1, <2>1, CancelTakesOut
    <3>2. Shown(target).id = target
      BY DEF Shown
    <3>3. \A m \in ActiveOrders : m.id = target => m = Shown(target)
      BY <3>1, <3>2, ActiveAligned DEF Aligned
    <3> QED BY <3>1, <3>2, <3>3
  <2>2. CASE ~order_index[target].active
    <3>1. ActiveOrders' = ActiveOrders
      BY <1>1, <2>2, CancelTakesOut
    <3>2. \A m \in ActiveOrders : m.id # target
      BY <2>2, ActiveMember DEF Shown
    <3> QED BY <3>1, <3>2
  <2> QED BY <2>1, <2>2
<1>6. Unstamped(ActiveOrders') = {o \in Unstamped(ActiveOrders) : o.id # target}
  BY <1>5, ActiveAligned, UnstampedWithout
<1> QED BY <1>1, <1>2, <1>3, <1>4, <1>6 DEF AheadInv

(* The engine makes the trades that the shadow book will make. *)
LEMMA AheadMatches ==
    ASSUME AheadInv, EInv, EngineMatches
    PROVE  AheadInv'
<1> SUFFICES ASSUME ~apart' PROVE AheadInv'
  BY DEF AheadInv
<1>1. ~apart /\ stage = "engine" /\ stage' = "engine" /\ UNCHANGED <<shadow, line>>
  BY DEF EngineMatches
<1>2. ShadowBook' = ShadowBook
  BY <1>1 DEF ShadowBook, S!LiveOrders, S!Dead, shadow
<1>3. PICK f \in Fills : /\ Reaches(ShadowBook, Book(Unstamped(ActiveOrders), incoming, f))
                         /\ trades = Reported(f)
  BY <1>1 DEF AheadInv
<1>4. CASE MatchBest
  <2>1. PICK g \in Fills : /\ Trades(Book(Unstamped(ActiveOrders), incoming, f),
                                     Book(Unstamped(ActiveOrders'), incoming', g))
                           /\ trades' = Reported(g)
    BY <1>3, <1>4, EngineTrades
  <2>2. Reaches(ShadowBook, Book(Unstamped(ActiveOrders'), incoming', g))
    BY <1>3, <2>1, ReachesOn
  <2> QED BY <1>1, <1>2, <2>1, <2>2 DEF AheadInv
<1>5. CASE MatchDone
  <2>1. ActiveOrders' = ActiveOrders /\ incoming' = incoming /\ trades' = trades
    BY <1>5 DEF MatchDone, ActiveOrders, ghosts
  <2> QED BY <1>1, <1>2, <1>3, <2>1 DEF AheadInv
<1> QED BY <1>4, <1>5 DEF EngineMatches

(* When it answers, nothing is left to trade, and the rest has joined its  *)
(* book.                                                                   *)
LEMMA AheadAnswers ==
    ASSUME AheadInv, StageInv, EInv, EngineAnswers
    PROVE  AheadInv'
<1> SUFFICES ASSUME ~apart' PROVE AheadInv'
  BY DEF AheadInv
<1>1. /\ stage = "engine" /\ stage' = "shadow" /\ UNCHANGED <<shadow, line>> /\ InsertRemaining
      /\ trades' = trades
  BY DEF EngineAnswers, InsertRemaining
<1>2. ~apart /\ ~(Remains /\ line.id >= MaxOrdersC)
  BY Zenon DEF EngineAnswers
<1>3. incoming.id = line.id /\ line.id \in Nat /\ line.qty > 0
  <2>1. incoming.id = line.id /\ line \in Orders
    BY <1>1 DEF StageInv
  <2>2. line.id \in Nat /\ line.qty \in Nat \ {0}
    BY <2>1, OrderFacts
  <2> QED BY <2>1, <2>2
<1>4. ShadowBook' = ShadowBook
  BY <1>1 DEF ShadowBook, S!LiveOrders, S!Dead, shadow
<1>5. PICK f \in Fills : /\ Reaches(ShadowBook, Book(Unstamped(ActiveOrders), incoming, f))
                         /\ trades = Reported(f)
  BY <1>1, <1>2 DEF AheadInv
<1>6. Ended(Book(Unstamped(ActiveOrders), incoming, f))
  <2>1. CASE incoming.qty = 0
    BY <2>1 DEF Ended, Book
  <2>2. CASE Abstract!Candidates = {}
    <3>1. ASSUME NEW x \in Unstamped(ActiveOrders), x.side # incoming.side, Crossing(incoming, x.price)
          PROVE  FALSE
      <4>1. PICK m \in ActiveOrders : x = [id |-> m.id, side |-> m.side, price |-> m.price, qty |-> m.qty, stamp |-> 0]
        BY ActiveAligned, UnstampedMember DEF Aligned
      <4>2. m.side # incoming.side /\ Crossing(incoming, m.price)
        BY <3>1, <4>1
      <4> QED BY <2>2, <4>2 DEF Abstract!Candidates, Abstract!Crosses, Crossing
    <3> QED BY <3>1 DEF Ended, Crossers, Book
  <2> QED BY <1>1, <2>1, <2>2, InsertTakes
<1>7. Unstamped(ActiveOrders') = Unstamped(ActiveOrders) \cup Rests(incoming)
  <2>1. Remains => incoming.id < MaxOrdersC
    BY <1>2, <1>3, TablesAssumption
  <2>2. ActiveOrders' = ActiveOrders \cup
           (IF ~incoming.market /\ incoming.qty > 0
            THEN {[id |-> incoming.id, side |-> incoming.side, price |-> incoming.price,
                   qty |-> incoming.qty, stamp |-> clock]} ELSE {})
    BY <1>1, <2>1, InsertTakes DEF Remains, Abstract!Resting
  <2> QED BY <2>2, UnstampedWith
<1> QED BY <1>1, <1>2, <1>3, <1>4, <1>5, <1>6, <1>7 DEF AheadInv

(* The shadow engine takes the order, to its book as it stands. *)
LEMMA AheadSubmit ==
    ASSUME AheadInv, StageInv, SP!Inv, ShadowSubmit
    PROVE  AheadInv'
<1> SUFFICES ASSUME ~apart' PROVE AheadInv'
  BY DEF AheadInv
<1>1. /\ ~apart /\ stage = "shadow" /\ line.qty > 0 /\ S!Accept(line) /\ UNCHANGED <<vars, stage, line>>
      /\ ~(line.qty = 0)
  BY DEF ShadowSubmit
<1>2. ActiveOrders' = ActiveOrders /\ trades' = trades
  BY <1>1 DEF ActiveOrders, vars, ghosts
<1>3. /\ s_pc = "idle" /\ s_pc' # "idle" /\ s_incoming' = line /\ s_trades' = <<>>
      /\ S!LiveOrders' = S!LiveOrders
  BY <1>1 DEF S!Accept, S!LiveOrders, S!Dead, S!book
<1>4. ShadowBook' = ShadowBook
  BY <1>3 DEF ShadowBook
<1> QED BY <1>1, <1>2, <1>4 DEF AheadInv

(* It makes the trades that its book was to make, in their order. *)
LEMMA AheadShadow ==
    ASSUME AheadInv, IdsInv, StageInv, SP!Inv, ShadowMatches
    PROVE  AheadInv'
<1> SUFFICES ASSUME ~apart' PROVE AheadInv'
  BY DEF AheadInv
<1>1. /\ ~apart /\ stage = "shadow" /\ UNCHANGED <<vars, stage, line>>
  BY DEF ShadowMatches
<1>2. ActiveOrders' = ActiveOrders /\ trades' = trades
  BY <1>1 DEF ActiveOrders, vars, ghosts
<1>3. s_pc # "idle" /\ s_pc' # "idle"
  BY DEF ShadowMatches, S!StopMatching, S!EnterLevel, S!Sweep, S!MatchFront, S!LeaveLevel
<1>4. line.qty > 0 /\ ~(line.qty = 0)
  <2>1. line \in Orders
    BY <1>1, <1>3 DEF StageInv
  <2> QED BY <2>1, OrderFacts
<1>5. PICK l, t : \E f \in Fills : /\ Reaches(ShadowBook, Book(l, t, f)) /\ Ended(Book(l, t, f))
                                   /\ Unstamped(ActiveOrders) = l \cup Rests(t)
                                   /\ trades = Reported(f)
  BY <1>1, <1>4 DEF AheadInv
<1>6. PICK f \in Fills : /\ Reaches(ShadowBook, Book(l, t, f)) /\ Ended(Book(l, t, f))
                         /\ Unstamped(ActiveOrders) = l \cup Rests(t)
                         /\ trades = Reported(f)
  BY <1>5
<1>7. Reaches(ShadowBook', Book(l, t, f))
  <2>1. CASE S!MatchFront
    <3>1. Aligned(S!LiveOrders)
      BY <1>1, ShadowAligned
    <3>2. Trades(ShadowBook, ShadowBook')
      BY <2>1, <3>1, ShadowTrades
    <3>3. ShadowBook.live = Unstamped(S!LiveOrders) /\ ShadowBook.taker = s_incoming
      BY <1>3 DEF ShadowBook, Book
    <3>4. s_incoming.qty \in Nat /\ s_incoming.side \in Sides
      BY DEF SP!Inv, SP!TypeOK, SP!Sides, Sides
    <3>5. \A x \in Unstamped(S!LiveOrders) : x.side \in Sides /\ x.price \in Nat /\ x.id \in Nat
      <4>1. \A m \in S!LiveOrders : m \in [id: Nat, side: Sides, price: Nat, qty: Nat, stamp: Nat]
        BY <3>1 DEF Aligned
      <4>2. ASSUME NEW x \in Unstamped(S!LiveOrders) PROVE x.side \in Sides /\ x.price \in Nat /\ x.id \in Nat
        <5>1. PICK m \in S!LiveOrders :
                 x = [id |-> m.id, side |-> m.side, price |-> m.price, qty |-> m.qty, stamp |-> 0]
          BY <4>1, UnstampedMember
        <5> QED BY <4>1, <5>1
      <4> QED BY <4>2
    <3> QED BY <1>6, <3>2, <3>3, <3>4, <3>5, ReachesFrom
  <2>2. CASE S!StopMatching \/ S!EnterLevel \/ S!LeaveLevel
    <3>0. UNCHANGED <<s_incoming, s_trades, queue, s_index, canceled, s_stamp>>
      BY <2>2 DEF S!StopMatching, S!EnterLevel, S!LeaveLevel, S!book, S!ghosts
    <3>1. UNCHANGED <<s_incoming, s_trades>> /\ S!LiveOrders' = S!LiveOrders
      BY <3>0 DEF S!LiveOrders, S!Dead
    <3>2. ShadowBook' = ShadowBook
      BY <1>3, <3>1 DEF ShadowBook
    <3> QED BY <1>6, <3>2
  <2>3. CASE S!Sweep
    <3>1. UNCHANGED <<s_incoming, s_trades>>
      BY <2>3 DEF S!Sweep
    <3>2. SP!LiveOrders' = SP!LiveOrders
      BY <2>3, SameShadow, SP!SweepShows, ShadowConstants
    <3>3. S!LiveOrders' = S!LiveOrders
      BY <3>2, SameShadow, SameShadowNext
    <3>4. ShadowBook' = ShadowBook
      BY <1>3, <3>1, <3>3 DEF ShadowBook
    <3> QED BY <1>6, <3>4
  <2> QED BY <2>1, <2>2, <2>3 DEF ShadowMatches
<1> QED BY <1>1, <1>2, <1>4, <1>6, <1>7 DEF AheadInv

(* It answers with the same trades and is left with the same orders. *)
LEMMA AheadRest ==
    ASSUME AheadInv, IdsInv, StageInv, SP!Inv, ShadowAnswers
    PROVE  AheadInv'
<1> SUFFICES ASSUME ~apart' PROVE AheadInv'
  BY DEF AheadInv
<1>1. /\ ~apart /\ stage = "shadow" /\ stage' = "none" /\ UNCHANGED vars
      /\ s_pc = "rest" /\ s_trades' = s_trades
  BY DEF ShadowAnswers, Compared, S!Rest
<1>2. ActiveOrders' = ActiveOrders /\ trades' = trades
  BY <1>1 DEF ActiveOrders, vars, ghosts
<1>3. line.qty > 0
  <2>1. line \in Orders
    BY <1>1 DEF StageInv
  <2> QED BY <2>1, OrderFacts
<1>4. PICK l, t : \E f \in Fills : /\ Reaches(ShadowBook, Book(l, t, f)) /\ Ended(Book(l, t, f))
                                   /\ Unstamped(ActiveOrders) = l \cup Rests(t)
                                   /\ trades = Reported(f)
  BY <1>1, <1>3 DEF AheadInv
<1>5. PICK f \in Fills : /\ Reaches(ShadowBook, Book(l, t, f)) /\ Ended(Book(l, t, f))
                         /\ Unstamped(ActiveOrders) = l \cup Rests(t)
                         /\ trades = Reported(f)
  BY <1>4
<1>6. SP!Abstract!Finish
  BY SameShadow, SP!RestFinishes, ShadowConstants DEF ShadowAnswers
<1>7. ShadowBook = Book(Unstamped(S!LiveOrders), s_incoming, s_trades) /\ s_incoming.qty \in Nat
  BY <1>1 DEF ShadowBook, SP!Inv, SP!TypeOK
<1>8. Ended(Book(Unstamped(S!LiveOrders), s_incoming, s_trades))
  <2>1. s_incoming.qty = 0 \/ SP!Abstract!Candidates = {}
    <3>1. s_incoming.qty = 0 \/ Len(s_trades) < MaxTrades
      BY <1>1 DEF IdsInv
    <3>2. Len(s_trades) \in Nat /\ MaxTrades \in Nat
      <4>1. s_trades \in Seq([maker: Ids, taker: Ids, price: Prices, qty: Nat \ {0}])
        BY DEF SP!Inv, SP!TypeOK
      <4> QED BY <4>1, ShadowLimitAssumption
    <3>3. s_incoming.qty = 0 \/ SP!Abstract!Candidates = {} \/ Len(s_trades) >= MaxTrades
      BY <1>6 DEF SP!Abstract!Finish
    <3> QED BY <3>1, <3>2, <3>3
  <2>2. CASE s_incoming.qty = 0
    BY <2>2 DEF Ended, Book
  <2>3. CASE SP!Abstract!Candidates = {}
    <3>1. Aligned(S!LiveOrders)
      BY <1>1, ShadowAligned
    <3>2. ASSUME NEW x \in Unstamped(S!LiveOrders), x.side # s_incoming.side, Crossing(s_incoming, x.price)
          PROVE  FALSE
      <4>1. PICK m \in S!LiveOrders :
               x = [id |-> m.id, side |-> m.side, price |-> m.price, qty |-> m.qty, stamp |-> 0]
        BY <3>1, UnstampedMember DEF Aligned
      <4>2. m.side # s_incoming.side /\ Crossing(s_incoming, m.price) /\ m \in SP!LiveOrders
        BY <3>2, <4>1, SameShadow
      <4> QED BY <2>3, <4>2 DEF SP!Abstract!Candidates, SP!Abstract!Crosses, Crossing
    <3> QED BY <3>2 DEF Ended, Crossers, Book
  <2> QED BY <2>1, <2>2, <2>3
<1>9. Book(l, t, f) = ShadowBook
  <2>1. ShadowBook.taker.qty \in Nat
    BY <1>7 DEF Book
  <2> QED BY <1>5, <1>7, <1>8, <2>1, ReachesEnd
<1>10. l = Unstamped(S!LiveOrders) /\ t = s_incoming /\ f = s_trades
  BY <1>7, <1>9 DEF Book
<1>11. Unstamped(S!LiveOrders') = Unstamped(S!LiveOrders) \cup Rests(s_incoming)
  <2>1. SP!LiveOrders' = SP!LiveOrders \cup
           (IF ~s_incoming.market /\ s_incoming.qty > 0
            THEN {[id |-> s_incoming.id, side |-> s_incoming.side, price |-> s_incoming.price,
                   qty |-> s_incoming.qty, stamp |-> s_clock]} ELSE {})
    BY <1>6 DEF SP!Abstract!Finish, SP!Abstract!Resting
  <2>2. Unstamped(SP!LiveOrders') = Unstamped(SP!LiveOrders) \cup Rests(s_incoming)
    BY <2>1, UnstampedWith
  <2> QED BY <2>2, SameShadow, SameShadowNext
<1> QED BY <1>1, <1>2, <1>5, <1>10, <1>11 DEF AheadInv

(* A cancel takes the same order out of the shadow book. *)
LEMMA AheadShadowCancel ==
    ASSUME AheadInv, IdsInv, StageInv, SP!Inv, ShadowCancel
    PROVE  AheadInv'
<1> SUFFICES ASSUME ~apart' PROVE AheadInv'
  BY DEF AheadInv
<1>1. /\ ~apart /\ stage = "shadow" /\ line.qty = 0 /\ stage' = "none" /\ UNCHANGED vars
  BY DEF ShadowCancel, Compared
<1>2. ActiveOrders' = ActiveOrders /\ trades' = trades /\ s_trades' = <<>>
  BY <1>1 DEF ShadowCancel, S!CancelOrder, S!Refuse, ActiveOrders, vars, ghosts
<1>3. Aligned(S!LiveOrders)
  BY <1>1, ShadowAligned
<1>4. line.id \in Ids
  BY <1>1, OrderFacts DEF StageInv
<1>5. S!LiveOrders' = {m \in S!LiveOrders : m.id # line.id}
  <2>1. CASE S!CancelOrder(line.id)
    <3>1. \E m \in SP!LiveOrders : m.id = line.id /\ SP!LiveOrders' = SP!LiveOrders \ {m}
      BY <1>4, <2>1, SameShadow, SP!CancelTakesOut, ShadowConstants
    <3>2. PICK m \in S!LiveOrders : m.id = line.id /\ S!LiveOrders' = S!LiveOrders \ {m}
      BY <3>1, SameShadow, SameShadowNext
    <3>3. \A n \in S!LiveOrders : n.id = line.id => n = m
      BY <1>3, <3>2 DEF Aligned
    <3> QED BY <3>2, <3>3
  <2>2. CASE line.id \notin s_index \ canceled /\ S!Refuse
    <3>1. S!LiveOrders' = S!LiveOrders
      BY <2>2 DEF S!Refuse, S!LiveOrders, S!Dead, S!book, S!ghosts
    <3>2. \A m \in SP!LiveOrders : m.id \in s_index \ canceled
      BY SP!LiveFacts, ShadowConstants
    <3>3. \A m \in S!LiveOrders : m.id # line.id
      BY <2>2, <3>2, SameShadow
    <3> QED BY <3>1, <3>3
  <2> QED BY <2>1, <2>2 DEF ShadowCancel
<1>6. Unstamped(S!LiveOrders') = {o \in Unstamped(S!LiveOrders) : o.id # line.id}
  BY <1>3, <1>5, UnstampedWithout
<1>7. Unstamped(ActiveOrders) = {o \in Unstamped(S!LiveOrders) : o.id # line.id} /\ trades = <<>>
  BY <1>1 DEF AheadInv
<1> QED BY <1>1, <1>2, <1>6, <1>7, ReportedNone DEF AheadInv

(* A new run starts with two empty books. *)
LEMMA AheadNewRun == ASSUME NewRun PROVE AheadInv'
<1>1. /\ stage' = "none" /\ trades' = <<>> /\ s_trades' = <<>> /\ s_index' = {}
      /\ order_index' = [i \in Ids |-> EmptySlot]
  BY DEF NewRun, ResetOrderBook, S!Reset
<1>2. ActiveOrders' = {}
  <2>1. \A i \in Ids : ~order_index'[i].active
    BY <1>1 DEF EmptySlot
  <2> QED BY <2>1, ActiveMemberNext
<1>3. S!LiveOrders' = {}
  <2>1. SP!LiveOrders' = {}
    BY <1>1, SP!LiveMemberNext, ShadowConstants
  <2> QED BY <2>1, SameShadowNext
<1> QED BY <1>1, <1>2, <1>3, ReportedNone DEF AheadInv

(* The steps of the run keep it. *)
LEMMA AheadStep ==
    ASSUME AheadInv, IdsInv, StageInv, HeldInv, EInv, SP!Inv, [LockstepNext]_lockstepVars
    PROVE  AheadInv'
<1>1. ASSUME NEW o \in Orders, GenerateOrder(o) PROVE AheadInv'
  BY <1>1, AheadWrite DEF GenerateOrder
<1>2. ASSUME NEW o \in Orders, HoldOrder(o) PROVE AheadInv'
  BY <1>2, AheadSame DEF HoldOrder
<1>3. CASE WriteHeld
  <2>1. held \in Orders /\ Write(held)
    BY <1>3 DEF WriteHeld, HeldInv
  <2> QED BY <2>1, AheadWrite
<1>4. CASE WriteFails
  BY <1>4, AheadSame DEF WriteFails
<1>5. ASSUME NEW target \in Ids, GenerateCancel(target) PROVE AheadInv'
  BY <1>5, AheadCancel
<1>6. CASE EngineMatches
  BY <1>6, AheadMatches
<1>7. CASE EngineAnswers
  BY <1>7, AheadAnswers
<1>8. CASE ShadowSubmit
  BY <1>8, AheadSubmit
<1>9. CASE ShadowMatches
  BY <1>9, AheadShadow
<1>10. CASE ShadowAnswers
  BY <1>10, AheadRest
<1>11. CASE ShadowCancel
  BY <1>11, AheadShadowCancel
<1>12. CASE NewRun
  BY <1>12, AheadNewRun
<1>13. CASE UNCHANGED lockstepVars
  BY <1>13, AheadSame DEF lockstepVars
<1> QED BY <1>1, <1>2, <1>3, <1>4, <1>5, <1>6, <1>7, <1>8, <1>9, <1>10, <1>11, <1>12, <1>13 DEF LockstepNext

RunInv == StageInv /\ HeldInv /\ SP!Inv /\ IdsInv /\ AheadInv

(* The run starts with both engines in step. *)
LEMMA RunStart == LockstepInit => RunInv
<1> SUFFICES ASSUME LockstepInit PROVE RunInv
  OBVIOUS
<1>1. /\ stage = "none" /\ trades = <<>> /\ s_trades = <<>> /\ s_index = {} /\ s_pc = "idle"
      /\ order_index = [i \in Ids |-> EmptySlot]
  BY DEF LockstepInit, Init, S!Init
<1>2. IdsInv
  BY <1>1 DEF IdsInv
<1>3. ActiveOrders = {}
  <2>1. \A i \in Ids : ~order_index[i].active
    BY <1>1 DEF EmptySlot
  <2> QED BY <2>1, ActiveMember
<1>4. S!LiveOrders = {}
  <2>1. SP!LiveOrders = {}
    BY <1>1, SP!LiveMember, ShadowConstants
  <2> QED BY <2>1, SameShadow
<1>5. AheadInv
  BY <1>1, <1>3, <1>4, ReportedNone DEF AheadInv
<1> QED BY <1>2, <1>5, RunInit DEF RunInv

(* The inductive invariant of the run of both engines: who has the order,  *)
(* what each book is, and how far the engine is ahead of the shadow engine.*)
THEOREM RunInvariant == LockstepSpec => []RunInv
<1>1. RunInv /\ EInv /\ [LockstepNext]_lockstepVars => RunInv'
  <2> SUFFICES ASSUME RunInv, EInv, [LockstepNext]_lockstepVars PROVE RunInv'
    OBVIOUS
  <2>1. StageInv' /\ HeldInv'
    BY StageStep, StreamStep DEF RunInv
  <2>2. SP!Inv'
    BY ShadowStep DEF RunInv
  <2>3. IdsInv'
    BY <2>2, IdsStep DEF RunInv
  <2>4. AheadInv'
    BY AheadStep DEF RunInv
  <2> QED BY <2>1, <2>2, <2>3, <2>4 DEF RunInv
<1>2. LockstepSpec => []EInv
  BY LockstepRunsEngine, EngineInvariant, PTL
<1> QED BY <1>1, <1>2, RunStart, PTL DEF LockstepSpec

(* Line by line the two engines make the same trades and are left with the *)
(* same orders, until one of the three differences that EngineLockstep     *)
(* lists is met: lowest id and oldest entry choose the same order, and     *)
(* lazy cancellation shows no difference.                                  *)
THEOREM InStepHolds == LockstepSpec => []InStep
<1>1. RunInv => InStep
  BY DEF RunInv, AheadInv, InStep, Reported
<1> QED BY <1>1, RunInvariant, PTL

(* All through the run of both engines the lists of the shadow book, its   *)
(* index and its quantities are consistent, whatever the stream is.        *)
THEOREM LockstepRunsShadow == LockstepSpec => []SP!Inv
<1>1. RunInv => SP!Inv
  BY DEF RunInv
<1> QED BY <1>1, RunInvariant, PTL

============================================================================
