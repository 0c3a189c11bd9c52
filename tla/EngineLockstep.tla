--------------------------- MODULE EngineLockstep ---------------------------
(***************************************************************************)
(* The two matching engines of a benchmark run, under the order stream of  *)
(* the bot fleet: generate_single_order makes an order, the reference      *)
(* contestant (ReferenceEngine, extended) handles the line to its          *)
(* response, then the shadow engine (ShadowOrderBook, instantiated as S)   *)
(* gets the same order, and compare_trades compares the two answers.       *)
(*                                                                         *)
(* Two workers share the stream: one of them may hold an order back while  *)
(* later ones overtake it.  An order goes to both engines before the next  *)
(* is written; finer interleavings, timeouts and lost calls are BotFleet's *)
(* subject, over engines that agree.                                       *)
(***************************************************************************)
EXTENDS ReferenceEngine

CONSTANT MaxTrades   \* MAX_TRADES_PER_MATCH of the shadow engine (1024)

ASSUME ShadowLimitAssumption == MaxTrades \in Nat \ {0}

VARIABLES
    \* the shadow book: s_x is the variable x of ShadowOrderBook
    levels, queue, s_index, canceled, s_pc, s_incoming, s_trades,
    s_clock, s_stamp, submitted, filled, capHit,
    \* the worker
    stage,               \* who has the order: "none", "engine" or "shadow"
    line,                \* the order: a submission, or a cancel and its target
    held,                \* an order that a worker has received and not yet written
    index,               \* orders generated in this run
    active_limit_orders, \* ids the generator may still cancel
    \* bookkeeping that no program variable holds
    apart                \* has the run met what the two engines do not agree on?

S == INSTANCE ShadowOrderBook
        WITH order_index <- s_index, pc <- s_pc, incoming <- s_incoming, trades <- s_trades,
             clock <- s_clock, stamp <- s_stamp, NoId <- 0, MaxOrders <- MaxCalls

shadow == <<levels, queue, s_index, canceled, s_pc, s_incoming, s_trades,
            s_clock, s_stamp, submitted, filled, capHit>>
stream == <<held, index, active_limit_orders>>
lockstepVars == <<vars, shadow, stage, line, stream, apart>>


LockstepInit ==
    /\ Init
    /\ S!Init
    /\ stage = "none"
    /\ line = NoOrder
    /\ held = NoOrder
    /\ index = 0
    /\ active_limit_orders = {}
    /\ apart = FALSE

----------------------------------------------------------------------------
(* blast_single_order: the line is written, and the engine takes it or,    *)
(* because a higher id came before, answers without trades.                *)
Write(o) ==
    /\ stage = "none"
    /\ s_clock < MaxCalls
    /\ line' = o
    /\ \/ Receive(o) /\ stage' = "engine" /\ UNCHANGED apart
       \/ IgnoreOld(o) /\ stage' = "shadow" /\ apart' = TRUE
    /\ UNCHANGED shadow

(* generate_single_order: a limit or a market order under the next id. *)
Generate(o) ==
    /\ o.id = index + 1
    /\ index' = index + 1
    /\ active_limit_orders' = active_limit_orders \cup (IF o.market THEN {} ELSE {o.id})

GenerateOrder(o) ==
    /\ Generate(o)
    /\ Write(o)
    /\ UNCHANGED held

(* The other worker receives the order and is slow to write it. *)
HoldOrder(o) ==
    /\ stage = "none"
    /\ held = NoOrder
    /\ Generate(o)
    /\ held' = o
    /\ UNCHANGED <<vars, shadow, stage, line, apart>>

WriteHeld ==
    /\ held # NoOrder
    /\ Write(held)
    /\ held' = NoOrder
    /\ UNCHANGED <<index, active_limit_orders>>

(* The write times out or fails: neither engine gets the order. *)
WriteFails ==
    /\ stage = "none"
    /\ held # NoOrder
    /\ held' = NoOrder
    /\ UNCHANGED <<vars, shadow, stage, line, index, active_limit_orders, apart>>

(* A cancel takes a target out of the list, filled or not, or names itself *)
(* when the list is empty; it uses up an id too.                           *)
GenerateCancel(target) ==
    /\ stage = "none"
    /\ index < MaxId
    /\ index' = index + 1
    /\ target \in (IF active_limit_orders = {} THEN {index + 1} ELSE active_limit_orders)
    /\ active_limit_orders' = active_limit_orders \ {target}
    /\ line' = [NoOrder EXCEPT !.id = target]
    /\ CancelOrder(target)
    /\ stage' = "shadow"
    /\ UNCHANGED <<shadow, held, apart>>

EngineMatches ==
    /\ stage = "engine"
    /\ MatchBest \/ MatchDone
    /\ UNCHANGED <<shadow, stage, line, stream, apart>>

EngineAnswers ==
    /\ stage = "engine"
    /\ InsertRemaining
    /\ apart' = (apart \/ (Remains /\ line.id >= MaxOrdersC))
    /\ stage' = "shadow"
    /\ UNCHANGED <<shadow, line, stream>>

----------------------------------------------------------------------------
(* The same order goes to the shadow engine once the response is there. *)

ShadowSubmit ==
    /\ stage = "shadow"
    /\ line.qty > 0
    /\ S!Accept(line)
    /\ UNCHANGED <<vars, stage, line, stream, apart>>

ShadowMatches ==
    /\ stage = "shadow"
    /\ S!StopMatching \/ S!EnterLevel \/ S!Sweep \/ S!MatchFront \/ S!LeaveLevel
    /\ apart' = (apart \/ (s_pc' = "rest" /\ s_incoming'.qty > 0 /\ Len(s_trades') >= MaxTrades))
    /\ UNCHANGED <<vars, stage, line, stream>>

\* compare_trades, and the next order.
Compared == stage' = "none" /\ line' = NoOrder /\ UNCHANGED <<vars, stream, apart>>

ShadowAnswers ==
    /\ stage = "shadow"
    /\ S!Rest
    /\ Compared

ShadowCancel ==
    /\ stage = "shadow"
    /\ line.qty = 0
    /\ S!CancelOrder(line.id) \/ (line.id \notin s_index \ canceled /\ S!Refuse)
    /\ Compared

(* The next run of the submission: a new microVM, a new shadow book. *)
NewRun ==
    /\ stage = "none"
    /\ index > 0
    /\ held = NoOrder
    /\ ResetOrderBook
    /\ S!Reset
    /\ index' = 0
    /\ active_limit_orders' = {}
    /\ apart' = FALSE
    /\ UNCHANGED <<stage, line, held>>

LockstepNext ==
    \/ \E o \in Orders : GenerateOrder(o) \/ HoldOrder(o)
    \/ WriteHeld
    \/ WriteFails
    \/ \E target \in Ids : GenerateCancel(target)
    \/ EngineMatches
    \/ EngineAnswers
    \/ ShadowSubmit
    \/ ShadowMatches
    \/ ShadowAnswers
    \/ ShadowCancel
    \/ NewRun

LockstepSpec == LockstepInit /\ [][LockstepNext]_lockstepVars

----------------------------------------------------------------------------
(* Properties                                                              *)

Unstamped(orders) == {[o EXCEPT !.stamp = 0] : o \in orders}

(* The header of strategy_bin.c promises trades "to align 100% with        *)
(* shadow-engine".  They do, line by line and with the same orders left in *)
(* both books, until an order is overtaken by a later one, an order whose  *)
(* id has no slot in the table should rest, or the shadow engine cuts a    *)
(* match short; except that the response ends at the limit of reported     *)
(* trades.                                                                 *)
InStep ==
    stage = "none" /\ ~apart =>
        /\ Unstamped(ActiveOrders) = Unstamped(S!LiveOrders)
        /\ trades = SubSeq(s_trades, 1, Min2(Len(s_trades), MaxTradesC))
=============================================================================
