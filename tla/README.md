# TLA+ models of hft-bench

hft-bench accepts trading engines, boots each one in a Firecracker microVM,
sends it a stream of orders, compares its trades with those of a shadow engine
and ranks the results. This directory holds TLA+ modules translated from that
code, the TLC instances that check them, and proofs checked by TLAPS.

    POST /submit -> benchmark_jobs -> worker -> SpawnVM        (orchestrator)
                                             -> StartBenchmark (bot fleet -> engine, shadow engine)
                                             -> poll benchmark_metrics
                                             -> TeardownVM
    bot fleet -> topic benchmark-results -> telemetry ingester -> benchmark_metrics
    leaderboard API, UI <- benchmark_metrics, benchmark_jobs

## Inventory

| Part | State | Operations | What is hard | What makes it correct |
|---|---|---|---|---|
| telemetry ingester, `services/telemetry-ingester/main.go` | group offsets, channel, batch buffer, table rows | poll, parse, send, receive, tick, flush, commit offsets, signal | two goroutines on one bounded channel and one context; manual commits after a transaction; crash anywhere | no offset passes an unwritten record; all records get written; shutdown ends |
| shadow order book, `services/shadow-engine/src/main.rs` | price maps of queues, order index with flags | submit, match, cancel, reset | lazy deletion; index and queues updated in different functions; trade limit | it is a price-time book; quantity is conserved; every call ends |
| shadow runtime, same file | map of books by submission | start or create a book, submit, cancel, query | all books cleared above 100 | a running benchmark keeps its book |
| reference contestant, `sandbox/strategy_bin.c` | order table, two id lists, last id seen | new, cancel, match | tie-break by id, fixed tables, unreported trades | it is a price-time book |
| sandbox orchestrator, `services/sandbox-orchestrator` | registry behind a mutex; TAP interfaces, images, VMs on the host | SpawnVM, TeardownVM, signal, shutdown | host commands outside the mutex, colliding names, VMMs that outlive their boot or their SIGTERM, partial failure, crash and restart | addresses are exclusive; no VM that is meant to run and no interface is lost; every entry is given up in the end |
| eBPF prober, same directory | stamp map, ring buffer, consumer goroutine, hooks | attach, stamp, match, read, flush, stop, detach | kernel programs on several CPUs; the goroutine must end before its map; a broker that does not answer | each transmission is measured once, none that was read vanishes uncounted, stop returns, nothing is left |
| submission API, `services/submission-api/main.go` | benchmark_jobs, worker goroutines | submit, claim, benchmark, poll, complete, fail, teardown | resubmission during a run, late or repeated telemetry, silent commit errors, death of the process, restart of the orchestrator | one benchmark of a submission at a time; jobs and VMs end |
| bot fleet, `services/bot-fleet/src/main.rs` | connections, job and result channels, counts | dispatch, connect, send, read, compare, report, drain, publish | bounded channels, endless connect loop, answers after a timeout, two engines in step | the run ends and counts every order; a correct engine loses none to the benchmark |
| leaderboard API, `services/leaderboard/main.go` | none | latest run per submission, score, rank, detail | ties, unmeasured runs, map order, iteration errors | the ranking is sound for one state of the table |
| leaderboard UI, `services/leaderboard-ui` | last answer, flashes, open drawer | poll, receive, clear, open, close | overlapping polls, answers to closed drawers | no rank moves without a run; it catches up with the table |
| legacy page, `services/leaderboard/frontend` | current request, table shown | poll, abort, time out, receive | abort and stale timers | it never goes back to an older table |
| quota library, proto, scripts, terraform | - | - | - | not modelled |

Interactions: gRPC calls (API to orchestrator and bot fleet, bot fleet to shadow
engine), two tables, one Kafka topic, and host resources named after the
submission id. `PROJECT.json` lists the components, the hazards with their lines
and the properties that cover them, and the source lines of every definition.

## Modules

| Module | Models | Checked by |
|---|---|---|
| `TelemetryIngester` | the ingester | `MCTelemetryIngester` |
| `AtLeastOnceDelivery` | what it promises: records are delivered, and only a prefix of delivered ones is acknowledged | refinement |
| `ShadowOrderBook` | `OrderBook` of the shadow engine | `MCShadowOrderBook` |
| `ReferenceEngine` | order handling of `strategy_bin.c` | `MCEngineLockstep` |
| `PriceTimeBook` | what both promise: an eager book with price-time priority | refinement |
| `EngineLockstep` | both engines under the bot fleet's order stream, composed of `ReferenceEngine` and `ShadowOrderBook` | `MCEngineLockstep` |
| `BotFleet` | one `start_benchmark` of the bot fleet, with the book map of the shadow runtime | `MCBotFleet` |
| `SandboxOrchestrator` | SpawnVM, TeardownVM, shutdown, crash, restart | `MCSandboxOrchestrator` |
| `VMSessions` | what it promises: one session per submission, exclusive addresses | refinement, and the orchestrator of `SubmissionApi` |
| `SubmissionApi` | job table, worker pool, `runBenchmarkSync`, composed with `VMSessions` | `MCSubmissionApi` |
| `Leaderboard` | the leaderboard API and its three clients | `MCLeaderboard` |
| `TapProber` | the eBPF prober of one interface | `MCTapProber` |
| `TelemetryIngesterProofs`, `ShadowOrderBookProofs`, `EngineLockstepProofs`, `BotFleetProofs`, `SandboxOrchestratorProofs`, `SubmissionApiProofs`, `TapProberProofs`, `LeaderboardProofs` | theorems about the module of that name; the third also about `ReferenceEngine` | TLAPS |

Operators whose comment begins "Mutant of" are wrong variants of the definition
below them. They are used nowhere; `PROJECT.json` pairs each with the property
that must fail when it takes the definition's place.

**TelemetryIngester.** One action per step of `runConsumerLoop` and
`runStorageWorker` between two points where the other goroutine, the broker or a
crash can intervene. A record is its partition and offset, a payload whether
`parseTelemetryRecord` accepts it. `PollGather` and `OffsetsToCommit` model the
client library as the code uses it. `ErrorsCarryRecords` says whether a fetch
that reports an error may also hold records of other partitions. `dropped` and
`stops` are bookkeeping.

**ShadowOrderBook.** A call holds the book's mutex; its nested loops are
stepped so that termination is a property and not an assumption. `order_index`
keeps the two things that are read from it: which ids it holds and which are
flagged. `clock`, `stamp`, `submitted`, `filled` and `capHit` are bookkeeping
for the properties and the refinement mapping.

**ReferenceEngine.** The match loops scan the facing list for the best price and,
among equals, the lowest id; an id that is not above every earlier one is
refused. JSON scanning, sockets and the response text are left out. `limits` is
bookkeeping: it records that a trade was not reported or an order not rested,
after which the engine no longer implements the abstract book.

**EngineLockstep.** `GenerateOrder` and `GenerateCancel` are
`generate_single_order`: ids are the index, a cancel uses up an id and names a
generated order, filled or not. A line goes to the contestant, then to the
shadow book, then the trades are compared. One worker may hold an order back
while the other's overtake it, or fail to write it. The engines are the two
modules themselves, step for step. `apart` is bookkeeping: an order was overtaken,
had no slot to rest in, or had its match cut short by the shadow engine. Those
are the only three causes after which the books may differ; a fourth difference,
trades past the report limit, leaves the books equal, and `InStep` says which
prefix is reported.

**BotFleet.** The handler and the worker tasks step between the points where
they await a channel, a socket or the shadow engine. The contestant is a correct
engine: it and the shadow book answer an order by the same function of the
orders they have seen, so whatever is counted as a failure is the benchmark's
own doing. An order is its number and whether it trades; a list of trades stands
for the orders that led to it. `StartBook`, `OtherStartsBook` and `BookAfter` are
the shadow runtime; what a book computes is `ShadowOrderBook`'s matter.
`disturbed` is bookkeeping: it is set by every fault, so that a property can
speak of runs without one.

**SandboxOrchestrator.** A step of a handler is one section under the mutex or
one host command. Host resources carry the serial of the spawn that made them,
so that taking another spawn's resource is visible. `machine.Start` is a
goroutine of its own (`starts`) that forks the VMM (`machines`) early, late, or
after CreateAndBootVM has given it up; a failed Start leaves what it forked, a
timeout sends SIGTERM to a process that may not be there yet. `StopVMM` only
sends SIGTERM (`signalled`), and the process ends in a step that nobody waits
for. A client tears down once, after a successful spawn, as `runBenchmarkSync`
does (`leases`). Cleanup failures, kills and restarts are switched on per run.
`misused` (a client has used a lease from before a restart on the VM that has
its id now), `abandoned` (serials whose boot was given up) and `spared` (serials
whose StopVMM failed) are bookkeeping.

**SubmissionApi.** A worker's program counter follows `runBenchmarkSync`. The
orchestrator is `VMSessions`, justified by the refinement that
`orchestrator_safety` checks: it is the registry, not the VMM processes. Its
shutdown, kill or panic and its restart with an empty registry are one fault,
`OrchestratorRestart`: a worker in a call sees it fail, one that benchmarks goes
on without a session, and its TeardownVM may find no VM, or another worker's. StartBenchmark returns, fails or hangs and
publishes at most one record; the topic and the ingester are a set of records
that reach the table late, never or, as a fault, again. Faults are of five
kinds: a statement or a commit fails (`db`), a call of the orchestrator breaks
or is refused (`rpc`), the process dies (`crash`), telemetry is delivered again
(`again`), the orchestrator is restarted (`orch`). `faults` records the kinds a behaviour has had, at most `MaxFaults` of
them, each as often as it likes; a property names the kinds after which it no
longer holds. `clean` is bookkeeping for `ResultIsOwn`.

**Leaderboard.** A row is what the score is made of; its id is its index. The
ranking operators return the set of answers a handler can give, since a Go map
is walked in any order and `sort.Slice` is not stable. A request is sent,
answered from one snapshot of the table or failed, and received; `at` records
the length of the table it was read from. The clients share nothing but the
table, so a behaviour follows one of them: the hook (with two requests that
overtake each other, and unmounting), the drawer (opened and closed with answers
on the way), or the legacy page (abort, timeout, hidden tab). Scores are exact
fractions rounded half up, in hundredths; the code computes in float64.

**TapProber.** `life` follows AttachProber, StartProbeConsumer,
StopProbeConsumer, DetachProber and the deletion of the interface; the kernel
programs run whenever their hook is attached. A stamp is the number of the
transmission it was taken for, so measuring one twice is visible. `tc_ingress`
is two steps, since egress runs between its lookup and its deletion; it handles
one packet at a time, because a TAP interface made by the orchestrator has one
queue. The consumer follows `run` and `flush` with and without a Kafka client; a
flush through a client ends when the broker answers, cancelled or not. The ring
buffer lives while its map is open or the ingress program is attached: `objs.Close`
destroys what nobody has read. A spawn whose image or boot fails after the attach
removes the interface and forgets the prober (`SpawnFails`).

## Runs

Related invariants are conjuncts of one property per module, which is what a run
names: `BookConsistent` (`TypeOK`, `IndexMatchesQueues`, `LevelsMatchQueues`,
`NotCrossed`), `RunConsistent` (`TypeOK`, `EveryOrderCounted`),
`RegistryMatchesHost` (`TypeOK`, `RunningIPsUnique`, `NoZombieVM`,
`RunningVMHasItsTap`, `NoTapLeak`), `JobsConsistent` (`TypeOK`,
`RunningHasWorker`, `NoAbandonedVM`),
`DisplayConsistent` (`TypeOK`, `StandingsSound`) and `ProberConsistent`
(`TypeOK`, `ReaderOnOpenMap`, `ProberLeavesNothing`).

| Run | Shows |
|---|---|
| `ingester` | When a fetch holds records or an error: at-least-once delivery (as an invariant and as refinement of `AtLeastOnceDelivery`), no hole in the rows, offsets that never move back, and the inductive invariant of the proofs; every valid record becomes a row; a signalled process ends. |
| `ingester_lost` | Expected violation: `AtLeastOnce` fails when an error comes with records, because `continue` skips the records. |
| `shadow_book` | Index, maps and queues agree, the book is crossed only where a call stopped at the trade limit, quantity is conserved, every step of a call shortens the work it has left, and the lazy book implements `PriceTimeBook`. |
| `engine_lockstep` | Contestant and shadow engine give the same trades and hold the same orders until one of the named limits is met. The contestant's lists and table agree and, until a limit, it implements `PriceTimeBook`. |
| `bot_fleet` | Every order is counted once whatever times out. With one worker and no fault the shadow book stays in step with the engine and a correct engine fails no order. A run whose orders fit the result channel ends once its workers have connected, if the shadow engine answers. |
| `orchestrator_safety` | Within one life of the process: a VMM that was neither told to stop nor had its boot given up has its entry in the registry and an address of its own; no leaked or stolen interface, no nil machine stopped; after a shutdown no interface, and no VMM but those told to stop or given up; the registry implements `VMSessions`. |
| `orchestrator_restart` | Under failing cleanups, no free address, a kill and a restart: every registry entry has somebody who will give it up, except that of a StopVMM that failed. The interface of a VM that survived the kill is touched only by its owner, unless an old lease is misused. |
| `orchestrator_image` | Expected violation: a teardown deletes the image of the next spawn of its id. |
| `api` | Under any one of the five kinds of fault, as often as it likes: one benchmark per submission, and a result of the run's own if earlier telemetry had arrived, while the orchestrator keeps its registry; no RUNNING row without a worker until a statement fails or the API dies; no session without an owner until an orchestrator call breaks or the API dies; if SpawnVM and StartBenchmark return, every job gets a final status and every session is torn down, but for those faults. |
| `api_resubmit` | Expected violation: a resubmission during a run is overwritten by that run's final status. |
| `leaderboard` | What is shown ranks the newest run of each submission in one state of the table, nothing stands above what is better in every figure, only exact ties move without a new run, a drawer shows its own submission, the legacy page never goes back, and a page that stays open catches up. |
| `prober` | The consumer ends before its map is closed; stopping it returns unless a broker leaves a flush unanswered; after a detach nothing is left when the interface is gone, after a failed spawn no hook and no goroutine; a transmission is measured at most once; measurements vanish only unread, with the ring buffer at the detach, and nothing read is lost without a Kafka client. |

### Bounds

- Ingester: channel of 1 and batches of 2 make the consumer block and batches
  fill; 3 records let a third arrive behind a batch that could not be written; 2
  stops give a crash during the recovery from another. `MaxRows` bounds repeated
  ambiguous commits only.
- Books: 2 prices, 4 orders and quantities of 1 to 3 (1 and 3 in the lockstep
  run) give partial fills, sweeps over two levels, a cancelled entry in front of
  and behind a live one, and reuse of an id. The limit of 2 trades is met by an
  order that sweeps three: a call stops with a remainder, and another with the
  level empty. In lockstep the contestant reports 1 trade and has slots below id
  4, so each of the three causes of `apart` occurs, and so do unreported trades.
- Bot fleet: 1 to 3 orders, 1 or 2 workers, channels of 2. Two orders fit the
  result channel and three do not; two workers take answers and jobs in any
  order; three orders let a late answer be read as another order's and the one
  after. Books are cleared above 1, so another submission clears this one's.
- Orchestrator: 3 handlers overlap a teardown with two spawns; 2 addresses for
  3 ids; 3 spawns let an id be used again while another VM runs; in
  `orchestrator_safety` two of the ids have the same TAP name.
  `orchestrator_restart` has 1 address for 2 ids, 2 handlers, one kill and one
  restart, so that an old lease meets the next spawn of its id.
- API: 2 submissions of 2 ids, 2 workers (the code's number), 1 address, 2
  claims, 3 rows, so that a record can arrive again beside both runs' own. One
  kind of fault in one behaviour, as often as it likes (the API dies once); with
  2 claims the second run of an id meets what the first left behind. Faults of
  several kinds together are covered by the theorems, which put no bound on
  them; liveness under several kinds is not checked. `api_resubmit` has one id,
  where the conflict is, and no faults.
- Leaderboard: 3 submissions, a list cut at 2, 3 rows, 2 requests in flight. The
  runs hold an equal score with different p99, two runs that failed outright (an
  exact tie at 0) and a submission that gets worse.
- Prober: 3 transmissions over 2 sequence numbers of lengths 1 and 2, so that a
  segment is retransmitted and an acknowledgement names another segment's byte;
  a ring buffer of 1 and batches of 2, so that both fill up.

Symmetry is used only in runs without liveness. Deadlock is checked for the
ingester, the books, the leaderboard and the prober; the orchestrator and the API stop once their bounds are
used up, or with the process.

### Fairness

- Ingester: weak for what a goroutine can do by itself and for the restart
  (`restart: unless-stopped`). Strong for a poll that may time out, for the
  cases of a `select`, which Go picks at random, and for a transaction that is
  retried at every flush: each is offered again and again and not refused for
  ever. Crashes and signals are bounded, as is any finite number of them.
- Bot fleet: weak for the handler and each connected worker, which the runtime
  polls and whose reads and writes end after `SOCKET_TIMEOUT`. None for the
  contestant, which need not answer, nor for the connect loop, nor for the
  calls of the shadow engine, which set no deadline: `RunEnds` is conditional on
  an engine that listens (`EngineListens`) and a shadow engine that answers
  (`ShadowAnswers`).
- Orchestrator: none, and no liveness is claimed of it. One host command runs
  without a deadline (umount, disk.go:164), so a handler may hang in it, and the
  shutdown then waits for the handler. `EntryAccounted` is the safety half: nothing else keeps an entry.
- API: weak for a worker, which polls the table every second and whose metrics
  poll and TeardownVM end by themselves (a signal, a command with a timeout, a
  file). None for SpawnVM and StartBenchmark: the API sets no deadline, the one
  runs `umount` without a timeout, the other may retry its connection for ever.
  `JobsEnd` and `SessionsEnd` are conditional on their return (`CallsReturn`).
- Leaderboard: weak for the browser's interval and for taking an answer that has
  come; strong for a query that is made again and again to succeed now and then;
  for the legacy page, strong for a complete answer that comes again and again
  before the next poll to be taken now and then. A page whose every answer is
  slower than its 2 s timeout would show nothing.
- Prober: weak for the goroutine and for the handler that stops and detaches it,
  strong for the cancelled case of the `select`. None for the broker, the guest
  or the kernel: a flush through a Kafka client may wait for ever, cancelled or
  not, and `StopReturns` is conditional on its being answered
  (`BrokerAnswers`). Without a client, as SpawnVM starts it, there is no condition.

## Proofs

TLC checks the instances above; TLAPS proves the following for all values of
the constants that satisfy the assumptions in the modules: any sets of
submissions, ids, prices, handlers and requests, any channel, batch, buffer and
list sizes, and any bounds on faults, crashes and rows. Each proof has one
inductive invariant, `Inv` (`IInv` for the ingester, `EInv` for the reference
engine, `RunInv` for both engines), one lemma per action that the action keeps it, and the property from it.

| Property | Theorem | Under |
|---|---|---|
| `TelemetryIngester`: `TypeOK`, `LossOnlyOnFetchError`, `OffsetsNeverRegress`, `NoHoles` | `TypeCorrect`, `LossOnlyOnFetchErrorHolds`, `OffsetsNeverRegressHolds`, `NoHolesHolds` | |
| `AtLeastOnce`, `ImplementsDelivery` | `AtLeastOnceHolds`, `ImplementsDeliveryHolds` | `~ErrorsCarryRecords` |
| `ShadowOrderBook`: `BookConsistent`, `QuantityConserved`, `ImplementsPriceTime`, `CallsProgress` | `BookConsistentHolds`, `QuantityConservedHolds`, `ImplementsPriceTimeHolds`, `CallsProgressHolds` | |
| `EngineLockstep`: `ListsMatchTable`, `ImplementsPriceTime` of the contestant, `InStep` | `ListsMatchTableHolds`, `ImplementsPriceTimeHolds`, `InStepHolds` | |
| `BotFleet`: `RunConsistent`, `ShadowInStep`, `CorrectEngineScores` | `RunConsistentHolds`, `ShadowInStepHolds`, `CorrectEngineScoresHolds` | |
| `SandboxOrchestrator`: `RegistryMatchesHost`, `ShutdownLeavesNothing` | `RegistryMatchesHostHolds`, `ShutdownLeavesNothingHolds` | `FirstLife`, `~CleanupCanFail` |
| `NoNilMachineStopped` | `NoNilMachineStoppedHolds` | `~misused` |
| `TapRemovedByOwner` | `TapRemovedByOwnerHolds` | |
| `EntryAccounted` | `EntryAccountedHolds` | |
| `ImplementsSessions` | `ImplementsSessionsHolds` | `MaxCrashes = 0`, `MaxRestarts = 0` |
| `SubmissionApi`: `OneBenchmarkPerSubmission`, `JobsConsistent`, `ResultIsOwn` | `OneBenchmarkHolds`, `JobsConsistentHolds`, `ResultIsOwnHolds` | |
| `TapProber`: `ProberConsistent`, `ReadIsLogged`, `MeasuredOnce`, `NothingVanishes` | `ProberConsistentHolds`, `ReadIsLoggedHolds`, `MeasuredOnceHolds`, `NothingVanishesHolds` | |
| `Leaderboard`: `DisplayConsistent`, `DrawerShowsSelected`, `NoPhantomMoves`, `LegacyNeverGoesBack` | `DisplayConsistentHolds`, `DrawerShowsSelectedHolds`, `NoPhantomMovesHolds`, `LegacyNeverGoesBackHolds` | |

The conditions are those under which the runs check the properties, or weaker.
`~ErrorsCarryRecords` is needed, as `ingester_lost` shows. A killed
orchestrator leaves its VMs and interfaces without a registry, and a failed
cleanup leaves an interface; hence `FirstLife` (no crash or restart so far) and
`~CleanupCanFail`. A client that uses a lease from before a restart (`misused`)
can tear down a stranger's VM, nil machine included; in the first life none
can, which `NoNilMachineStoppedHolds` states too.

Three assumptions on constants were made explicit for the proofs:
`Submissions # {}` and `VMIDs # {}` (an idle worker's record names some
submission) and `None \notin Submissions` (a closed drawer is none's).

### The inductive invariants

**Ingester.** At-least-once is not inductive: a commit of the buffer's highest
offset is harmless only because nothing older is still in the channel or in the
fetch. `IInv` says so. `PipelineOrdered`: buffer, channel and fetch are
increasing and in that order. `PipelineBetweenOffsets` and `OffsetsInLog`: what
is in the process lies between the committed offset and the client's position.
`FetchedAccountedFor`: a valid record below the position is a row, was
discarded, or is in the process. `CommitBacked`: when the worker is about to
commit, its buffer is in the table. `OnlyParsed` and `RowsPublished` tie both to
the log. A commit then moves the offset to the end of the buffer; records below
it are accounted for and cannot be in the channel or the fetch, so they are rows
or were discarded. `AtLeastOnceHolds` adds that `dropped` stays empty without
`ErrorsCarryRecords`.

**Shadow book.** What holds between calls is broken inside them: `LevelsInv`
lets only the level of the inner loop be empty, `RestInv` says that an order
about to rest crosses nothing that lives unless the limit was met, and `CrossInv`
then follows where it rests. `IndexInv` says position by position that index and
queues name the same orders once, which lazy deletion needs: a popped entry is
the only one of its id. `StampInv` (a queue is in order of arrival) makes the
front live entry of the best level the order the abstract book would match, so
each `Fill` is one; skipping a cancelled entry and closing a level change
nothing there. `CallsProgress` needs no more than `Inv` and that the book is
finite (`FiniteInv`): popping an entry takes its id from the ids the call faces,
`IndexInv` leaves no second one, and `TradeWorks` is the arithmetic of a trade.

**Contestant.** `EInv` adds to `ListsMatchTable` that active orders have earlier
ids than the call and have slots in the table (`SlotInv`) and stamps in the
order of their ids (`ArrivalInv`), so that the tie-break by lowest id is time priority. That the
scan of the list finds an order as `CHOOSE` does rests on preference being a
strict total order. `remove_bid` takes out the first occurrence of an id;
`ListsMatchTable` makes it the only one. `LockstepRunsEngine` carries both
results into the composition: every step there is one of the engine or leaves
it alone.

**Both engines.** `InStep` speaks of the moments when no order is in progress.
In between, the contestant has traded and the shadow book has not. `AheadInv`
says by how much: as long as the run has not come apart, the contestant's book,
order in progress and trades are reached (`Reaches`) from the shadow book's by
trades that the shadow book can make, and once the contestant has answered, no
trade is left there (`Ended`). `Trades` is the `Fill` of `PriceTimeBook` without
stamps, which the two engines count differently; a `Fill` of either is one
(`EngineTrades`, `ShadowTrades`), because in both books a lower id is an earlier
arrival: in the contestant's by `ArrivalInv`, in the shadow book by `IdsInv`,
which an overtaken order would break. As the best order is unique, a trade has
one outcome, so each trade of the shadow engine is the next one on the way to
the contestant's book; where it stops it is at the end of that way, having
reported the same trades, the contestant their first `MaxTradesC`. `StageInv`
says which engine works on which line, and `HeldInv` that what a worker holds
back is an order of the fleet. `RunInv` has the shadow book's whole `Inv` as a conjunct: the
theorems of `ShadowOrderBookProofs` are instantiated for the book of the
composition (`SP`, whose assumptions `ShadowConstants` establishes), so nothing
about the book is proved twice, and `LockstepRunsShadow` carries it into the
composition.

**Bot fleet.** `CountInv` is an equation between a counter and the sizes of two
channels and a set of workers (`Cardinality(Holders)`). `StageInv` orders the
stages: a worker ends only when no order is left, results are counted only when
all workers have ended. `SoloInv` follows the one order in progress of a single
worker from engine to shadow book (`Written`, `Answered`, `ReadBack`).

**Orchestrator.** `HandlerInv` and `TapInv` give each registry entry, serial,
address and interface one owner: a tentative entry has its spawn, a running one
can be changed only by the teardown of its serial, no two handlers have the same
serial. Without `misused` this survives crashes and restarts. `HostInv`, for the
first life without failing cleanups, is the converse: what is on the host has an
owner. Its part `VMMInv` is about processes, which handlers do not end: a serial
has one process or one Start goroutine, never both (`OneVMMPerSpawn`); a
goroutine that was not given up has its handler, so what it forks is awaited
(`StartsOwned`); a process that was neither signalled nor given up is in the
registry or about to be (`MachinesOwned`); and when a teardown deletes an entry,
its process has had the signal (`StoppedTold`). `EntryAccounted` is inductive with
`SpawnsNumbered` and needs none of the conditions. The refinement maps a step to
the step of the one session it changes.

**Submission API.** `SessionInv`: between SpawnVM and the end of TeardownVM a
worker's session is in the phase the worker takes it to be in, and is nobody
else's; the claim alone does not exclude two workers once a submission was
queued again. It holds while the orchestrator keeps its registry. `Owned` goes
the other way, holds through restarts of the orchestrator, and is stronger than
`NoAbandonedVM`: a session in each phase has a worker at the place of that phase.
`PollInv`: behind a clean baseline only the worker's own record can reach the table.

**Prober.** Stamps, the packet between the two steps of `tc_ingress`, the ring
buffer, the batch and what was published are pairwise without a common
transmission, so `MeasuredOnce` does not depend on how lookup, deletion,
retransmission and eviction interleave. `LifeInv` and `BatchInv` tie the
consumer's place in `run` and `flush` to the open map and the batch, and say at
which stages the map is open and that no record outlives the ring buffer.

**Leaderboard.** An answer outlives the table it was read from, so `Sound` and
`Ranked` speak of a list and the length `at` the table then had; both survive
every insertion, because rows and what was newest at `at` do not change.
`DominatorBeats` is the arithmetic: with clamped parts, exact division and
rounding, a run that is better in every figure has no lower score, and so beats
the other on p99. `NoPhantomMoves` is a counting argument: of the first c runs of one
ranking, one is at c or below in any other ranking of the same rows (the
pigeonhole principle), so neither ranking has a better run at c than the other.
`DrawerInv` says that whatever is still awaited is of the open drawer;
`LegacyInv` that the page has one request in flight.

### Only model-checked

- Liveness, since fairness and ENABLED are beyond the prover:
  `EventuallyPersisted`, `ShutdownTerminates`, `RunEnds`, `JobsEnd`,
  `SessionsEnd`, `StopReturns`, `EventuallyCurrent`. (`CallsProgress` is proved:
  it is an action property, a measure that every step of a call lowers. That a
  call takes its steps is not stated of the shadow book; it waits for nothing
  while it holds the book's lock.)
- The violations, which are counterexamples.

`LossOnlyOnFetchError` is proved and has no run of its own.

## Observations

Filed as findings, each with its run: the discarded fetch, the deleted image,
the overwritten resubmission. Seen while modelling and not kept as runs:

- After failed transactions the ingester's buffer grows past `MaxBatchSize` and
  is retried (ARCHITECTURE.md:755 says such records are dropped).
- A filled order's id is accepted again by the shadow book (ARCHITECTURE.md:620
  says it is not processed twice).
- Cancelled entries can outnumber live ones (shadow-engine main.rs:317 says they
  are bounded by them).
- A spawn that fails to boot leaves its image (main.go:173-191), where
  ARCHITECTURE.md:1120 says "TAP + disk cleaned up", and a restart reclaims no
  interface (ARCHITECTURE.md:1127).
- A boot that fails or times out may leave a Firecracker process that no entry
  names, with the image it has open: a Start error stops nothing, and the
  StopVMM of the timeout may come before the fork (firecracker.go:203-214). A
  teardown does not wait for the process it signals (main.go:283). In both cases
  the next spawn may be given the id, the address and the CID of a process that
  still runs. `RegistryMatchesHost` says that these are the only ones.
- After a restart of the orchestrator under a worker that benchmarks, a second
  worker can spawn and benchmark the same submission, and the first one's
  teardown then stops the second one's VM, or panics the orchestrator.
- A lease that outlives the orchestrator's process can tear down another spawn's
  VM, or meet a tentative entry and call StopVMM on a nil Machine.
  `orchestrator_restart` includes that panic.
- The metrics poll takes any newer row of the submission: late or repeated
  telemetry of an earlier run becomes the result of the current one
  (ARCHITECTURE.md:755 calls duplicates harmless).
- A run of more orders than `WORKER_CHANNEL_SIZE` (4096) does not end: results
  are received only after all workers have ended, and they wait for room.
  `validate_request` admits a million orders; the API asks for 1000. `RunEnds`
  without its condition on `total_orders` is violated.
- After a read that timed out, the late answer is read as the next order's, and
  the shadow book has missed the order: one timeout can fail every later order.
- A call of the shadow engine that hangs holds a worker or the handler, and one of
  the eight permits, for ever: these calls set no deadline.
- An answer of more than 1024 bytes is read in two parts, as two failures.
- Above 100 books the shadow runtime clears those of running benchmarks too.
- Without a shadow engine no trades are expected, so only answers without trades
  succeed.
- `strategy_bin.c:7` promises trades that "align 100% with shadow-engine". They
  do not for ids of `MAX_ORDERS` (131072) and above, nor for orders overtaken by
  a higher id, which the contestant ignores. The API asks for 1000 orders of one
  worker, where neither happens; `validate_request` admits both. They would not
  for more than 128 trades of one order either, which the fleet never causes: its
  quantities are at most 49.
- A SpawnVM call whose connection breaks is a failed job; the VM comes up and
  stays, and later spawns of the id are refused.
- Leaderboard: exact ties, such as submissions that failed outright, change
  places from poll to poll and flash. An older answer replaces a newer one until
  the next poll. The timer of an earlier flash shortens a later one. A run with
  p50 of 0 us scores 0 (calculateScore). ARCHITECTURE.md:797 says that a
  p99 between 400 and 600 us gets full latency credit and less throughput
  credit; by the code it is the other way round.
- handleLegacyLeaderboard answers 200 with half the list when the iteration
  fails. The legacy page's timers are not cleared on abort and abort later
  requests.
- Prober: SpawnVM has AttachProber commented out. With it, a spawn whose image or
  boot fails removes the interface without DetachProber (main.go:153, 180), and
  programs and maps stay open, where ebpf_prober.go:18 says that "All prober state
  is scoped to the VM's lifetime": they are closed, if ever, by the finalizers of
  the eBPF library. At the stop run flushes its batch and leaves the ring buffer
  as it is, which objs.Close then destroys, where ebpf_consumer.go:106 says
  that StopProbeConsumer "waits for it to drain". With a
  Kafka client the last flush runs with the cancelled context and may fail; with
  a hung broker it may never return, since the client, idempotent by default,
  does not fail a record in flight on cancellation. `ack_seq - 1` finds the stamp
  only of segments of one byte, and the deletion after the lookup may take the
  stamp of a retransmission. tc_latency.c:216-217 reads the stamp through the
  pointer into the LRU map some instructions after the lookup: an element
  reused in between gives another key's stamp, where the model copies it at the
  lookup.
- Every image is built from `sandbox/strategy_bin`, not from the upload.

## Not modelled

Of what the modules cover: a rebalance inside a living ingester, where the client
rewinds and the buffer is kept; a record the database refuses every time; the
blocking of the orchestrator's mutex and of GracefulStop (a section under the
mutex is one step, and `shutdownAllVMs` waits for idle handlers); signals that the
Firecracker SDK forwards from the orchestrator to its VMMs; the directory for eBPF
pins (ebpf_prober.go:86), which stays and is empty since no map asks to be
pinned; calls with two or more trades in the contestant's refinement as TLC
checks it, where `MaxTradesC` is 1 (the theorem has every value). `VMSessions` and
the results that rest on it are about the registry, not about VMM processes.

Of the rest: row contents, schema set-up, JSON and protocol encoding, sockets, logging, CPU
pinning and cgroups; the API's read-only handlers, uploads and middleware;
float64 rounding of scores; rendering of the pages; packet parsing in the eBPF
programs; the quota library, which nothing imports; generated protocol code,
scripts and infrastructure.

## Plan

1. Done: ingester with proofs; shadow book, reference engine, their common
   abstraction and their lockstep; bot fleet with the shadow runtime's books;
   orchestrator; submission API over the orchestrator's abstraction, with
   faults; leaderboard and its clients; eBPF prober.
2. Done: proofs of the safety properties, the action properties and the
   refinements that the passing runs check, of every module.
3. Open: what the prover cannot reach, liveness foremost; the parts under "Not
   modelled".
