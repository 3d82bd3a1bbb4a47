# Formal models of the prediction-market maker

TLA+ modules for the parts of this repository whose behaviour is hard to test:
the C++ exchange (matching, command processing, durable journal), the account
risk projection that stands between a strategy and the exchange, and the Python
programs that record a product's feed, normalise it, replay its book, backtest a
strategy over several products, supervise a measurement and resolve reviewed
product terms. TLC checks the modules on small instances; TLAPS proves what matters most
of risk, the exchange and its journal, the market maker, the capture, the normaliser with the
cursors behind it, the multi-market backtest, the supervisor's report and product terms for every
value of the constants.

## 1. Inventory

C++ library `pmm` (`src/cpp`, about 5,600 lines) and Python tools
(`src/python`, about 11,300 lines; `src/tools`). Tests, notebooks, documents
and data carry no logic of their own and are used as references only.

| Component | State it keeps | Operations | Hard behaviour | What makes it correct |
|---|---|---|---|---|
| **Limit order book** `book/order_book.cpp` | resting orders, per-level FIFO queues, cached totals and counts, a bitmap of occupied prices, priority and trade counters | `submit`, `preview_submit`, `cancel`, `snapshot`, `checkpoint`, `restore` | matching over several levels, self-trade prevention in the middle of a walk, caches updated by three code paths, a dry run computed by separate code | price-time priority; quantity conserved; never crossed; caches exact; preview equals what submit does; restore of a checkpoint is the same book |
| **Exchange command processing** `sim/exchange_simulator.cpp` (`ExchangeRuntime`, `Sequencer`) | market status, order and event counters, the books | `process_submit`, `process_cancel`, `process_lifecycle` | event numbers reserved before the book is changed; the order id reserved and given back; closing cancels order by order | no event number beyond the capacity; strategies' view of depth is the book; a closed market is empty; ids fresh; post-only never takes |
| **Durable exchange** `sim/exchange_simulator.cpp`, `sim/durable_store.cpp` | command queue, journal of prepared/committed frames, snapshot, poison flag | `create_durable`, `enqueue`, `run_next`, `persist_checkpoint`, `recover_durable` | crash between any two writes, torn tails, failed writes that did reach the file, queued commands lost | what was published is committed; nothing lost, repeated or reordered; recovery rebuilds exactly that state |
| **Account risk projection** `risk/account_risk.cpp` | net position, open orders, reservations, watermark, kill switch | `admit`, `bind_ingress`, `apply`, `activate/release kill`, `checkpoint`, `validate_checkpoint`, `restore` | reservations become open orders while others are admitted; the events and the strategy interleave; restored documents | position limit in the worst case of everything open and reserved; counts; a captured checkpoint restores |
| **Market maker coordinator** `market_maker/market_maker.cpp` | exchange, risk projection, depth projection, next decision time | `enqueue_external`, `run_until`, `run_decision`, `activate_kill_switch` | decides from the risk view while its own cancels are queued; commands due at the decision's own instant; an error in the middle of a batch of events | at most one quote per side; the risk view agrees with the exchange whenever events are consumed; a killed maker leaves the market; `run_until` returns |
| **Baseline agents** `agents/baseline_agents.cpp` | seeded generators, per-agent next action time | `run_until`, per-agent actions | same scheduling skeleton as the market maker | deterministic replay of a seed |
| **Kalshi capture** `kalshi_capture.py` | subscription binding, per-subscription sequence, segments, connection attempts | connect, subscribe, receive, reconnect, finalise | acknowledgements, snapshots and deltas of two channels in any order over several connections; records whose write fails; reconnection against the deadline; interruption and kill | the record agrees with the summaries; the strict verdict is what the file shows and what the normaliser accepts; the capture ends |
| **Normalisation, cursor, materialisation** `pmm_phase7.py` 476-1800 | scopes, sequences, segments and validity per ticker, book per product, cursor position | `normalize_capture_v3`, `SegmentAwareProductCursor`, `materialize_features_v3` | boundaries, snapshots and gaps interleaved with deltas of the old segment; lost, repeated and reordered frames | a shown book is the venue's and never crosses a segment; "complete" hides no loss and can be materialised |
| **Risk oracle bridge** `pmm_phase7.py` `CxxRiskOracle`, `risk_oracle_main.cpp` | one projection, the bridge's sequence, clients not acknowledged | admit, bind, acknowledge, fill, cancel, reject | the coordinator tells it before, after or twice | no call is answered by an error |
| **Backtest v3** `pmm_phase7.py` 2403-2685 | event heap, pending and live orders, oracle | decision, activation, expiry, fill | as v4, one product | not modelled: v4 generalises it |
| **Multi-market backtest v4** `pmm_phase7_multimarket.py` | action heap, per-product runtimes and oracles, artifacts | preflight, records, decisions, activations, fills, cancellations, expiries, segment ends, publication, cleanup | actions meet at one instant in an order the heap's key decides; expiry, fill and replacement race; publication fails half-way | coordinator and oracle agree; every order ends once; a trade is not spent twice; time does not go back; what is published is whole |
| **Measurement supervisor** `pmm_phase7_measurement.py` | owned process group, samples, interrupt flags, shutdown record | spawn, sample, stop, shut down, report | an interrupt between the fork and the ownership of the child; second interrupt, failed samples, refused signals and forks racing with the grace periods; a pipe held open by a member that outlives the teardown | the report is true; a status 0 or 2 is earned; supervision ends |
| **Product terms** `pmm_product_terms.py` | observations, package directories, catalogue | `fetch`, assemble, build terms, map and review, catalogue, resolve | sources change while they are fetched one after another; documents are removed, rebuilt or cut short between two commands | a capture resolves only to terms the venue showed during all of it, to one package, reviewed as it is |
| Core value types `core/*.cpp` | none (validated values) | constructors | none | ranges used by the other modules |
| B2c operator checks, evidence verifier, fixture integrity, demonstration | none that evolves | one-pass validation | none of concurrency or failure | not modelled |

### How they interact

```
agents / market maker / backtest
   |  intents                       events, in sequence order
   v                                          |
AccountRisk  --bind ingress-->  Durable queue |
   (admit, reserve)             (at, ingress) |
                                     |        |
                                     v        |
                 prepare -> Exchange.process -+-> commit -> publish
                                 |
                                 v
                              OrderBook
```

```
venue ~~frames~~> capture --frames.jsonl--> normalize_capture_v3 --records--> product cursors
 |                                                    |                        (features)
 | documents                                          v
 v                                          run_backtest_v4 --calls--> risk oracle process
product terms --reviewed terms--> capture's catalogue     (one per product)  = AccountRisk

measurement supervisor --process group, signals--> any of these commands
```

The exchange is single-threaded: interleaving comes from the order of queued
commands, from strategies that act between events, and from crashes between
writes. On the Python side the programs hand files to each other: the capture races
with the network and its deadline, the backtest orders simulated actions, the
supervisor races with a process group and an operator, and `fetch` with the venue's
documents.

### Hazards

`PROJECT.json` lists every place where this code can go wrong in a way a test
would hardly reach, with the line where it bites and the property that catches
it. The one without a property carries a note.

## 2. What is modelled

| Module | Models | State and actions against the code |
|---|---|---|
| `AccountRisk` | `AccountRiskProjection` | `net`, `live`, `pending`, `watermark`, `kill` are the members of the class. One action per public method and per event kind of `apply`: `Admit`, `BindIngress`, `ApplyAcknowledged`, `ApplyFill`, `ApplyOutcome`, `ApplyCancellation`, `ApplyRejected`, `ApplyOther`, `SetKillSwitch`, `Restore`. A call that returns an error changes nothing, so it is no step. |
| `AccountRisk_proofs` | | the theorems of section 5 |
| `OrderBook` (checked as part of `Exchange`) | `LimitOrderBook` | `live` is the order table, `levels[side][price]` the queue with its cached total, count and occupied bit. `Submit` and `Cancel` are the calls that change the book; `Walk` lists the crossed resting orders in the order the nested loops visit them, `PlanMatches` is as much of it as the remaining quantity and the self-trade rule allow, and the preview is computed by its own definitions, as in the code. |
| `Exchange` | `process_submit`, `process_cancel`, `process_lifecycle` | extends `OrderBook` with the status of the market, the order and event counters and the view a strategy rebuilds from depth events. |
| `DurableExchange` | `create_durable`, `enqueue`, `run_next`, `persist_checkpoint`, `recover_durable`, `DurableStore` | `genesis`, `journal`, `snapshot` are on disk; the queue, the clock and the counters are lost by `Crash`. Each write may succeed, fail and leave the whole frame, a fragment or nothing; whichever it does, the handler that made it is one action with the write's outcome. |
| `Exchange_proofs`, `DurableExchange_proofs`, `MarketMaker_proofs`, `MultiMarket_proofs` | | the lemmas and theorems of section 5 |
| `MarketMaker` | `MarketMakingCoordinator` over the two parts it owns | extends `Exchange` and instantiates `AccountRisk` on the maker's account (`Risk!Admit`, `Risk!ApplyFill`, ...: the very actions proved about). `phase` is the program counter of `run_until`: `RunExchange` executes one due command, `Consume` one event, `Decide`, `AdmitSide` and `BindSide` are the steps of `run_decision`, `Decided` the advance of `next_decision_at_`. External commands and the kill switch come in while `phase` is "idle". |
| `Capture` | `run_capture_v2`, `run_capture_v2_command` | `pc` is the await the loop is in, `segments` are the connection summaries, `records` the lines of `frames.jsonl`, `tracker` the `SequenceTracker`. `Receive` records a frame, then judges it, as the code does; a refused one is being left (`leaving`, with the exception's code in `cause`) until the awaited close returns and `Left` records the gap, or the close fails (`TransportFails`), or an interrupt, a failed write or a kill comes first and there is no gap. `ReceiveUnwritten`, `AcknowledgementUnwritten` and `RecordUnwritten` are failed writes, `Stops` the interrupt, `Killed` the end of the process. |
| `CapturePipeline` | the capture's file in front of the normaliser | composes `Capture` with `Normalizer` over the recorded lines and states the capture's properties |
| `Capture_proofs` | | the theorems of section 5 |
| `Normalizer` | `normalize_capture_v3` | a record `n` of what the function keeps between two lines; one operator per kind of line, so that `Capture` and `Replay` both apply it |
| `ProductCursor` | `SegmentAwareProductCursor`, `ObservedMarketProjection`, `materialize_features_v3` | a record per cursor; `StartSegment`, `InvalidateCursor`, `ApplySnapshot` and the rest are its methods, each with the code it raises |
| `SegmentedBooks` | what the cursor promises | a book is hidden, or shown in its segment, where it moves one level at a time. `Replay` implements it by the mapping `Promise`. |
| `Replay` | the venue, the network (both external), normaliser and cursors | the venue sends frames, its book frames numbered and its trades numbered if it likes, the network loses, repeats and reorders them, connections fail; each delivered frame goes through `Normalizer` and what that writes through the cursors |
| `RiskOracle` | `CxxRiskOracle` and the process behind it | a record per bridge; admission is `AccountRisk`'s own operators on the bridge's state |
| `MultiMarket` | `run_backtest_v4` | `heap` is `action_heap`, a set whose earliest key `Earliest` finds, `product` the runtimes; one action of the model takes one action off the heap and does all its handler does, the oracle's calls included; `disk` follows publication and cleanup, `Raise` is the exception handler |
| `Supervisor` | `run_measurement_v2`, `_shutdown_owned_group`, the report | `pc` is the line the wrapper waits at, `state` the `_ShutdownState`, `left` the ticks to a deadline. `Accept`, `Spawn`, `Own`, `Started` are the lines from the checks to the handler's installation. `Group` and `Writes` are what the command's processes do meanwhile, `Noted` an interrupt the handler takes, `CutSpawn` and `Cut` a `KeyboardInterrupt` where it is not installed, which `Escapes` from the teardown. `Drain`, `Close` and `Restore` are the `finally` clauses; `Close` waits for the reader's lock while a live member holds the pipe. |
| `Replay_proofs`, `Reports_proofs` (of `ProductTerms` and `Supervisor`) | | the theorems of section 5 |
| `ProductTerms` | `pmm_product_terms.py`, package format 3 | `began` says when each revision of a source began; `fetch` takes steps (`FetchStarts`, `Responds`, `Retains`, `FetchPublishes`), the other commands one action each; `Removed` and cut documents are mishaps |
| `CommandLedger` | what the durable exchange promises | commands in execution order, at most one in doubt, nothing forgotten by a stop. `DurableExchange` implements it by the mapping `Promise`. |
| `MC*` | | constants of the instances: symmetric traders and orders, the documents of the restore fixtures |

Abstractions worth knowing:

* Prices are a few ticks; contract identity, timestamps and refusal codes of the
  risk projection are one more way to refuse.
* One market. Several markets share only the identifier counters, which
  the model keeps.
* In `DurableExchange` the markets are a deterministic machine: their state is
  the sequence of commands executed since genesis, and an event batch is where
  it starts and which command it answers. `Exchange` shows what one command does.
* In `MarketMaker` prices are ticks, the coordinator's depth projection is the view
  `Exchange` maintains (it is read only when every event is consumed), and identifiers
  and sequence numbers suffice for the run; three variables observe the exchange for the
  properties (`traded`, `refusals`, `outside`). The other callers of `enqueue_external` are
  other traders and the operator (`ExternalAssumption`): `enqueue_external` itself takes any
  command, but the projection calls an order of the maker that it did not admit an error
  ("account observed an unadmitted trader order"). `Accepts` spells out when `apply` takes an
  event, and `ConsumeFails` is the step where it does not.
* In the capture a frame's body, and in product terms a document's, is data: hashes are
  the documents themselves, a source's content is its revision number.
* `MultiMarket` makes its choices (records, latencies) in `Init`: a run of the code is
  deterministic once they are fixed. Quotes are one rule per side. A price counts some unit
  of which `Cent` make a cent, and a trade's quantity is its whole contracts and whether a
  fraction is left over, which is what the conversions that raise look at. Several actions
  pushed by one handler are a set, each with its place among them (`ordinal`), and `Push`
  numbers them as the calls of `push`, one after the other, would.
* `Supervisor` counts waits in ticks; the process table, the group and the operator are
  external.
* Four numeric edges are left out. `OrderBook!Snapshot` takes a level's total as it is, where the code
  casts it to a signed 64-bit number (`order_book.cpp` 275, 586-588), which would differ from
  2^63 on. `MarketMaker!Center` leaves out the branch where the product of position and skew would not fit 64
  bits (`market_maker.cpp` 322-327; the skew is then the largest, which bounds the other branch too).
  `ProductTerms!Covers` compares the times as they are, where `utc_ns_to_datetime` goes through a
  float to microseconds (`pmm_product_terms.py` 343). And counters are capped by the bounds named in each module.
* A torn write leaves a fragment too short to hold a header, or a header with
  part of its payload: the store treats them differently when more follows.

## 3. Plan

Everything of the plan that the code justifies is done, in this order:

1. `AccountRisk`, `OrderBook`, `Exchange`, `CommandLedger` and `DurableExchange` with the
   refinement, each with its proofs.
2. `MarketMaker`, the composition of `Exchange` and `AccountRisk`, with its proofs and the
   proof that it implements `AccountRisk`.
3. `Capture`, `Normalizer` and `CapturePipeline`, their composition, with the proofs about
   the capture.
4. `ProductCursor`, `SegmentedBooks` and `Replay` with the refinement, and their proofs.
5. `RiskOracle` and `MultiMarket` over it, with their proofs.
6. `Supervisor` and its proofs.
7. `ProductTerms` and its proofs.

Left for whoever continues: the coordinator's own checkpoint and restore; the
one-market capture of version 1; `verify_backtest_v4`; a proof of
`StrictCapturesNormalize`.

Runs are budgeted at one per question: one passing run per component or
composition, one per refinement that needs an instance of its own, one per
disagreement. Invariants of one component that fail for the same reasons are
conjunctions of named parts, so that a counterexample names the part.

## 4. What TLC checks

| Run | Shows | Bounds |
|---|---|---|
| `account_risk` | type invariant; the position limit holds in the worst case of everything open and reserved (`WorstCasePosition`); what the side limit is worth (`SideExposureBound`); active orders; unique ingress numbers; of all restore rules only two can refuse a captured checkpoint; a killed account's range of positions only shrinks | 2 orders, 2 intents, 2 ingress numbers, quantities 0 to 3 with per-order limit 2: every limit can be met exactly and exceeded by one, an event may carry a quantity over the open one. Documents: one per restore rule. 4 events: an order's whole life twice |
| `exchange` | the book: caches, never crossed, restore round trip (`BookConsistent`), `PriceTimePriority`, conservation and exact preview (`SubmitIsExact`); the market: event numbers never run out in the middle of a command, view, closed market empty (`MarketConsistent`), fresh ids, halting, post-only (`MarketRules`) | 2 traders, 3 order ids, 2 prices, quantities 1 to 3: walks over two levels, partial fills, self-trade prevention before and after a fill; aggregate 4, trade and priority numbers 3: each can run out; 13 event numbers: enough to close a full book, few enough that every handler meets the end |
| `durable_exchange` | what runs is what the journal commits; journal ordered over restarts and the snapshot behind it (`JournalIsSound`); recovery exact; three reasons for it to refuse | 2 times, 3 ingress numbers, 6 frames, 2 event numbers: two recoveries and an exhausted counter fit |
| `durable_refinement` | `DurableExchange` implements `CommandLedger` | 4 ingress numbers, 8 frames, no fragments |
| `market_maker` | the account agrees with the exchange whenever events are consumed; one quote per side and no command of the maker rejected while the market is open (`QuotesAreSound`); true exposure within the limit; a killed maker leaves; only market orders stall it; `run_until` returns | 3 external commands of 7 kinds at any of 3 times, one ahead in the queue; decisions at 1, 2 and 3; 4 ticks; all three reference sources; quotes go stale at age 2. The buy limit leaves room for two quotes and the sell limit for one, so that replacement at once and replacement a decision later both happen |
| `capture` | the strict verdict is what the frames show (`StrictVerdictIsHonest`); records, summaries, attribution and pacing agree (`RecordIsConsistent`): a frame that is not attributed is followed by the gap, or by nothing while the connection is being left or after a stop; a strict capture whose deltas follow a snapshot and whose frames are numbered normalises (`StrictCapturesNormalize`); it ends | one ticker, deadline 2, delay ceiling 2: two connections; 4 frames of 15 kinds, wrong acknowledgements, skipped, repeated, missing and non-numeric sequences and unrequested tickers among them; one lost write |
| `replay` | a shown book is the venue's, in the segment the normaliser holds valid, and the cursor shows all the books the normaliser holds valid but those a gap in the trades' numbers ended (`ShownBookIsTrue`); "complete" hides no loss of book frames from number 1 on, nor of numbered trades from the first delivered, and materialises (`CompleteIsTrue`); cursors implement `SegmentedBooks` (`NeverCrossesASegment`) | 2 tickers, 1 level, 4 sent frames with 2 in flight, one fault, 2 connections, declared topologies independent and unknown, both numberings, each trade numbered or not: a snapshot, a delta overtaken or lost, a reconnection and a recovery fit |
| `multimarket` | coordinator and oracles agree; every order ends once, no trade overspent (`OrdersAreAccounted`); what is published is whole, and a run raises by itself only for two segments of a product, a product without a row, a quote that is not whole contracts at whole cents, or a trade of a fraction of a contract under the fill model (`OutcomeIsRight`); time never goes back (`ActionsAreCausal`); the run ends | two products; files of up to 8 records with books, trades, second segments, half cents, half contracts, a product without rows, and ill-formed inputs; latencies 0 to 2 for which several actions fall on one instant; 12 orders |
| `supervisor` | no orphan behind a report without a failure, except a child that was interrupted before it was owned, whose report says so; cooperative means so (`TeardownIsTruthful`); a status 0 or 2 was earned within the raw and aggregate budgets (`StatusIsEarned`); `SupervisionEnds`, unless a live member that no SIGKILL reached holds the pipe | the leader and one helper it may fork, each heeding every signal or only SIGKILL; graces of one tick, one failed call, one budget exceeded or file rewritten, exit codes 0 and 2: 1.9 million states |
| `product_terms` | a capture resolves only to terms shown during all of it (`ObservedThroughout`); to what was reviewed, and to one package (`ResolutionIsSound`) | one required record, one optional static document, 2 packages, 2 wordings, time 3, one change of a source, 2 observations, 2 mishaps |
| `durable_torn_tail` | **violated**: recovery refuses a journal a crash left (finding 1) | first counterexample within 3 commands |
| `supervisor_second_interrupt` | **violated**: after a second interrupt the last graces are not waited for (finding 2) | as `supervisor` |

Deadlock is checked where a next call always exists or the end is a state of its
own (`account_risk`, `market_maker`, `capture`, `multimarket`). The exchange and
durable instances and `replay` stop when the bounded numbers run out, which for the
exchange is the behaviour of the code at those limits; a supervised measurement
ends; and `product_terms` may use up its clock and its observations.

Fairness is assumed for the four programs that must do something by themselves, and
for nothing outside them:

* `MarketMaker`: its single thread goes on while it is inside `run_until`, and nothing of
  its callers. Weak fairness of the coordinator's actions is written as "infinitely
  often idle, or infinitely many steps from a state that is not idle": no state of the
  run is a deadlock, so outside "idle" a step of the coordinator is always enabled, and
  the two are the same. `RunUntilReturns` then says that no decision keeps feeding
  the loop it runs in.
* `Capture`: time passes, and a connection attempt, a send and a close return or raise, as
  the library's timeouts make them. A receive before the deadline is exempt: the venue
  owes the program no frame.
* `MultiMarket`: the event loop is one thread without waits, so it takes its next step.
* `Supervisor`: the wrapper's own steps and the ticks of its bounded waits, and the kernel,
  which ends a member that SIGKILL reached (`Kernel`). Neither the other processes nor the
  operator need ever move: a member may ignore SIGINT and SIGTERM, and one that SIGKILL did
  not reach may live, and hold its pipe, for ever (`Released` is not fair).

Every property of a passing run has a mutant in `PROJECT.json`: a plausible bug
in a mapped definition, written in the module beside the original, that
makes TLC find that property violated. So each property says something of
the code it is about.

### Findings

Two disagreements between the code and its documents have a run of their own:

1. *Torn tails* (`durable_torn_tail`). `open` passes over a fragment at the end of the
   journal and leaves it there; the next frame is appended behind it, and the recovery
   after that meets a checksum mismatch or stops early. Two crashes lose a journal.
   ADR-007 promises that recovery restores what was committed. `RecoveryRefusals` says
   what recovery can refuse.
2. *Second interrupt* (`supervisor_second_interrupt`). `wait_for_quiescence` returns as
   soon as the expedite flag is set, whichever grace it is in. Once the child is reaped,
   the waits after SIGKILL are skipped, and a member that is still listed for an instant
   makes the teardown incomplete at once. The hardening design (line 159) says that a
   second interrupt "accelerates to SIGKILL but cannot skip ... final group
   confirmation". `TeardownIsTruthful` holds all the same: such a run is reported as a
   failure.

Six more configurations are kept for `tlc -config <cfg> <module>`; each shows in a
short counterexample where a stronger statement fails, and a passing property says what
does hold.

| Configuration, module | What fails | What holds |
|---|---|---|
| `AccountRiskRestore`, `MCAccountRisk` | A captured checkpoint does not always restore: `admit` compares the side limit with the open orders only, `validate_checkpoint` with the acknowledged ones, so two reservations admitted together exceed it once acknowledged. | `RestoreRefusesTwoThingsOnly`, `SideExposureBound` |
| `DurableSnapshotCount`, `DurableExchange` | `persist_checkpoint` records the size of `command_journal_`, which restarts with each process; a checkpoint persisted after a recovery counts too few commits, and the next recovery refuses. | `RecoveryRefusals`, `RecoveryIsExact` |
| `MarketMakerMarketOrder`, `MCMarketMaker` | `AccountRiskProjection::apply` refuses the acknowledgement of a market order before it looks at whose it is; `consume_events` stops there for good, while the exchange goes on executing against the maker's quotes. | `StallsOnMarketOrdersOnly` |
| `CaptureStrict`, `MCCapture` | A strict capture that the normaliser refuses or finds incomplete: a delta before its snapshot, or a frame without a sequence. ADR-013 (line 160): "`capture-v2` exit zero now means finalized evidence is eligible for strict normalization." | `StrictCapturesNormalize` |
| `ReplayTwoGaps`, `MCReplay` | After a second gap with no segment in between, the normaliser announces a recovery snapshot where the cursor (`pmm_phase7.py` 1454) waits for an initial one. ADR-013 (lines 171-172): "A recovery snapshot may start a new segment". | `CompleteMaterializes`, `NeverCrossesASegment` |
| `ReplayLogicalTime`, `MCReplay` | A record's logical time may be smaller than the one before (`pmm_phase7.py` 973, 1013). ADR-013 (lines 72-73): "Logical time is monotonic through `max(previous_logical_time, event_time)`". | `CompleteHidesNoLoss` |

## 5. What is proved

`AccountRisk_proofs`, for all finite sets of orders and intents, all positive
limits, every set of documents and every stream of events:

| Theorem | Property |
|---|---|
| `TypeCorrect` | `TypeOK` |
| `WorstCaseSafe` | `WorstCasePosition` |
| `SideExposureSafe` | `SideExposureBound` |
| `ActiveOrdersSafe` | `ActiveOrderBound` |
| `IngressSafe` | `IngressUnique` |
| `KillSwitchSafe` | `KilledAccountOnlyShrinks` |
| `OwnCheckpointRefusals` | `RestoreRefusesTwoThingsOnly` |

Assumptions: `LimitsAssumption` (the constructor refuses zero limits) and
`IdentifiersAssumption` (finitely many identifiers; the null ingress is
not an ingress).

The argument. `TypeOK` is inductive alone. The limits are proved as one conjunction
`Limits`, inductive relative to `TypeOK`: none of them is alone, since an
acknowledgement moves an order from `pending` to `live` and
so shifts quantity between the sums the others bound. The idea of the
proof is *narrowing*: every event, and binding, leaves the upper end
`net + Buys` no higher and the lower end `net - Sells` no lower (`StepNarrows`),
because it moves quantity from an order to the position or drops it;
narrowing preserves every limit on those ends (`NarrowingPreserves`). Only
`Admit` and `Restore` widen, and both test the limits first
(`AdmitWithinLimits`, `RestoreWithinLimits`). `KillSwitchSafe` is narrowing
again, plus `Admit` being refused under the kill switch.

Sums over an order map are cardinalities of a set of *lots*
(`Lots`, pairs of an order and a number up to its quantity): the lemmas `ExposureWith`,
`ExposureWithout`, `ExposureReplaced` then follow from the library's facts about finite
sets, without induction over data.

`Exchange_proofs` (lemmas about `OrderBook` first), for any ladder of prices, any finite set
of order numbers, any traders and quantities, and any limits on aggregates and counters:

| Theorem | Property |
|---|---|
| `MarketInvariant` | the inductive invariant `IInv` |
| `BookStaysConsistent` | `BookConsistent` |
| `MarketStaysConsistent` | `MarketConsistent` |
| `ExecutionsFollowPriority` | `PriceTimePriority` |
| `SubmissionsAreExact` | `SubmitIsExact` |
| `RulesAreKept` | `MarketRules` |

Assumptions: `LadderAssumption` (prices and order quantities are numbers, finitely many prices)
and `ExchangeAssumption` (finitely many order numbers).

The invariant `IInv` is `BookInv` with the range of order numbers used (`OrderNumbers`), the
view a strategy rebuilds and what a closed market holds. `BookInv` says of the book that it is
`Sound` (each level, by `LevelOK`, queues exactly the live orders of its side and price, by
priority, and caches their total and number), `Bounded` (no total over the aggregate limit),
uncrossed, and that every priority is below the next one. `BookConsistent` is not inductive:
it does not say that priorities were given out in order, without which a new order would not
belong at the end of its queue, nor that no two live orders share one.

The argument runs along the code. `Unlink` and `Link` keep `LevelOK` (`LevelWithout`,
`LevelWith`); totals are cardinalities of sets of units, so that they follow by facts of
finite sets. A match that leaves something (`SoundSame`) only changes the order and one
total, and one that leaves nothing is an unlinking (`UnlinkSame`). The walk over the crossed
levels lists the crossed orders in price-time priority, each once; the plan is a first part
of the walk in which all but the last order are taken whole, hence `PriceTimePriority`,
conservation, and an uncrossed book when the remainder rests. Two sound books with the same
order table are the same book (`OneBook`): so relinking a checkpoint's orders by priority
restores the very book (the code's caches included), and a closed market's book is empty. The
preview's own two computations agree with the walk (`PreviewIsExact`), which is why the
capacity test on its events cannot be passed and then exceeded.

`DurableExchange_proofs`, for all sets of times, batch sizes and fragments and any capacity:

| Theorem | Property |
|---|---|
| `PublishedCommandsAreDurable` | `PublishedIsDurable` |
| `JournalSound` | `JournalIsSound` |
| `RecoveryRebuilds` | `RecoveryIsExact` |
| `RecoveryRefusesThreeThingsOnly` | `RecoveryRefusals` |
| `ExchangeKeepsItsLedger` (no fragments: `TornKinds = {}`) | `ImplementsLedger` |

The assumption is `DurableAssumption`: times and batch sizes are positive, the fragments are of
the two kinds the store tells apart, and the bounds are numbers.

The invariant is `Typed /\ SoundFrames(journal) /\ NothingYet /\ QueueSound /\ RunningSound /\
SnapshotSound`. None of the four properties is inductive: each says something of what a
recovery reads, and what it reads was written before an earlier crash. `SoundFrames` carries
that over: whatever lies between the frames, those that read clean are a single sequential
execution of one machine, command and batch in turns, in scheduling order, with at most the
last command unanswered. `RunningSound` ties the memory of a running process to it and
`SnapshotSound` the snapshot. A snapshot may miscount its commits (the configuration
`DurableSnapshotCount`) and start recovery at the wrong batch; `RecoveryIsExact` holds all the
same, since every batch begins at a larger event number than the one before, so a
re-execution from a wrong start differs from the first batch it is compared with. The
refinement of `CommandLedger` is proved step by step: initial states map to initial states,
and each action to one of the ledger or a stutter. It needs `TornKinds = {}`: with fragments
a crash can make a durable command unreadable, which is finding 1.

`MarketMaker_proofs`, for any traders, ladder, order quantities, commands of others, limits
and quoting parameters:

| Theorem | Property |
|---|---|
| `MakerInvariant` | the inductive invariant `MakerInv` |
| `AccountAgrees` | `AccountAgreesWithExchange` |
| `TrueExposureSafe` | `TrueExposureWithinLimit` |
| `OnlyMarketOrdersStall` | `StallsOnMarketOrdersOnly` |
| `QuotesOnceASide` | `OneQuotePerSide` |
| `KilledMakersLeave` | `KilledMakerLeaves` |
| `MakerQuotesSoundly` (while the book has room: `RoomLeft`) | `QuotesAreSound` |
| `QuotingInvariant` | the inductive invariant `QuotingInv` |
| `CoordinatorKeepsAccount` | implements `AccountRisk` (`Risk!Spec`) |

Assumptions: those of `Exchange`; `MakerAssumption` (what `validate_config` and
`AccountRiskProjection::create` refuse is not configured, and the maker's quantity is one a
client may order); `ExternalAssumption` (section 2).

`AccountAgreesWithExchange` speaks of the states without unconsumed events only, and
between them the exchange may have executed any number of commands. The invariant therefore
says where the events lead: `Leads(a, es, b)` holds when the events `es`, one after the other,
take account `a` to account `b`, each being an event that account can expect (`Tells`: a fill
is of a live order and no larger than it, an acknowledgement answers to a reservation).
`Follows` is that the events not yet consumed lead the account to the exchange's own: its
orders of the maker, what the maker traded, and reservations that answer one to one to the
maker's queued submissions (`Reserved`). The proof then has two halves that never meet.

* *The exchange appends.* Each handler's batch leads the old state of the book to the new
  one (`ProcessTold`, from `OtherSubmitTold`, `OwnSubmitTold`, `CancelTold` and
  `LifecycleTold`): executions match by match along the stages of the book that
  `Exchange_proofs` gives (`MatchingStages`, `ExecutionsTold`), the cancellations of a closing
  one by one (`ClosingTold`). The maker's own submission is post-only and so meets
  nothing or is rejected (`PostOnlyRests`, `Rejected`), hence its acknowledgement answers to
  its reservation whole.
* *The account consumes.* Where `Follows` holds the head of the events is one that `apply`
  accepts, unless it acknowledges a market order (`ToldIsAccepted`), and applying it leaves
  the rest to lead on (`ApplyIsTold`): hence `OnlyMarketOrdersStall`. `Admit` and
  `BindIngress` run only when nothing is left to consume, so that what they reserve and
  bind is added to both ends at once.

With no events left `Follows` is agreement. `TrueExposureSafe` is the second use of it: every
event narrows what an account can still reach (`LeadsNarrower`), so the exchange's state, at the
end of the events, is within any limit the account is within. That the account is
within its limits is `AccountRisk_proofs`: its lemmas about one step hold of the coordinator's
account, as each step of the coordinator is one of `AccountRisk` or leaves the account alone.

How the maker quotes is a second invariant, `QuotingInv`, over the first. The maker's
commands and the book are apart for the length of a decision, a step per queued command, and
none of the three properties says anything of the queue. `OwnFirst` does: between a decision and
its commands nothing of another caller runs, since the queue is sorted by time and the
decision is taken when all that is due has run. `CancellationsOK` is that each cancellation names
an order that is there, once, and that all cancellations are ahead of all submissions;
`SubmissionsOK`, that a queued quote is behind every order of the other side (`Behind`), and that
what stands on its side is `Leaving`; `DecisionOK` is what one stage of `run_decision` leaves
to the next; `WithdrawnOK` is the kill switch's half. `QuoteIsBehind` shows that a quote computed from the
displayed book is behind the book (the view is the book, and the best displayed price
bounds every order of the side), and it stays so because cancellations only remove orders and the quotes of
one decision do not cross each other (`QuotedPair`). A command of the maker then cannot be refused
for what it is: a post-only order behind the book takes nothing (`BehindTakesNothing`), and a
cancelled order is there. What is left are the book's own limits. The code refuses a resting order when
priority numbers are used up or a level's total would overflow, and no invariant excludes
either; `RoomLeft` says that neither is so, and `MakerQuotesSoundly` has `[]RoomLeft` as a
hypothesis. The other two theorems need none.

`Reports_proofs` (1), about `ProductTerms`, for any sources, packages and wordings, however long the clock
runs and however often the sources change:

| Theorem | Property |
|---|---|
| `ObservedSafe` | `ObservedThroughout` |
| `ResolutionSafe` | `ResolutionIsSound` |

The inductive invariant has one part per place the commands write to: `SourcesOK` (the
revisions of a source, each with its time), `FetchOK` (the running observation),
`ObservedOK` (the published ones), `PackagesOK` (each document agrees with those it was
built from, unless it is missing or cut), `CatalogOK` (an entry names a package that was
sealed). The heart of it is `Seen`: if revision *v* is retained, revisions up to *v* began
by the end of the observation and later ones not before its start. `BracketHolds`
concludes that between the opening observation's end and the closing one's start the
source said *v* throughout, which no single observation shows. The only assumption is
`TimeAssumption` (the clock's bound is a number).

`Reports_proofs` (2), about `Supervisor`, for any finite group, any graces, any set of exit codes and any
number of failed calls:

| Theorem | Property |
|---|---|
| `TeardownSafe` | `TeardownIsTruthful` |
| `StatusSafe` | `StatusIsEarned` |

The steps of the teardown are many and alike: `ObservationMoves`, `SignalMoves` and
`ReapMoves` show each of them to be a `TeardownMove`, which goes to a place with a record
whose claims the step has made true. The invariant says what the claims are worth:
`ClaimsOK` (a quiescent group has no live member, and so cannot fork; a reaped child is
gone), `CausesOK` (a member is only ended by itself or by a signal the record calls
attempted), `VerdictOK` (the record is complete before the collectors are joined),
`ReportOK` (what was published). `TeardownIsTruthful` alone is not inductive: it says
nothing before the report, when the claims are made. The assumption is
`SupervisorAssumption` (finite group, positive graces as `MeasurementControls` validates,
SIGKILL cannot be ignored, and `None` is none of the names used).

Both theorems stop where the code does. An interrupt inside `Popen` leaves a child that no
teardown reaches: the report says `operator_interrupted`, not reaped and outputs `unknown`,
and the child runs on. Without the handler (before it is installed) a `KeyboardInterrupt` can
separate a signal from its record, so `cooperative` is only claimed true under it. And the
stream ceiling is compared after a sample and never after the loop: a stream that crosses it
later is published with the child's status, where the B2c-H refusal codes (line 25) list 130.
An interrupt between the last look at the flag and the handler's removal is not seen either.

`Capture_proofs`, for any tickers, any frames the venue may send, any deadline and delay, and
any number of frames and of failed writes:

| Theorem | Property |
|---|---|
| `CaptureInvariant` | the inductive invariant `IInv` |
| `RecordStaysConsistent` | `RecordIsConsistent` |
| `StrictVerdictStaysHonest` | `StrictVerdictIsHonest` |

Assumptions: `CaptureAssumption` (the deadline and the bounds are numbers, the delay's ceiling
is positive) and `FramesAssumption` (nothing is read in a binary frame, which the code does
not decode; `None` is no channel and no refusal).

Neither property is inductive: both compare the file with the summaries or the verdict, which
are kept apart and agree only through what each step does to both. `IInv` ties them:
`ConnectionsOK` (connections follow each other in the file), `GapsOK` (a connection is
disconnected exactly when a gap is its last record, and then only), `AcksOK` (what is bound was
acknowledged in the file, until the connection fails), `SnapshotsOK` (the summary's counters
count the file's snapshots until then), `OrdinalsOK` (a record that was not written leaves a
connection that fails, so a strict file misses no ordinal), `TrackerOK` (the tracker's entry of a
subscription is its last numbered frame, so that comparing a frame with the entry compares it
with the frame before it in the file), and, of the control, `SegmentsOK` (only the newest
connection is not disconnected), `Paced` and `VerdictOK`.

A connection fails (`Failing`) when it is disconnected, or when it is the last one and was
abandoned: an exception is leaving it, or the capture ended in the middle of it.

Every action is either `Quiet` or one *move* (`Moves`): one or two records are added to the
newest connection, and its summary follows them. That each action is a move is shown once
(`ReceiveMoves`, `TransportFailsMoves`, ...), and each part of the invariant is shown once to
survive any move (`MovesKeepGaps`, `MovesKeepTracker`, ...), instead of once per action.

`MultiMarket_proofs`, for any declared products, any record files and latencies, any
quantity, any unit of prices and any number of orders:

| Theorem | Property |
|---|---|
| `OraclesNeverDisagree` | `OraclesAgree` |
| `OrdersAreAlwaysAccounted` | `OrdersAreAccounted` |
| `OutcomeIsAlwaysRight` | `OutcomeIsRight` |
| `ActionsAreAlwaysCausal` | `ActionsAreCausal` |

Assumptions: `ConfigurationAssumption` (latencies are numbers, intervals and lifetimes are
positive: `_nonnegative_int` and `_positive_int` raise on anything else; `Quantity` is the
quote quantity of the products whose quote quantity is a positive whole number, and the
commands of the others raise) and `InputsAssumption` (what the two producers of the
input guarantee before the preflight looks: `normalize_capture_v3` opens each segment of a
product once, and `materialize_features_v3` makes rows of events inside a segment only).

The actions wait in a heap for as long as the latencies say, and what they find on arrival
was decided by others in between. Each theorem therefore rests on an invariant about the
actions that wait, not only about the products.

* `AgreeInv` (for `OraclesAgree`). Five handlers call the oracle, and a call the bridge does
  not expect is an error. Between two rounds each oracle is `AtRest` (it numbers events as
  the projection expects, and waits for exactly the reservations the product holds); the
  lemmas of section 1 say that each call, made by a product that agrees with its oracle,
  is accepted and leaves them agreeing. What remains is that no order is asked for twice:
  `Asked` says that a waiting risk action is the only one of its order and that nothing was
  approved under that number.
* `OrdersInv` (for `OrdersAreAccounted`) adds `Accounted`: an order is held by one product at most, what it was
  filled and what is left of it are what was asked, and one that is no longer held was
  closed once. The exception would be an order that ends without a record, since the
  code writes one only where a row was seen: `Opened` excludes it, as an
  action of a segment waits only after one of its rows was seen, and a boundary still to come
  opens a segment nothing is in. `Spent` is that the fills made of a trade and
  those on their way together do not exceed it; fills on their way are counted in lots
  (`Coming`), a set, so that sums are cardinalities. A trade hands out what the earlier orders left
  (`Ahead`), and the lots handed out are mapped one to one to those of the trade
  (`GivenFits`), without a sum over orders.
* `OutcomeInv` (for `OutcomeIsRight`) adds `Published`, and `Begun`: each boundary has been taken or still waits
  at its own time. A row cannot be taken before the boundary of its segment,
  as the heap takes the earlier time and then the earlier record, so an action
  that crosses a segment (the code's own failure) shows a product with two
  segments (`CrossingsAreSegments`). `Exact` says where a waiting command's price and a
  waiting fill's fraction come from: a row and a trade of the input.
* `CausalInv` (for `ActionsAreCausal`). An order's expiry waits in the heap as long as the order lives,
  under the record the order comes from (`Answered`), and a cancellation of the
  current segment cannot be dropped as stale (`Sourced`): so a fill taken first is
  earlier. That a trade which still waits sees the order is decided when the
  order is acknowledged: an earlier record of the product was visible earlier, and its
  actions would have been taken first (`TradeIsLater`).

`Replay_proofs`, for any finite set of tickers, any levels and declared topologies, and any
number of frames, faults and connections:

| Theorem | Property |
|---|---|
| `ReplayTyped` | the type invariant `Typed` |
| `CursorsNeverCrossASegment` | `NeverCrossesASegment` (implements `SegmentedBooks`) |
| `ShownBookIsAlwaysTrue` | `ShownBookIsTrue` |
| `CompleteIsAlwaysTrue` | `CompleteIsTrue` |

The assumption is `ReplayAssumption`: finitely many tickers, the bounds are numbers, the declared
topologies are ones the normaliser knows, and `None` is no code, number, book, ticker, projection or boundary
record (`Codes`, `Projections`, `Boundaries`).

The code is a long sequence of dictionary updates and early returns, and a proof
about an invariant that looked into it would repeat them once per conjunct. They are read once: sections 3 to 5
show that reading any record `Skips` it, `Accepts` its frame or `EndsAll` segments, each a relation
between the normaliser before and after, and sections 6 and 7 that what a frame makes it write
changes a cursor by `FrameEffect`. The rest cites these relations only.

* *Refinement.* A cursor that fails or is invalidated shows nothing and
  has opened no segment (`Fails`, `Emptied`), a snapshot opens one and a delta moves one level
  (`Seeds`, `Moves`). So each step of `Replay` is a step of the promise or a stutter
  (`CursorsPromise`, `PromiseSteps`); the initial states map to initial ones.
* *Truth.* `ShownBookIsTrue` compares a shown book with the one the venue had when it sent the newest
  frame delivered. It is not inductive: whether the next delta applies to that book is decided by what
  was sent between the two, which is in no variable once it is lost or read. `Told` says that there is a
  chronicle `L` of everything sent, and the invariant is `Typed /\ (Alive => Agree) /\ Told`.
  `Chron(L)` is the network's half: numbers of a ticker increase, and those of all tickers where they are
  shared; a delta in flight is the change from the book sent just before it, and a snapshot is its
  connection's first. `Norm(L)` is the normaliser's: its latest sequence of a scope was
  read in a frame that is kept (`LatestSeen`, `PayloadsSent`), no frame delivered is beyond it
  (`Covered`), and a valid book has every frame up to it (`UpToDate`). Trades have numbers of their own, in
  a scope of their own (`Scoped`). `Agree` says that the cursor shows a book
  where the normaliser calls the ticker valid and no gap of the trades' numbers has ended it (`Gapped`), and no other.
  That exception is the code's: every discontinuity makes the cursor give up its book (918), one of the trade
  subscription leaves the normaliser's valid (934), so the ticker's next delta is written as
  valid and the cursor raises `FeatureBookStateInvalid` on it. `materialize_features_v3` refuses a
  discontinuous normalisation before it makes a cursor.
  An accepted book frame is then the newest of its ticker (`AcceptedIsNewest`), and a delta accepted
  continues the book shown (`DeltaContinues`, `OwnBook`). The other books are where the topologies differ
  (`OtherBook`): under a shared scope a frame that was lost may be any ticker's, and they stay true since a
  gap hides them all. Where the venue numbers each ticker on its own and the
  normaliser reads one sequence, `OneTicker` shows that, unless it finds a reason against completeness,
  what it read is of one ticker. That is the case in which a visible book is promised to
  be true (`Trusted`).
* *Completeness.* `CompleteIsTrue` speaks of the end of a file: whether numbers are missing from what
  was read, and what `materialize_features_v3` would make of what was written. `CInv` adds to the
  invariant above what holds while there is no reason and no discontinuity (`Clean`), which is lost
  for good once it is lost. `Opening`: a scope's number 1 belongs to a
  snapshot, so that no book of that scope is valid before it was read; under shared numbers only
  some ticker's snapshot has it, and the end of a file asks for all tickers (`CompleteSays`). `Runs`: the
  numbers read of either subscription leave none out up to the latest, as a jump is a discontinuity. A lost first
  trade is no jump, so the trades' numbers run from the least one read (`LeastNumber`), which need not be 1. `Calm`:
  a ticker has had no segment and awaits its first snapshot, or is in its first segment with a book the
  next delta cannot make negative, because that book is the venue's (`Norm`); so no cursor raises
  (`BoundaryFollows`, `SnapshotFollows`, `UpdateFollows`). `Rows`: the materialiser, run on what is
  written so far, has the same cursors, no error, rows of first segments, and as the last row of a valid
  ticker the book its cursor shows. Its loop is read once, record by record
  (`MaterializedAppend`, `RecordMaterialized`).

Only model-checked: `StrictCapturesNormalize` (what the normaliser makes of a whole file). Out of reach of the proof system and left to TLC: liveness under fairness
(`RunUntilReturns`, `CaptureEnds`, `RunEnds`, `SupervisionEnds`) and ENABLED, and what a
`RECURSIVE` operator or a fold computes for every input, hence the normaliser's fold over a
file. The library's induction rules take an operator as parameter,
which the installed provers cannot instantiate. The proofs of the book and of the journal do
without them, and so do those of the loops over records: the recursive definitions are functions on 0..n, and a property of all of them
is shown by a least counterexample, which well-founded induction over sets gives (`LeastNumber`,
`Climb`); that such a function exists is shown the same way.

## 6. Not modelled, and why

* Core value types: validated values without transitions.
* Baseline agents: seeded random commands over the exchange; any command at any time is
  already an input of `Exchange` and `MarketMaker`.
* Backtest v3 (`run_backtest`): the one-product ancestor of v4, with the same heap,
  latencies and bridge.
* The one-market capture of version 1, the earlier normal forms and package formats:
  superseded by the versions modelled.
* The coordinator's own checkpoint and restore: those of its two parts are modelled; no
  code of the repository runs a coordinator over a recovered exchange.
* Several markets in the exchange: they share only the identifier counters, which the model
  keeps.
* `verify_backtest_v4`, the evidence verifier, the B2c operator checks, the fixture
  integrity tool: one pass over documents, ending in a verdict.
* Feature values, quoting prices, report rendering, process-table and line-protocol
  parsing: no state that the properties tell apart.
* Byte encodings of frames, snapshots and checkpoints: abstracted to "reads clean,
  is a fragment, is corrupt".
* `replay()` of a non-durable journal: the same loop as recovery, without crashes.
* The demonstration program: a script that prints what the library does.

The map of `PROJECT.json` covers about a third of the Python lines; most of the rest is the
validation of schemas, hashing and the rendering of documents.
