----------------------------- MODULE MultiMarket -----------------------------
(* run_backtest_v4 of src/python/pmm_phase7_multimarket.py: one coordinator, a *)
(* heap of actions ordered by (time, causal record, stage, ..., ordinal), and  *)
(* per product its segment, its pending and live orders, its clock and its own *)
(* risk oracle.  The records are normalize_capture_v3's, the rows those of     *)
(* materialize_features_v3; a run is deterministic once they are chosen, so    *)
(* the choices are made in Init and what may fail later is a fault.            *)
EXTENDS RiskOracle, Sequences

CONSTANTS
  Products, \* config["products"], in declared order: a sequence of tickers
  Inputs,   \* the record files offered
  Plans,    \* the declared latencies and strategies, one record per product
  Quantity, \* strategy.quote_quantity_contracts, where that is a positive whole number
  Cent,     \* a cent, in the unit of the input's prices
  None      \* no segment, no row

VARIABLES
  input,    \* preflight.records
  plan,     \* per product: latency, strategy and execution model
  phase,
  heap,     \* action_heap
  pushed,   \* global_action_ordinal
  nextId,   \* next_order_id
  product,  \* runtimes
  last,     \* ghost: the key of the last action taken
  ledger,   \* what the artifacts say of each submitted order
  traded,   \* per record, the quantity of the fills that name its trade
  disk,     \* the output and the telemetry: absent, partial or final
  faulty    \* ghost: a call outside this module's code has failed

vars == <<input, plan, phase, heap, pushed, nextId, product, last, ledger, traded, disk, faulty>>
runVars == <<input, plan, faulty, disk>>

Tickers == {Products[i] : i \in DOMAIN Products}
Smallest(a, b) == IF a < b THEN a ELSE b

\* Latencies are declared, not measured; the schema refuses anything else.  A
\* quote quantity is any string: where it is no positive whole number the plan
\* says so (whole), and a command of the product raises.
ASSUME ConfigurationAssumption ==
  /\ MaxOrders \in Nat
  /\ Quantity \in Nat \ {0} /\ Cent \in Nat \ {0}
  /\ \A p \in Plans, t \in Tickers :
       /\ {p[t].marketData, p[t].decision, p[t].order, p[t].acknowledgement, p[t].fill, p[t].cancellation} \subseteq Nat
       /\ {p[t].interval, p[t].lifetime} \subseteq Nat \ {0}
       /\ p[t].whole \in BOOLEAN

IsBoundary(rec) == rec.kind = "segment_boundary"
SameBook(rec, other) == rec.ticker = other.ticker /\ rec.segment = other.segment

\* What the two producers of the input guarantee before the preflight looks:
\* normalize_capture_v3 numbers the segments of a product, so that each is
\* opened once, and materialize_features_v3 makes no row of an event whose
\* product has no segment yet, without which the event is refused.  Neither
\* rounds: a trade's quantity is its whole contracts and whether a fraction of
\* one is left over, a price may fall between two cents.
ASSUME InputsAssumption ==
  \A records \in Inputs :
    /\ Len(records) \in Nat /\ DOMAIN records = 1..Len(records)
    /\ \A i \in DOMAIN records :
         /\ records[i].kind \in {"segment_boundary", "market_event", "discontinuity"}
         /\ records[i].ticker \in Tickers /\ records[i].segment # None
         /\ records[i].time \in Nat /\ records[i].quantity \in Nat /\ records[i].fraction \in BOOLEAN
         /\ records[i].kind = "market_event" =>
              \E j \in DOMAIN records : j < i /\ IsBoundary(records[j]) /\ SameBook(records[j], records[i])
    /\ \A i, j \in DOMAIN records :
         IsBoundary(records[i]) /\ IsBoundary(records[j]) /\ SameBook(records[i], records[j]) => i = j

Stage ==
  [segment |-> 1, feature |-> 2, trade |-> 3, fill |-> 4, decision |-> 5,
   command |-> 6, risk |-> 7, ack |-> 8, cancel |-> 9]

-----------------------------------------------------------------------------
(* The preflight: what the records of an accepted configuration look like.     *)

IsMarketEvent(rec) == rec.kind = "market_event"

BoundaryMatched(records, i) ==
  /\ i < Len(records)
  /\ IsMarketEvent(records[i + 1]) /\ records[i + 1].type = "book_snapshot"
  /\ records[i + 1].ticker = records[i].ticker
  /\ records[i + 1].segment = records[i].segment

Preflight(records) ==
  /\ \A i \in DOMAIN records : records[i].kind # "discontinuity"
  /\ \A i, j \in DOMAIN records : i < j => records[i].time <= records[j].time
  /\ \A i \in DOMAIN records :
       IsBoundary(records[i]) => BoundaryMatched(records, i)

-----------------------------------------------------------------------------
(* The heap: the actions pushed and not popped yet.                            *)

Key(a) == <<a.time, a.causal, Stage[a.kind], a.ordinal>>

Precedes(j, k) ==
  \/ j[1] < k[1]
  \/ j[1] = k[1] /\ j[2] < k[2]
  \/ j[1] = k[1] /\ j[2] = k[2] /\ j[3] < k[3]
  \/ j[1] = k[1] /\ j[2] = k[2] /\ j[3] = k[3] /\ j[4] < k[4]

\* What heappop returns: no two keys are equal, for no two ordinals are.
Earliest(a) == \A b \in heap : b = a \/ Precedes(Key(a), Key(b))

\* An action knows its place among those pushed with it, and push turns the
\* place into an ordinal.
Action(kind, time, causal) ==
  [kind |-> kind, time |-> time, causal |-> causal, ordinal |-> 1,
   order |-> 0, side |-> "Buy", price |-> 0, quantity |-> 0,
   fraction |-> FALSE, reason |-> "none"]

\* push, for each of the actions in the order of their places.
Pushed(actions, from) == {[a EXCEPT !.ordinal = from + @] : a \in actions}

\* The actions pushed before the loop: a boundary at its own time, the rest
\* when the product's market data becomes visible.
Visible(i) == input[i].time + plan[input[i].ticker].marketData
Trades == {i \in DOMAIN input : IsMarketEvent(input[i]) /\ input[i].type = "trade"}
OfRecord(i) ==
  CASE IsBoundary(input[i]) -> {Action("segment", input[i].time, i)}
    [] i \in Trades ->
         {Action("feature", Visible(i), i), [Action("trade", Visible(i), i) EXCEPT !.ordinal = 2]}
    [] OTHER -> {Action("feature", Visible(i), i)}

PushedBefore(i) == i - 1 + Cardinality({j \in Trades : j < i})
Scheduled == UNION {Pushed(OfRecord(i), PushedBefore(i)) : i \in DOMAIN input}
Horizon == IF input = <<>> THEN 0 ELSE input[Len(input)].time

-----------------------------------------------------------------------------
Runtime == [segment |-> None, seen |-> FALSE, next |-> -1, pending |-> NoOrders, live |-> NoOrders, risk |-> Ready]

\* The artifacts that name an order.
Entry == [quantity |-> 0, admitted |-> FALSE, acks |-> 0, filled |-> 0, endings |-> 0, expires |-> 0, causal |-> 0]

Init ==
  /\ input \in Inputs
  /\ plan \in Plans
  /\ phase = "preflight"
  /\ heap = {} /\ pushed = 0 /\ nextId = 1
  /\ product = [t \in Tickers |-> Runtime]
  /\ last = <<-1, 0, 0, 0>>
  /\ ledger = [o \in OrderIds |-> Entry]
  /\ traded = [i \in DOMAIN input |-> 0]
  /\ disk = [output |-> "absent", telemetry |-> "absent"]
  /\ faulty = FALSE

\* The configuration is refused, before anything is written.
Refused ==
  /\ phase = "preflight" /\ ~Preflight(input)
  /\ phase' = "refused"
  /\ UNCHANGED <<runVars, heap, pushed, nextId, product, last, ledger, traded>>

Accepted ==
  /\ phase = "preflight" /\ Preflight(input)
  /\ phase' = "running"
  /\ heap' = Scheduled /\ pushed' = PushedBefore(Len(input) + 1)
  /\ disk' = [disk EXCEPT !.output = "partial"]
  /\ UNCHANGED <<input, plan, nextId, product, last, ledger, traded, faulty>>

\* What an action popped is about: the record that caused it, its product.
Row(a) == input[a.causal]
Market(a) == Row(a).ticker
Policy(a) == plan[Market(a)]
Mine(a) == product[Market(a)]

\* The action taken is of this kind.
Pop(a, kind) ==
  /\ a.kind = kind
  /\ last' = Key(a)
  /\ UNCHANGED <<input, plan, faulty>>

Push(a, actions) ==
  /\ heap' = (heap \ {a}) \union Pushed(actions, pushed)
  /\ pushed' = pushed + Cardinality(actions)

\* The product's new state; an oracle that raised ends the run, and the
\* handler removes what is partial.
Becomes(a, runtime) ==
  /\ product' = [product EXCEPT ![Market(a)] = runtime]
  /\ phase' = IF runtime.risk.error THEN "raised" ELSE phase
  /\ disk' = IF runtime.risk.error THEN [disk EXCEPT !.output = "absent"] ELSE disk

InSegment(a) == Row(a).segment = Mine(a).segment

\* The place of an order among those visited in the order of their numbers.
Place(o, ids) == Cardinality({p \in ids : p <= o})

-----------------------------------------------------------------------------
(* All of a product's orders end at once: at a new segment, and at the end.    *)

\* The oracle first rejects what is pending, then cancels what is live.
Emptied(runtime) ==
  [runtime EXCEPT !.pending = NoOrders, !.live = NoOrders,
     !.risk = Cancelled(Rejected(@, DOMAIN runtime.pending), DOMAIN runtime.live)]

Ended(book, ids) == [o \in OrderIds |-> IF o \in ids THEN [book[o] EXCEPT !.endings = @ + 1] ELSE book[o]]
Held(runtime) == DOMAIN runtime.pending \union DOMAIN runtime.live

Segment(a) ==
  LET changes == Mine(a).segment \notin {None, Row(a).segment}
  IN /\ Pop(a, "segment") /\ Push(a, {})
     /\ IF changes
          THEN Becomes(a, [Emptied(Mine(a)) EXCEPT !.segment = Row(a).segment, !.seen = FALSE, !.next = -1])
          ELSE Becomes(a, [Mine(a) EXCEPT !.segment = Row(a).segment])
     /\ ledger' = IF changes /\ Mine(a).seen THEN Ended(ledger, Held(Mine(a))) ELSE ledger
     /\ UNCHANGED <<nextId, traded>>

\* The action raises; what it had changed in memory goes with the run.
Fails(a) ==
  /\ Push(a, {})
  /\ phase' = "raised"
  /\ disk' = [disk EXCEPT !.output = "absent"]
  /\ UNCHANGED <<nextId, product, ledger, traded>>

\* A row or trade of another segment than the current one.
CrossesSegment(a) == (Pop(a, "feature") \/ Pop(a, "trade")) /\ ~InSegment(a) /\ Fails(a)

\* Every other action of an old segment is dropped.
StaleAction(a) ==
  /\ \E kind \in {"fill", "decision", "command", "risk", "ack", "cancel"} : Pop(a, kind)
  /\ ~InSegment(a)
  /\ Push(a, {})
  /\ UNCHANGED <<phase, disk, nextId, product, ledger, traded>>

Feature(a) ==
  LET decides == a.time >= Mine(a).next
  IN /\ Pop(a, "feature") /\ InSegment(a)
     /\ Push(a, IF decides THEN {Action("decision", a.time + Policy(a).decision, a.causal)} ELSE {})
     /\ Becomes(a, [Mine(a) EXCEPT !.seen = TRUE, !.next = IF decides THEN a.time + Policy(a).interval ELSE @])
     /\ UNCHANGED <<nextId, ledger, traded>>

\* The trade's quantity is handed to the eligible live orders in id order; the
\* fills arrive later.
Touches(order, price) ==
  IF order.side = "Buy" THEN price <= order.price ELSE price >= order.price

FillsWhole(live, price, quantity, fraction, time, causal) ==   \* mutant: each order sees the whole trade
  LET touched == {o \in DOMAIN live : Touches(live[o], price)}
  IN {[Action("fill", time, causal) EXCEPT !.ordinal = Place(o, touched),
         !.order = o, !.quantity = Smallest(live[o].remaining, quantity)] : o \in touched}

\* The contracts of the orders that are served before o.
Ahead(live, ids, o) ==
  {lot \in ids \X (1..Quantity) : lot[1] < o /\ lot[2] <= live[lot[1]].remaining}

\* Orders are whole, so a fraction is left to the last one served.
Fills(live, price, quantity, fraction, time, causal) ==
  LET touched == {o \in DOMAIN live : Touches(live[o], price)}
      left(o) == quantity - Cardinality(Ahead(live, touched, o))
      served == {o \in touched : left(o) > 0 \/ (fraction /\ left(o) = 0)}
  IN {[Action("fill", time, causal) EXCEPT !.ordinal = Place(o, served), !.order = o,
         !.quantity = Smallest(live[o].remaining, left(o)),
         !.fraction = fraction /\ left(o) < live[o].remaining] : o \in served}

Trade(a) ==
  /\ Pop(a, "trade") /\ InSegment(a)
  /\ Push(a, IF Policy(a).model = "trade_touch_v1"
            THEN Fills(Mine(a).live, Row(a).price, Row(a).quantity, Row(a).fraction,
                       a.time + Policy(a).fill, a.causal)
            ELSE {})
  /\ UNCHANGED <<phase, disk, nextId, product, ledger, traded>>

\* The order a fill is for: there still, and of the current segment.
Fillable(a) == a.order \in DOMAIN Mine(a).live /\ Mine(a).live[a.order].segment = Mine(a).segment

\* apply_fill takes whole contracts: a fraction that is not more than what the
\* order has left raises.
Fractional(a) == a.fraction /\ a.quantity < Mine(a).live[a.order].remaining
FractionalFill(a) == Pop(a, "fill") /\ InSegment(a) /\ Fillable(a) /\ Fractional(a) /\ Fails(a)

Fill(a) ==
  LET o == a.order
      q == Smallest(Mine(a).live[o].remaining, a.quantity)
      left == Mine(a).live[o].remaining - q
  IN /\ Pop(a, "fill") /\ InSegment(a) /\ Push(a, {})
     /\ ~(Fillable(a) /\ Fractional(a))
     /\ IF ~Fillable(a) \/ q <= 0
          THEN Becomes(a, Mine(a)) /\ UNCHANGED <<ledger, traded>>
        ELSE /\ Becomes(a, [Mine(a) EXCEPT !.risk = Filled(@, o, Mine(a).live[o].side, q),
                           !.live = IF left = 0 THEN Without(@, {o}) ELSE [@ EXCEPT ![o].remaining = left]])
             /\ ledger' = [ledger EXCEPT ![o].filled = @ + q]
             /\ traded' = [traded EXCEPT ![a.causal] = @ + q]
     /\ UNCHANGED nextId

\* A decision on a quotable row replaces the quotes: it cancels every order it
\* can see and sends two commands.
Quotable(rec, minimum) == rec.bid # 0 /\ rec.ask # 0 /\ rec.bid < rec.ask /\ rec.ask - rec.bid >= minimum

\* The pending orders come before the live ones.
DecisionActions(a) ==
  LET place(o) == IF o \in DOMAIN Mine(a).pending THEN Place(o, DOMAIN Mine(a).pending)
                  ELSE Cardinality(DOMAIN Mine(a).pending) + Place(o, DOMAIN Mine(a).live)
      cancel(o) == [Action("cancel", a.time + Policy(a).cancellation, a.causal) EXCEPT
                      !.ordinal = place(o), !.order = o, !.reason = "quote_replacement"]
      command(nth, side, price) ==
        [Action("command", a.time + Policy(a).order, a.causal) EXCEPT
           !.ordinal = Cardinality(Held(Mine(a))) + nth, !.side = side, !.price = price]
  IN IF Quotable(Row(a), Policy(a).spread)
       THEN {cancel(o) : o \in Held(Mine(a))} \union {command(1, "Buy", Row(a).bid), command(2, "Sell", Row(a).ask)}
     ELSE {}

Decision(a) ==
  /\ Pop(a, "decision") /\ InSegment(a)
  /\ Push(a, DecisionActions(a))
  /\ UNCHANGED <<phase, disk, nextId, product, ledger, traded>>

\* An order is a whole number of contracts at a whole number of cents.
Representable(a) == Policy(a).whole /\ a.price % Cent = 0
InexactCommand(a) == Pop(a, "command") /\ InSegment(a) /\ ~Representable(a) /\ Fails(a)

Command(a) ==
  /\ Pop(a, "command") /\ InSegment(a) /\ Representable(a) /\ nextId \in OrderIds
  /\ nextId' = nextId + 1
  /\ Push(a, {[Action("risk", a.time, a.causal) EXCEPT
              !.order = nextId, !.side = a.side, !.price = a.price, !.quantity = Quantity]})
  /\ ledger' = [ledger EXCEPT ![nextId].quantity = Quantity, ![nextId].causal = a.causal]
  /\ UNCHANGED <<phase, disk, product, traded>>

Order(a) ==
  [side |-> a.side, price |-> a.price, remaining |-> a.quantity, segment |-> Mine(a).segment, causal |-> a.causal]

Risk(a) ==
  LET approved == Approves(Mine(a).risk, a.order, a.side, a.quantity)
  IN /\ Pop(a, "risk") /\ InSegment(a)
     /\ IF approved
          THEN /\ Becomes(a, [Mine(a) EXCEPT !.risk = Approved(@, a.order, a.side, a.quantity),
                                       !.pending = With(@, a.order, Order(a))])
               /\ Push(a, {[Action("ack", a.time + Policy(a).acknowledgement, a.causal) EXCEPT !.order = a.order]})
               /\ ledger' = [ledger EXCEPT ![a.order].admitted = TRUE]
          ELSE Becomes(a, Mine(a)) /\ Push(a, {}) /\ UNCHANGED ledger
     /\ UNCHANGED <<nextId, traded>>

AckForgetsExpiry(a) ==   \* mutant: an acknowledged order is never told to expire
  LET o == a.order
  IN /\ Pop(a, "ack") /\ InSegment(a) /\ Push(a, {})
     /\ IF o \notin DOMAIN Mine(a).pending THEN Becomes(a, Mine(a)) /\ UNCHANGED ledger
        ELSE /\ Becomes(a, [Mine(a) EXCEPT !.pending = Without(@, {o}), !.live = With(@, o, Mine(a).pending[o]),
                           !.risk = Acknowledged(@, o, Mine(a).pending[o].side, Mine(a).pending[o].remaining)])
             /\ ledger' = [ledger EXCEPT ![o].acks = @ + 1, ![o].expires = a.time + Policy(a).lifetime]
     /\ UNCHANGED <<nextId, traded>>

\* The order a cancellation overtook is gone; one of an older segment cannot be
\* here, because its row is not in the segment, and the code's test is kept.
Ack(a) ==
  LET o == a.order
      expires == a.time + Policy(a).lifetime
      order == Mine(a).pending[o]
  IN /\ Pop(a, "ack") /\ InSegment(a)
     /\ CASE o \notin DOMAIN Mine(a).pending -> Becomes(a, Mine(a)) /\ Push(a, {}) /\ UNCHANGED ledger
          [] o \in DOMAIN Mine(a).pending /\ order.segment # Mine(a).segment ->
               /\ Becomes(a, [Mine(a) EXCEPT !.pending = Without(@, {o}), !.risk = Rejected(@, {o})])
               /\ Push(a, {})
               /\ ledger' = Ended(ledger, {o})
          [] OTHER ->
               /\ Becomes(a, [Mine(a) EXCEPT !.pending = Without(@, {o}), !.live = With(@, o, order),
                             !.risk = Acknowledged(@, o, order.side, order.remaining)])
               /\ Push(a, {[Action("cancel", expires, a.causal) EXCEPT
                           !.order = o, !.reason = "logical_expiry"]})
               /\ ledger' = [ledger EXCEPT ![o].acks = @ + 1, ![o].expires = expires]
     /\ UNCHANGED <<nextId, traded>>

Cancel(a) ==
  LET o == a.order
  IN /\ Pop(a, "cancel") /\ InSegment(a) /\ Push(a, {})
     /\ CASE o \in DOMAIN Mine(a).pending ->
               Becomes(a, [Mine(a) EXCEPT !.pending = Without(@, {o}), !.risk = Rejected(@, {o})])
          [] o \in DOMAIN Mine(a).live ->
               Becomes(a, [Mine(a) EXCEPT !.live = Without(@, {o}), !.risk = Cancelled(@, {o})])
          [] OTHER -> Becomes(a, Mine(a))
     /\ ledger' = IF o \in Held(Mine(a)) THEN Ended(ledger, {o}) ELSE ledger
     /\ UNCHANGED <<nextId, traded>>

-----------------------------------------------------------------------------
(* The end of the loop and the publication.                                    *)

AtHorizonEmpty == phase = "running" /\ heap = {}   \* mutant: actions after the horizon are waited for

\* The loop stops at an action after the horizon, or when none is left.
NothingLeft == \A a \in heap : a.time > Horizon
AtHorizon == phase = "running" /\ NothingLeft

\* Every product's last row is looked for before any order ends; one without a
\* row raises.
HasRow(t) == \E i \in DOMAIN input : IsMarketEvent(input[i]) /\ input[i].ticker = t
MissingRow ==
  /\ AtHorizon /\ \E t \in Tickers : ~HasRow(t)
  /\ phase' = "raised"
  /\ disk' = [disk EXCEPT !.output = "absent"]
  /\ UNCHANGED <<input, plan, faulty, heap, pushed, nextId, product, last, ledger, traded>>

\* Every product's orders end, at the horizon.
Terminal ==
  /\ AtHorizon /\ \A t \in Tickers : HasRow(t)
  /\ product' = [t \in Tickers |-> Emptied(product[t])]
  /\ ledger' = Ended(ledger, UNION {Held(product[t]) : t \in Tickers})
  /\ phase' = IF \E t \in Tickers : Emptied(product[t]).risk.error THEN "raised" ELSE "writing"
  /\ disk' = IF phase' = "raised" THEN [disk EXCEPT !.output = "absent"] ELSE disk
  /\ UNCHANGED <<input, plan, faulty, heap, pushed, nextId, last, traded>>

\* The artifacts and the manifest, the telemetry, and the two renames.
Write == phase = "writing" /\ phase' = "output" /\ disk' = [disk EXCEPT !.telemetry = "partial"]
PublishOutput == phase = "output" /\ phase' = "telemetry" /\ disk' = [disk EXCEPT !.output = "final"]
PublishTelemetry == phase = "telemetry" /\ phase' = "closing" /\ disk' = [disk EXCEPT !.telemetry = "final"]
CloseOracles == phase = "closing" /\ phase' = "done" /\ UNCHANGED disk

Publish ==
  /\ Write \/ PublishOutput \/ PublishTelemetry \/ CloseOracles
  /\ UNCHANGED <<input, plan, faulty, heap, pushed, nextId, product, last, ledger, traded>>

RemovedOutput ==   \* mutant: the temporary telemetry is forgotten
  [disk EXCEPT !.output = IF disk.output = "final" THEN "final" ELSE "absent"]

\* What the exception handler leaves: no temporary directory, no temporary
\* telemetry.  What was renamed stays.
Removed ==
  [output |-> IF disk.output = "final" THEN "final" ELSE "absent",
   telemetry |-> IF disk.telemetry = "final" THEN "final" ELSE "absent"]

\* An oracle dies, the disk is full, the operator interrupts, a derived time
\* passes 2^63 ns.
Raise ==
  /\ phase \in {"running", "writing", "output", "telemetry", "closing"}
  /\ phase' = "raised" /\ faulty' = TRUE
  /\ disk' = Removed
  /\ UNCHANGED <<input, plan, heap, pushed, nextId, product, last, ledger, traded>>

\* One round of the loop.
Round(a) ==
  /\ phase = "running" /\ Earliest(a) /\ a.time <= Horizon
  /\ \/ Segment(a) \/ CrossesSegment(a) \/ StaleAction(a)
     \/ Feature(a) \/ Trade(a) \/ FractionalFill(a) \/ Fill(a) \/ Decision(a)
     \/ InexactCommand(a) \/ Command(a) \/ Risk(a) \/ Ack(a) \/ Cancel(a)

Step == Refused \/ Accepted \/ (\E a \in heap : Round(a)) \/ MissingRow \/ Terminal \/ Publish

Finished == phase \in {"refused", "raised", "done"} /\ UNCHANGED vars

Next == Step \/ Raise \/ Finished

Spec == Init /\ [][Next]_vars /\ WF_vars(Step)

-----------------------------------------------------------------------------
(* Properties.                                                                 *)

OrderRecord == [side : {"Buy", "Sell"}, price : Nat, remaining : Nat \ {0}, causal : Nat]

\* The counters and maps hold what the code's dataclasses declare; what is
\* scheduled names a record of the input and an order that was submitted.
TypeOK ==
  /\ phase \in {"preflight", "refused", "running", "writing", "output", "telemetry", "closing", "done", "raised"}
  /\ nextId \in 1..(MaxOrders + 1)
  /\ \A a \in heap : a.causal \in DOMAIN input /\ a.time >= 0 /\ a.order < nextId /\ a.ordinal \in 1..pushed
  /\ \A t \in Tickers : \A o \in Held(product[t]) : o < nextId
  /\ disk \in [output : {"absent", "partial", "final"}, telemetry : {"absent", "partial", "final"}]

\* The coordinator and the oracle of a product hold the same orders, reserved
\* or live, with the same side and remaining quantity, and the bridge waits
\* for exactly the pending ones; so no call of the coordinator is answered by
\* an error.  (The oracle is asked before, told after, or told twice by five
\* different handlers.)
OraclesAgree ==
  \A t \in Tickers :
    LET run == product[t]
        same(f, g) == /\ DOMAIN f = DOMAIN g
                      /\ \A o \in DOMAIN f : f[o].side = g[o].side /\ f[o].remaining = g[o].quantity
    IN /\ ~run.risk.error
       /\ same(run.pending, run.risk.pending)
       /\ same(run.live, run.risk.live)
       /\ run.risk.clients = DOMAIN run.pending

\* Every approved order ends exactly once in the artifacts: filled whole, or
\* cancelled or rejected once, whichever of the replacement, the expiry, the
\* new segment, the horizon and the fills comes first; an order that was never
\* approved appears in none of them.
EveryOrderEndsOnce ==
  \A o \in 1..(nextId - 1) :
    LET held == \E t \in Tickers : o \in Held(product[t])
        whole == ledger[o].filled = ledger[o].quantity
    IN IF ledger[o].admitted
         THEN /\ ledger[o].endings + (IF held THEN 1 ELSE 0) + (IF whole THEN 1 ELSE 0) = 1
              /\ ledger[o].filled <= ledger[o].quantity
       ELSE ~held /\ ledger[o].acks = 0 /\ ledger[o].filled = 0 /\ ledger[o].endings = 0

\* A trade fills no more than it traded, whatever its fills find on arrival.
TradesAreNotOverspent == \A i \in DOMAIN input : traded[i] <= input[i].quantity

\* "A public trade reaches the fill model only after it is visible and can fill
\* only an already acknowledged order": a fill names a later record than the
\* order's own, a trade seen once the order was acknowledged, and comes before
\* the order's expiry.
FillsAreCausal ==
  [][\A o \in OrderIds :
       (ledger'[o].filled > ledger[o].filled) =>
         LET trade == last'[2]
             lifetime == plan[input[trade].ticker].lifetime
         IN /\ trade > ledger[o].causal
            /\ ledger[o].acks = 1 /\ ledger[o].endings = 0
            /\ Visible(trade) >= ledger[o].expires - lifetime
            /\ last'[1] < ledger[o].expires]_vars

\* Actions are taken in the order of their keys: nothing is ever scheduled
\* before the action that schedules it.
PopsInOrder == [][last' # last => Precedes(last, last')]_vars

\* A final output is the output of a whole run, with every order ended, even
\* when the command failed after the rename; a failure leaves nothing partial.
PublishedIsWhole ==
  /\ (disk.output = "final") =>
       /\ NothingLeft
       /\ \A t \in Tickers : Held(product[t]) = {}
  /\ (phase = "raised") => disk.output # "partial" /\ disk.telemetry # "partial"

Segments(t) == {input[i].segment : i \in {j \in DOMAIN input : input[j].ticker = t}}

\* A quote some product's policy would send that is not exactly an order.
InexactQuote(rec, policy) ==
  /\ IsMarketEvent(rec) /\ Quotable(rec, policy.spread)
  /\ ~policy.whole \/ rec.bid % Cent # 0 \/ rec.ask % Cent # 0

\* A trade the fill model may hand out a fraction of a contract of.
FractionalTrade(i) == i \in Trades /\ plan[input[i].ticker].model = "trade_touch_v1" /\ input[i].fraction

\* The inputs of an accepted configuration that can make a run raise by itself:
\* a second segment of a product, which a complete normalization does not have,
\* a product without a row, a quote that is no whole number of contracts and
\* cents, a trade of a fraction of a contract.
MayRaise ==
  \/ \E t \in Tickers : Cardinality(Segments(t)) > 1 \/ ~HasRow(t)
  \/ \E i \in DOMAIN input : InexactQuote(input[i], plan[input[i].ticker]) \/ FractionalTrade(i)

RaisesForItsInput == (phase = "raised" /\ ~faulty) => MayRaise

\* Orders and trades as one invariant: nothing is ended twice, lost or overspent.
OrdersAreAccounted == TypeOK /\ EveryOrderEndsOnce /\ TradesAreNotOverspent

\* What the command leaves behind, and when it may fail by itself.
OutcomeIsRight == PublishedIsWhole /\ RaisesForItsInput

\* The event loop never goes back in time, and neither do fills.
ActionsAreCausal == PopsInOrder /\ FillsAreCausal

\* However the latencies feed the heap, the run ends: published, refused or
\* raised.
RunEnds == <>(phase \in {"refused", "raised", "done"})
=============================================================================
