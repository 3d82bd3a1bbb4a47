------------------------------ MODULE Exchange ------------------------------
(***************************************************************************)
(* Command processing of ExchangeSimulator                                 *)
(* (src/cpp/src/sim/exchange_simulator.cpp), over OrderBook.               *)
(*                                                                         *)
(* One market.  A command is processed to the end: it is rejected, or it   *)
(* changes the book and emits its events; the order in which commands are  *)
(* taken from the queue is DurableExchange's subject.  Events are counted, *)
(* since their sequence numbers must not run out half way through a        *)
(* command; of their contents only the depth changes are kept, which the   *)
(* strategies' Projection replays into a view of the book.                 *)
(* A command for which a number would run out fails: no step.              *)
(***************************************************************************)
EXTENDS OrderBook

CONSTANT EventCapacity   \* event sequence numbers run out after this one

VARIABLES
  status,      \* MarketRuntime::status
  nextOrder,   \* next_order_id_
  nextEvent,   \* next_event_sequence_ of the sequencer
  view         \* levels of the Projection that applies every BookDepthChanged

market == <<status, nextOrder, nextEvent, view>>
exchangeVars == <<vars, market>>

ASSUME ExchangeAssumption ==
  Orders \subseteq Nat \ {0} /\ IsFiniteSet(Orders) /\ EventCapacity \in Nat

Statuses == {"Open", "Halted", "Closed", "Settled"}

\* SubmitOrderRequest; valid stands for what Order::create checks.
SubmitOrderRequest ==
  [trader : Traders, side : Sides, price : Prices \union {NoPrice}, quantity : Quantities,
   post_only : BOOLEAN, valid : BOOLEAN]

-----------------------------------------------------------------------------
(***************************************************************************)
(* Events.                                                                 *)
(***************************************************************************)
\* full_snapshot: <<side, price, total, count>> of the nonempty levels.
Displayed(lad) ==
  UNION {{<<s, l[1], l[2], l[3]>> : l \in Snapshot(lad)[s]} : s \in Sides}

SameLevel(l, m) == l[1] = m[1] /\ l[2] = m[2]

DepthDeltaAddsOnly(before, after) == after \ before   \* mutant: vanished levels are not reported

DepthDelta(before, after) ==
  (after \ before)
    \union {<<l[1], l[2], 0, 0>> : l \in {m \in before : \A n \in after : ~SameLevel(m, n)}}

\* Projection::apply
Applied(levs, delta) ==
  {l \in levs : \A d \in delta : ~SameLevel(l, d)} \union {d \in delta : d[3] # 0}

HasCapacity(count) == nextEvent + count <= EventCapacity + 1

\* count events beside the depth change, and the depth change if there is one.
Emit(count) ==
  LET delta == DepthDelta(Displayed(levels), Displayed(levels'))
  IN /\ nextEvent' = nextEvent + count + (IF delta = {} THEN 0 ELSE 1)
     /\ view' = Applied(view, delta)

\* append_rejection
Reject == UNCHANGED <<vars, status, nextOrder>> /\ Emit(1)

-----------------------------------------------------------------------------
(***************************************************************************)
(* process_submit.                                                         *)
(***************************************************************************)
OrderOf(r) ==
  [id |-> nextOrder, trader |-> r.trader, side |-> r.side, price |-> r.price, quantity |-> r.quantity]

\* The post-only order would take from the best displayed level.
WouldTake(r) ==
  LET displayed == Occupied(Opposite(r.side))
  IN \E best \in displayed :
       /\ \A p \in displayed : ~Better(Opposite(r.side), p, best)
       /\ Crosses(OrderOf(r), best)

InvalidIgnoresPostOnly(r) == ~r.valid   \* mutant: post_only is not looked at

\* Rejected before the book is asked.
Invalid(r) == ~r.valid \/ (r.post_only /\ (~IsLimit(r) \/ WouldTake(r)))

TakesOrders == status = "Open"

\* The capacity asked for on the preview's word: an acknowledgement, the
\* executions, the outcome and the depth change.
PlannedEvents(r) ==
  LET preview == Preview(OrderOf(r))
  IN 2 + preview.execution_count + (IF preview.changes_displayed_depth THEN 1 ELSE 0)

Accept(r) ==
  /\ Submit(OrderOf(r))
  /\ nextOrder' = nextOrder + 1
  /\ UNCHANGED status
  /\ Emit(2 + nextTrade' - nextTrade)

\* Without a number to give, or without room for the planned events, the
\* command fails.  An error of the book gives the reserved numbers back.
ProcessSubmit(r) ==
  /\ HasCapacity(1)
  /\ \/ ~TakesOrders /\ Reject
     \/ /\ TakesOrders /\ nextOrder \in Orders
        /\ \/ Invalid(r) /\ Reject
           \/ /\ ~Invalid(r)
              /\ HasCapacity(PlannedEvents(r))
              /\ Accept(r) \/ (~SubmitAccepted(OrderOf(r)) /\ Reject)

-----------------------------------------------------------------------------
(***************************************************************************)
(* process_cancel and process_lifecycle.                                   *)
(***************************************************************************)
OwnsLive(trader, o) == o \in DOMAIN live /\ live[o].trader = trader

ProcessCancel(trader, o) ==
  /\ HasCapacity(1)
  /\ \/ (status = "Settled" \/ ~OwnsLive(trader, o)) /\ Reject
     \/ /\ status # "Settled" /\ OwnsLive(trader, o)
        /\ HasCapacity(2)
        /\ Cancel(o)
        /\ Emit(1)
        /\ UNCHANGED <<status, nextOrder>>

ValidTransition(from, to) ==
  <<from, to>> \in {<<"Open", "Halted">>, <<"Open", "Closed">>, <<"Halted", "Open">>,
                    <<"Halted", "Closed">>, <<"Closed", "Settled">>}

\* The resting orders cancelled one by one, in priority order.
CancelAll ==
  LET resting == ByPriority
      after[k \in 0..Len(resting)] == IF k = 0 THEN Book ELSE Unlink(after[k - 1], resting[k])
  IN after[Len(resting)]

CloseBook ==
  LET resting == Cardinality(DOMAIN live)
  IN /\ HasCapacity(1 + resting + (IF resting = 0 THEN 0 ELSE 1))
     /\ live' = CancelAll.live
     /\ levels' = CancelAll.levels
     /\ Emit(1 + resting)

ProcessLifecycle(target) ==
  /\ HasCapacity(1)
  /\ \/ ~ValidTransition(status, target) /\ Reject
     \/ /\ ValidTransition(status, target)
        /\ status' = target
        /\ UNCHANGED <<nextPriority, nextTrade, nextOrder>>
        /\ IF target = "Closed" THEN CloseBook
           ELSE UNCHANGED <<live, levels>> /\ Emit(1)

-----------------------------------------------------------------------------
ExchangeInit ==
  /\ Init
  /\ status = "Open"
  /\ nextOrder = 1
  /\ nextEvent = 1
  /\ view = {}

ExchangeNext ==
  \/ \E r \in SubmitOrderRequest : ProcessSubmit(r)
  \/ \E t \in Traders, o \in Orders : ProcessCancel(t, o)
  \/ \E target \in Statuses : ProcessLifecycle(target)

ExchangeSpec == ExchangeInit /\ [][ExchangeNext]_exchangeVars

-----------------------------------------------------------------------------
(***************************************************************************)
(* Properties.                                                             *)
(***************************************************************************)
\* The market's counters and status are well-formed, and no event ever took a
\* number that does not exist: every handler reserved what it then emitted.
EventsWithinCapacity ==
  /\ status \in Statuses
  /\ nextEvent \in 1..(EventCapacity + 1)
  /\ nextOrder \in 1..(Cardinality(Orders) + 1)

\* A strategy that applies every depth event sees the displayed book, through
\* executions, cancellations and the closing of the market.
ViewIsBook == view = Displayed(levels)

\* Nothing rests in a market that is closed or settled.
ClosedMarketsAreEmpty == status \in {"Closed", "Settled"} => live = NoBook.live

\* Identifiers are handed out once: a new order never takes the number of an
\* order that was acknowledged before, live or gone.
FreshOrderIds ==
  [][\A o \in DOMAIN live' \ DOMAIN live : o >= nextOrder /\ nextOrder' > o]_exchangeVars

\* In a halted market nothing trades and nothing joins the book, in whatever
\* order halting, resuming and closing come: orders only leave, unexecuted.
OrdersMoveOnlyWhileOpen ==
  [][status # "Open" =>
       /\ DOMAIN live' \subseteq DOMAIN live
       /\ nextTrade' = nextTrade
       /\ \A o \in DOMAIN live' : live'[o] = live[o]]_exchangeVars

\* A post-only order never executes on entry: the test against the displayed
\* top of the book agrees with the matching that follows it.
PostOnlyNeverTakes ==
  [][nextTrade' # nextTrade =>
       \A r \in SubmitOrderRequest : r.post_only => ~ProcessSubmit(r)]_exchangeVars

\* The market's bookkeeping as one invariant: numbers within their range, the
\* strategies' view exact, a closed market empty.
MarketConsistent == EventsWithinCapacity /\ ViewIsBook /\ ClosedMarketsAreEmpty

\* What no command may do, whichever state the market is in.
MarketRules == FreshOrderIds /\ OrdersMoveOnlyWhileOpen /\ PostOnlyNeverTakes

=============================================================================
