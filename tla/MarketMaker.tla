---------------------------- MODULE MarketMaker ----------------------------
(***************************************************************************)
(* The market making coordinator                                           *)
(* (src/cpp/src/market_maker/market_maker.cpp), over Exchange and          *)
(* AccountRisk.                                                            *)
(*                                                                         *)
(* run_until alternates three phases: the exchange executes the commands   *)
(* that are due, the coordinator consumes the events they emitted, and at  *)
(* decision times it cancels and admits quotes.  The program is single-    *)
(* threaded: phase is its program counter, and other traders' commands and *)
(* the kill switch come in only between two calls of run_until.            *)
(*                                                                         *)
(* Prices are ticks of the contract's grid.  The coordinator's Projection  *)
(* is Exchange's view: it is read only when every event has been consumed. *)
(* The instance has enough identifiers and sequence numbers for a run: the *)
(* failures of Exchange's handlers when they run out are not repeated here.*)
(***************************************************************************)
EXTENDS Exchange

CONSTANTS
  Maker,             \* the trader bound to the account
  MaxTick,
  QuoteQuantity, Reference, BidOffset, AskOffset, MaxSkew, MaxAge, Interval,   \* MarketMakerConfig
  Sources,           \* reference price sources
  External,          \* the commands other callers enqueue
  MaxExternal,       \* bound of the model: external commands in a behaviour
  MaxQueued,         \* bound of the model: external commands enqueued ahead
  Horizon,           \* bound of the model on time
  MaxOrderQty, MaxPosition, MaxBuyExposure, MaxSellExposure, MaxPending, MaxActive   \* RiskLimits

\* validate_config, and what AccountRiskProjection::create asks of its limits
ASSUME MakerAssumption ==
  /\ Maker \in Traders /\ Prices = 0..MaxTick /\ Reference \in Prices
  /\ QuoteQuantity \in Quantities /\ {MaxAge, Interval} \subseteq Nat \ {0}
  /\ {BidOffset, AskOffset, MaxSkew, MaxTick, MaxExternal, MaxQueued, Horizon} \subseteq Nat
  /\ BidOffset + AskOffset > 0
  /\ Sources \subseteq {"Configured", "LastTrade", "Midpoint"}
  /\ {MaxOrderQty, MaxPosition, MaxBuyExposure, MaxSellExposure, MaxPending, MaxActive}
       \subseteq Nat \ {0}

VARIABLES
  queue,        \* pending_commands_ of the exchange
  clock,        \* its current_time_, 0 before the first command
  nextIngress,  \* its next_ingress_sequence_
  events,       \* its events after event_watermark_
  phase,        \* where run_until is: "idle", "run", or a step of run_decision
  until,        \* inclusive_time, 0 between calls
  decideAt,     \* next_decision_at_
  nextIntent,   \* next_client_intent_value_
  lastTrade,    \* last_trade_price of the projection
  source,       \* config_.reference_price_source
  watermark, position, kill, riskLive, riskPending,   \* risk_
  quoted,       \* price and acknowledgement time of the maker's acknowledged orders
  traded,       \* what the maker bought minus what it sold, as the exchange executed it
  outside,      \* how many external commands have been enqueued
  refusals,     \* how many commands of the maker the exchange rejected while open
  withdrawn     \* a decision has been taken since the kill switch is on

schedule == <<queue, clock, nextIngress>>
account == <<watermark, position, kill, riskLive, riskPending>>
observed == <<traded, refusals, outside>>
control == <<phase, until, decideAt, nextIntent, source, withdrawn>>
makerVars == <<exchangeVars, schedule, events, lastTrade, quoted, account, observed, control>>

Risk == INSTANCE AccountRisk WITH
  Intents <- 1..(2 * (Horizon + 1)), Ingress <- Nat \ {0}, NoIngress <- 0,
  PostOnlyChoices <- {TRUE}, Documents <- {}, MaxWatermark <- EventCapacity, Quantities <- Nat,
  net <- position, live <- riskLive, pending <- riskPending

-----------------------------------------------------------------------------
(***************************************************************************)
(* Commands and the queue.                                                 *)
(***************************************************************************)
Submission(r) == [kind |-> "submit", request |-> r]
Cancellation(trader, o) == [kind |-> "cancel", trader |-> trader, order |-> o]
Lifecycle(target) == [kind |-> "lifecycle", target |-> target]

Stamped(commands, at) ==
  [k \in DOMAIN commands |-> [at |-> at, ingress |-> nextIngress + k - 1, command |-> commands[k]]]

\* enqueue, of several commands in turn: the queue is sorted by time and then
\* by ingress number, and a new command has the largest.
Enqueue(commands, at) ==
  LET place == Cardinality({k \in DOMAIN queue : queue[k].at <= at})
  IN /\ queue' = SubSeq(queue, 1, place) \o Stamped(commands, at) \o SubSeq(queue, place + 1, Len(queue))
     /\ nextIngress' = nextIngress + Len(commands)

ByMaker(c) ==
  \/ c.kind = "submit" /\ c.request.trader = Maker
  \/ c.kind = "cancel" /\ c.trader = Maker

MakerSubmission(c) == c.kind = "submit" /\ c.request.trader = Maker

\* The other callers are other traders and the market's operator.
ASSUME ExternalAssumption ==
  \A c \in External :
    \/ \E r \in SubmitOrderRequest : r.trader # Maker /\ c = Submission(r)
    \/ \E t \in Traders \ {Maker}, o \in Orders : c = Cancellation(t, o)
    \/ \E target \in Statuses : c = Lifecycle(target)

-----------------------------------------------------------------------------
(***************************************************************************)
(* The events a command emits: what the account risk projection reads.     *)
(***************************************************************************)
Other == [kind |-> "other"]
Rejected(s) == [kind |-> "rejected", ingress |-> s.ingress]
Cancelled(o) == [kind |-> "cancelled", order |-> o]

DepthEvent == IF DepthDelta(Displayed(levels), Displayed(levels')) = {} THEN <<>> ELSE <<Other>>

\* An execution, from the maker's side of it; order 0 when it has none.
Executed(in, match) ==
  LET resting == live[match.order]
      side == IF in.trader = Maker THEN in.side ELSE resting.side
  IN [kind |-> "executed", side |-> side, quantity |-> match.quantity, price |-> resting.price,
      order |-> IF in.trader = Maker THEN in.id ELSE IF resting.trader = Maker THEN match.order ELSE 0]

SubmitEvents(s) ==
  LET in == OrderOf(s.command.request)
      matches == PlanMatches(in).matches
  IN IF nextOrder' = nextOrder THEN <<Rejected(s)>>
     ELSE <<[kind |-> "acknowledged", order |-> in, ingress |-> s.ingress, at |-> s.at]>>
            \o [k \in DOMAIN matches |-> Executed(in, matches[k])]
            \o <<[kind |-> "outcome", order |-> in.id, remaining |-> Outcome(in).remaining]>>
            \o DepthEvent

CancelEvents(s) ==
  IF live' = live THEN <<Rejected(s)>> ELSE <<Cancelled(s.command.order)>> \o DepthEvent

LifecycleEvents(s) ==
  IF status' = status THEN <<Rejected(s)>>
  ELSE <<Other>>
         \o (IF status' = "Closed"
             THEN LET resting == ByPriority IN [k \in DOMAIN resting |-> Cancelled(resting[k])] ELSE <<>>)
         \o DepthEvent

Signed(side, quantity) == IF side = "Buy" THEN quantity ELSE -quantity

\* The executions of the maker's orders among the first n events of a batch.
Fills(batch, n, side) ==
  {k \in 1..n : batch[k].kind = "executed" /\ batch[k].order # 0 /\ batch[k].side = side}
Volume(batch, n, side) == Units([k \in Fills(batch, n, side) |-> batch[k].quantity])
MakerTraded(batch) == Volume(batch, Len(batch), "Buy") - Volume(batch, Len(batch), "Sell")

\* What the batch of s tells an observer of the exchange.
Observed(s) ==
  LET batch == SubSeq(events', Len(events) + 1, Len(events'))
  IN /\ traded' = traded + MakerTraded(batch)
     /\ refusals' = refusals + (IF ByMaker(s.command) /\ status = "Open" /\ batch = <<Rejected(s)>>
                                THEN 1 ELSE 0)

\* process
Process(s) ==
  \/ /\ s.command.kind = "submit"
     /\ ProcessSubmit(s.command.request)
     /\ events' = events \o SubmitEvents(s)
  \/ /\ s.command.kind = "cancel"
     /\ ProcessCancel(s.command.trader, s.command.order)
     /\ events' = events \o CancelEvents(s)
  \/ /\ s.command.kind = "lifecycle"
     /\ ProcessLifecycle(s.command.target)
     /\ events' = events \o LifecycleEvents(s)

-----------------------------------------------------------------------------
(***************************************************************************)
(* consume_events.                                                         *)
(***************************************************************************)
Sequence == nextEvent - Len(events)   \* of the first event that is not consumed

\* A market order's acknowledgement, whoever sent it, is an error.
ApplyAcknowledged(e) ==
  /\ IsLimit(e.order)
  /\ IF e.order.trader # Maker THEN Risk!ApplyOther(Sequence)
     ELSE Risk!ApplyAcknowledged(Sequence, e.order.id, e.ingress, e.order.side, e.order.quantity)

ApplyExecuted(e) ==
  IF e.order = 0 THEN Risk!ApplyOther(Sequence)
  ELSE Risk!ApplyFill(Sequence, e.order, e.side, e.quantity)

ApplyIgnoringCancellations(e) ==   \* mutant: a cancellation's order stays in the account
  \/ e.kind = "acknowledged" /\ ApplyAcknowledged(e)
  \/ e.kind = "executed" /\ ApplyExecuted(e)
  \/ e.kind = "outcome" /\ Risk!ApplyOutcome(Sequence, e.order, e.remaining)
  \/ e.kind = "rejected" /\ Risk!ApplyRejected(Sequence, e.ingress)
  \/ e.kind \in {"cancelled", "other"} /\ Risk!ApplyOther(Sequence)

Apply(e) ==
  \/ e.kind = "acknowledged" /\ ApplyAcknowledged(e)
  \/ e.kind = "executed" /\ ApplyExecuted(e)
  \/ e.kind = "outcome" /\ Risk!ApplyOutcome(Sequence, e.order, e.remaining)
  \/ e.kind = "rejected" /\ Risk!ApplyRejected(Sequence, e.ingress)
  \/ e.kind = "cancelled" /\ Risk!ApplyCancellation(Sequence, e.order)
  \/ e.kind = "other" /\ Risk!ApplyOther(Sequence)

\* The events that Apply takes.
Accepts(e) ==
  /\ Sequence = watermark + 1
  /\ e.kind = "acknowledged" =>
       /\ IsLimit(e.order)
       /\ e.order.trader = Maker =>
            \E i \in DOMAIN riskPending :
              Risk!Answers(i, e.order.id, e.ingress, e.order.side, e.order.quantity)
  /\ e.kind = "executed" => e.order = 0 \/ Risk!FillAcceptable(e.order, e.side, e.quantity)
  /\ e.kind = "outcome" => Risk!OutcomeAcceptable(e.order, e.remaining)

\* Price and acknowledgement time, which LiveRiskOrder holds and AccountRisk
\* leaves out.
Quotes(e) ==
  [o \in DOMAIN riskLive' |->
     IF o \in DOMAIN quoted THEN quoted[o] ELSE [price |-> e.order.price, at |-> e.at]]

LastTrade(e) == IF e.kind = "executed" THEN e.price ELSE lastTrade

-----------------------------------------------------------------------------
(***************************************************************************)
(* desired_quotes.                                                         *)
(***************************************************************************)
Best(side) ==
  LET ticks == {l[2] : l \in {m \in view : m[1] = side}}
  IN IF ticks = {} THEN NoPrice ELSE IF side = "Buy" THEN Max(ticks) ELSE Min(ticks)

ReferencePrice ==
  CASE source = "Configured" -> Reference
    [] source = "LastTrade"  -> lastTrade
    [] source = "Midpoint"   -> IF NoPrice \in {Best("Buy"), Best("Sell")} THEN NoPrice
                                ELSE Best("Buy") + (Best("Sell") - Best("Buy")) \div 2

Clamp(tick) == Max({0, Min({MaxTick, tick})})

\* The reference moved against the inventory.
Center ==
  Clamp(ReferencePrice - Signed(IF position > 0 THEN "Buy" ELSE "Sell",
                                ((IF position > 0 THEN position ELSE -position) * MaxSkew) \div MaxPosition))

NoQuotes == [side \in Sides |-> NoPrice]

Pair(bid, ask) ==
  IF bid < 0 \/ ask > MaxTick \/ bid >= ask THEN NoQuotes
  ELSE [side \in Sides |-> IF side = "Buy" THEN bid ELSE ask]

QuotesUnclamped ==   \* mutant: the displayed book is not looked at
  IF kill \/ ReferencePrice = NoPrice THEN NoQuotes
  ELSE Pair(Clamp(Center - BidOffset), Clamp(Center + AskOffset))

\* Offsets from the center, each moved behind the best displayed level of the
\* other side, whoever quotes it; no quotes when that leaves the grid or
\* crosses them, or under the kill switch (run_decision).
DesiredQuotes ==
  IF kill \/ ReferencePrice = NoPrice THEN NoQuotes
  ELSE LET bid == Clamp(Center - BidOffset)
           ask == Clamp(Center + AskOffset)
           behindAsk == IF Best("Sell") = NoPrice THEN bid ELSE Min({bid, Best("Sell") - 1})
           behindBid == IF Best("Buy") = NoPrice THEN ask ELSE Max({ask, Best("Buy") + 1})
       IN Pair(behindAsk, behindBid)

-----------------------------------------------------------------------------
(***************************************************************************)
(* run_until: the exchange runs up to the next decision or the end, then   *)
(* every event is consumed, then the decision is taken.                    *)
(***************************************************************************)
\* exchange_.run_until has a command to execute.
Due == queue # <<>> /\ Head(queue).at <= Min({decideAt, until})

RunExchange ==
  /\ phase = "run" /\ Due
  /\ Process(Head(queue))
  /\ Observed(Head(queue))
  /\ queue' = Tail(queue)
  /\ clock' = Head(queue).at
  /\ UNCHANGED <<nextIngress, lastTrade, quoted, account, outside, control>>

Consume ==
  /\ phase = "run" /\ ~Due /\ events # <<>>
  /\ Apply(Head(events))
  /\ events' = Tail(events)
  /\ lastTrade' = LastTrade(Head(events))
  /\ quoted' = Quotes(Head(events))
  /\ UNCHANGED <<exchangeVars, schedule, observed, control>>

\* The projection of the account refuses the event: run_until returns the error
\* and the event stays the next one to consume.
ConsumeFails ==
  /\ phase = "run" /\ ~Due /\ events # <<>>
  /\ ~Accepts(Head(events))
  /\ lastTrade' = LastTrade(Head(events))
  /\ phase' = "idle" /\ until' = 0
  /\ UNCHANGED <<exchangeVars, schedule, events, quoted, account, observed,
                 decideAt, nextIntent, source, withdrawn>>

-----------------------------------------------------------------------------
(***************************************************************************)
(* run_decision: cancellations first, then each side's admission.          *)
(***************************************************************************)
\* A live quote that stays: at the desired price, whole, and young.
Kept(o) ==
  /\ quoted[o].price = DesiredQuotes[riskLive[o].side]
  /\ riskLive[o].quantity = QuoteQuantity
  /\ decideAt - quoted[o].at < MaxAge

HasMatching(side) == \E o \in DOMAIN riskLive : riskLive[o].side = side /\ Kept(o)

CancelledWhenReplaced ==   \* mutant: a quote is cancelled only when another replaces it
  {o \in DOMAIN riskLive : ~Kept(o) /\ DesiredQuotes[riskLive[o].side] # NoPrice}

\* The orders the decision cancels.
ToCancel == {o \in DOMAIN riskLive : ~Kept(o)}

\* A side is quoted unless there is nothing to quote, the quote is already
\* there, or a reservation of the side is still open.
Wanted(side) ==
  /\ DesiredQuotes[side] # NoPrice
  /\ ~HasMatching(side)
  /\ Risk!Exposure(riskPending, side) = 0

QuoteOf(side) ==
  [trader |-> Maker, side |-> side, price |-> DesiredQuotes[side], quantity |-> QuoteQuantity,
   post_only |-> TRUE, valid |-> TRUE]

Decide ==
  /\ phase = "run" /\ ~Due /\ events = <<>> /\ decideAt <= until
  /\ LET orders == InOrder(ToCancel, {e \in ToCancel \X ToCancel : e[1] < e[2]})
     IN Enqueue([k \in DOMAIN orders |-> Cancellation(Maker, orders[k])], decideAt)
  /\ withdrawn' = kill
  /\ phase' = "admit Buy"
  /\ UNCHANGED <<exchangeVars, clock, events, lastTrade, quoted, account, observed,
                 until, decideAt, nextIntent, source>>

Admitting(side) == IF side = "Buy" THEN "admit Buy" ELSE "admit Sell"
Binding(side) == IF side = "Buy" THEN "bind Buy" ELSE "bind Sell"
NextStage(side) == IF side = "Buy" THEN "admit Sell" ELSE "decided"

\* admit_side up to the admission.
AdmitSide(side) ==
  /\ phase = Admitting(side)
  /\ \/ /\ ~Wanted(side)
        /\ phase' = NextStage(side)
        /\ UNCHANGED <<nextIntent, account>>
     \/ /\ Wanted(side)
        /\ nextIntent' = nextIntent + 1
        /\ \/ /\ Risk!Admit(nextIntent, side, QuoteQuantity, TRUE)
              /\ phase' = Binding(side)
           \/ /\ ~(Risk!IntentAcceptable(nextIntent, QuoteQuantity)
                     /\ Risk!ExposureAcceptable(side, QuoteQuantity))
              /\ phase' = NextStage(side)
              /\ UNCHANGED account
  /\ UNCHANGED <<exchangeVars, schedule, events, lastTrade, quoted, observed,
                 until, decideAt, source, withdrawn>>

BindToNext(side) ==   \* mutant: the reservation is bound to the next ingress number
  /\ phase = Binding(side)
  /\ Enqueue(<<Submission(QuoteOf(side))>>, decideAt)
  /\ Risk!BindIngress(nextIntent - 1, nextIngress + 1)
  /\ phase' = NextStage(side)
  /\ UNCHANGED <<exchangeVars, clock, events, lastTrade, quoted, observed,
                 until, decideAt, nextIntent, source, withdrawn>>

\* The rest of admit_side: the admitted intent is enqueued and bound to the
\* ingress number of its command.
BindSide(side) ==
  /\ phase = Binding(side)
  /\ Enqueue(<<Submission(QuoteOf(side))>>, decideAt)
  /\ Risk!BindIngress(nextIntent - 1, nextIngress)
  /\ phase' = NextStage(side)
  /\ UNCHANGED <<exchangeVars, clock, events, lastTrade, quoted, observed,
                 until, decideAt, nextIntent, source, withdrawn>>

DecidedWithoutInterval ==   \* mutant: the next decision is taken at the same time
  /\ phase = "decided"
  /\ phase' = "run"
  /\ UNCHANGED <<exchangeVars, schedule, events, lastTrade, quoted, account, observed,
                 until, decideAt, nextIntent, source, withdrawn>>

Decided ==
  /\ phase = "decided"
  /\ decideAt' = decideAt + Interval
  /\ phase' = "run"
  /\ UNCHANGED <<exchangeVars, schedule, events, lastTrade, quoted, account, observed,
                 until, nextIntent, source, withdrawn>>

Return ==
  /\ phase = "run" /\ ~Due /\ events = <<>> /\ decideAt > until
  /\ phase' = "idle" /\ until' = 0
  /\ UNCHANGED <<exchangeVars, schedule, events, lastTrade, quoted, account, observed,
                 decideAt, nextIntent, source, withdrawn>>

-----------------------------------------------------------------------------
(***************************************************************************)
(* Between two calls of run_until, and the specification.                  *)
(***************************************************************************)
EnqueueExternal(command, at) ==
  /\ phase = "idle"
  /\ outside < MaxExternal /\ Len(queue) < MaxQueued
  /\ outside' = outside + 1
  /\ at >= clock
  /\ Enqueue(<<command>>, at)
  /\ UNCHANGED <<exchangeVars, clock, events, lastTrade, quoted, account, traded, refusals, control>>

ActivateKillSwitch ==
  /\ phase = "idle"
  /\ Risk!SetKillSwitch(TRUE)
  /\ UNCHANGED <<exchangeVars, schedule, events, lastTrade, quoted, observed, control>>

RunUntil(time) ==
  /\ phase = "idle"
  /\ until' = time
  /\ phase' = "run"
  /\ UNCHANGED <<exchangeVars, schedule, events, lastTrade, quoted, account, observed,
                 decideAt, nextIntent, source, withdrawn>>

MakerInit ==
  /\ ExchangeInit
  /\ Risk!Init
  /\ queue = <<>> /\ clock = 0 /\ nextIngress = 1 /\ events = <<>>
  /\ phase = "idle" /\ until = 0 /\ decideAt = 1
  /\ nextIntent = 1 /\ lastTrade = NoPrice /\ source \in Sources
  /\ quoted = Risk!NoOrders
  /\ traded = 0 /\ refusals = 0 /\ outside = 0 /\ withdrawn = FALSE

\* What run_until does by itself.
Coordinator ==
  \/ RunExchange \/ Consume \/ ConsumeFails \/ Decide \/ Decided \/ Return
  \/ \E side \in Sides : AdmitSide(side) \/ BindSide(side)

MakerNext ==
  \/ Coordinator
  \/ \E command \in External, at \in 1..Horizon : EnqueueExternal(command, at)
  \/ ActivateKillSwitch
  \/ \E time \in 1..Horizon : RunUntil(time)

\* Weak fairness of the coordinator, one thread that runs its loop to the end;
\* nobody is obliged to call it again.  TLC finds no deadlock, so a step of it is
\* enabled whenever phase is not "idle", and that is written for its ENABLED.
Fairness == []<>(phase = "idle") \/ []<><<phase # "idle">>_makerVars

MakerSpec == MakerInit /\ [][MakerNext]_makerVars /\ Fairness

-----------------------------------------------------------------------------
(***************************************************************************)
(* Properties.                                                             *)
(***************************************************************************)
OwnOrders == {o \in DOMAIN live : live[o].trader = Maker}

\* Whenever every event has been consumed, the account's view of its orders,
\* position and reservations is the exchange's, through fills, replacements
\* and the closing of the market in any order.
AccountAgreesWithExchange ==
  events = <<>> =>
    /\ riskLive = [o \in OwnOrders |-> [id |-> o, side |-> live[o].side, quantity |-> live[o].remaining]]
    /\ position = traded
    /\ watermark = nextEvent - 1
    /\ {riskPending[i].ingress : i \in DOMAIN riskPending} \ {0}
         = {queue[k].ingress : k \in {j \in DOMAIN queue : ByMaker(queue[j].command)
                                                            /\ queue[j].command.kind = "submit"}}

\* The maker has at most one order on each side of the book: a quote is
\* replaced by a cancellation and a submission of the same instant, and a
\* reservation blocks its side.
OneQuotePerSide ==
  \A o, p \in OwnOrders : live[o].side = live[p].side => o = p

\* The exchange refuses no command of the maker while the market is open:
\* quotes are post-only and behind the displayed book, nothing runs between the
\* decision and its commands, and no order it cancels has gone.
MakerCommandsAccepted == refusals = 0

\* The maker quotes as it means to: once a side, and never refused.
QuotesAreSound == OneQuotePerSide /\ MakerCommandsAccepted

\* What the maker has really traded stays within the position limit, although
\* the account learns of fills only when it consumes their events.
TrueExposureWithinLimit ==
  Risk!WithinPosition(traded,
    Total(live, {o \in OwnOrders : live[o].side = "Buy"}), Total(live, {o \in OwnOrders : live[o].side = "Sell"}))

\* Once run_until has returned after a decision taken under the kill switch,
\* the maker has no order in the market and none on its way.
KilledMakerLeaves ==
  withdrawn /\ phase = "idle" =>
    OwnOrders = {} /\ \A k \in DOMAIN queue : ~ByMaker(queue[k].command)

\* The coordinator fails on one kind of event only, the acknowledgement of a
\* market order: every reservation is bound before its events arrive.
StallsOnMarketOrdersOnly ==
  phase = "idle" /\ events # <<>> =>
    Head(events).kind = "acknowledged" /\ ~IsLimit(Head(events).order)

\* run_until returns, whatever is queued.
RunUntilReturns == [](phase # "idle" => <>(phase = "idle"))

\* run_until consumes every event ("The projection applies every exchange
\* event in contiguous global sequence order", ADR-006).
EveryEventConsumed == phase = "idle" => events = <<>>

=============================================================================
