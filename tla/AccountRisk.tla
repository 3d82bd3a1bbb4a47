---------------------------- MODULE AccountRisk ----------------------------
(***************************************************************************)
(* The account risk projection (src/cpp/src/risk/account_risk.cpp).        *)
(*                                                                         *)
(* One account, trader and contract.  A strategy's intent is admitted or   *)
(* refused against five limits; an admitted intent reserves exposure until *)
(* its exchange ingress number is bound and the exchange acknowledges or   *)
(* rejects it.  The projection then follows the exchange's events, which   *)
(* it accepts only in contiguous sequence order.                           *)
(*                                                                         *)
(* The environment is deliberately hostile: any event may arrive next,     *)
(* whether or not an exchange would emit it, and any checkpoint document   *)
(* of Documents may be offered to restore.  A call that returns an error   *)
(* leaves the projection unchanged, so it is no step of this module.       *)
(* Prices, contracts and timestamps are abstracted: they are compared for  *)
(* equality only and a mismatch is one more way to return an error.        *)
(***************************************************************************)
EXTENDS Integers, FiniteSets

CONSTANTS
  Orders,           \* exchange order identifiers
  Intents,          \* client intent identifiers
  Ingress,          \* exchange ingress numbers (the code's nonzero uint64)
  NoIngress,        \* a reservation whose ingress is not bound yet
  Quantities,       \* the quantities a strategy or an event may carry
  PostOnlyChoices,  \* the values of post_only the strategy uses
  Documents,        \* the checkpoint documents offered to restore
  MaxOrderQty, MaxPosition, MaxBuyExposure, MaxSellExposure,
  MaxPending, MaxActive,        \* RiskLimits
  MaxWatermark                  \* bound of the model on the event sequence

Sides == {"Buy", "Sell"}

LiveRiskOrder == [id : Orders, side : Sides, quantity : Nat]
PendingRiskOrder ==
  [id : Intents, side : Sides, quantity : Nat, post_only : BOOLEAN,
   ingress : Ingress \union {NoIngress}]
\* RiskCheckpoint, with its two vectors as sets of records.
IsRiskCheckpoint(doc) ==
  /\ doc.watermark \in Nat
  /\ doc.net \in Int
  /\ doc.kill \in BOOLEAN
  /\ \A r \in doc.live : r \in LiveRiskOrder
  /\ \A p \in doc.pending : p \in PendingRiskOrder

\* AccountRiskProjection::create refuses a zero limit; identifiers are finite
\* because a run of the program hands out finitely many.
ASSUME LimitsAssumption ==
  /\ MaxOrderQty \in Nat \ {0}
  /\ MaxPosition \in Nat \ {0}
  /\ MaxBuyExposure \in Nat \ {0}
  /\ MaxSellExposure \in Nat \ {0}
  /\ MaxPending \in Nat \ {0}
  /\ MaxActive \in Nat \ {0}
  /\ MaxWatermark \in Nat
ASSUME IdentifiersAssumption ==
  /\ IsFiniteSet(Orders)
  /\ IsFiniteSet(Intents)
  /\ NoIngress \notin Ingress
  /\ Quantities \subseteq Nat
  /\ PostOnlyChoices \subseteq BOOLEAN
ASSUME DocumentsAssumption == \A doc \in Documents : IsRiskCheckpoint(doc)

VARIABLES
  watermark,   \* event_watermark_
  net,         \* net_position_
  kill,        \* kill_switch_active_
  live,        \* live_orders_: order identifier -> LiveRiskOrder
  pending      \* pending_orders_: intent identifier -> PendingRiskOrder

vars == <<watermark, net, kill, live, pending>>

-----------------------------------------------------------------------------
(***************************************************************************)
(* Exposure.  A quantity is counted by its unit lots: order o with r units *)
(* left contributes the lots <<o, 1>> .. <<o, r>>, so that an aggregate is *)
(* the cardinality of a set.                                               *)
(***************************************************************************)
Lots(orders, side) ==
  {lot \in (DOMAIN orders) \X (1..MaxOrderQty) :
     orders[lot[1]].side = side /\ lot[2] <= orders[lot[1]].quantity}

\* aggregate_quantity: of the live orders or of the reservations of a side.
Exposure(orders, side) == Cardinality(Lots(orders, side))

SideLimit(side) == IF side = "Buy" THEN MaxBuyExposure ELSE MaxSellExposure

IfSide(s, side, q) == IF s = side THEN q ELSE 0

IsMap(f) == f = [x \in DOMAIN f |-> f[x]]
Without(f, x) == [y \in DOMAIN f \ {x} |-> f[y]]
With(f, x, v) == [y \in DOMAIN f \union {x} |-> IF y = x THEN v ELSE f[y]]

\* The negation of exceeds_position_limit: position stays within the limit
\* even if every buy, or every sell, that is open or reserved is filled.
WithinPosition(position, buys, sells) ==
  /\ position + buys <= MaxPosition
  /\ position - sells >= -MaxPosition

-----------------------------------------------------------------------------
(***************************************************************************)
(* Admission and ingress binding.                                          *)
(***************************************************************************)
Reservation(i, side, q, postOnly) ==
  [id |-> i, side |-> side, quantity |-> q, post_only |-> postOnly, ingress |-> NoIngress]

IntentAcceptableWhenKilled(i, q) ==   \* mutant: the kill switch is not consulted
  /\ q # 0
  /\ i \notin DOMAIN pending
  /\ q <= MaxOrderQty
  /\ Cardinality(DOMAIN live) + Cardinality(DOMAIN pending) < MaxActive

IntentAcceptableLiveCount(i, q) ==   \* mutant: reservations do not count as active
  /\ ~kill
  /\ q # 0
  /\ i \notin DOMAIN pending
  /\ q <= MaxOrderQty
  /\ Cardinality(DOMAIN live) < MaxActive

\* The checks of admit that concern the intent and the counts.
IntentAcceptable(i, q) ==
  /\ ~kill
  /\ q # 0
  /\ i \notin DOMAIN pending
  /\ q <= MaxOrderQty
  /\ Cardinality(DOMAIN live) + Cardinality(DOMAIN pending) < MaxActive

ExposureAcceptableOpenOnly(side, q) ==   \* mutant: worst case without reservations
  /\ Exposure(pending, side) + q <= MaxPending
  /\ Exposure(live, side) + q <= SideLimit(side)
  /\ WithinPosition(net, Exposure(live, "Buy") + IfSide("Buy", side, q),
                         Exposure(live, "Sell") + IfSide("Sell", side, q))

ExposureAcceptableLate(side, q) ==   \* mutant: pending limit tested before adding the intent
  /\ Exposure(pending, side) <= MaxPending
  /\ Exposure(live, side) + q <= SideLimit(side)
  /\ WithinPosition(net,
       Exposure(live, "Buy") + Exposure(pending, "Buy") + IfSide("Buy", side, q),
       Exposure(live, "Sell") + Exposure(pending, "Sell") + IfSide("Sell", side, q))

\* The checks of admit that concern exposure: the side limit sees open orders
\* and the new intent, not the reservations that are already pending.
ExposureAcceptable(side, q) ==
  /\ Exposure(pending, side) + q <= MaxPending
  /\ Exposure(live, side) + q <= SideLimit(side)
  /\ WithinPosition(net,
       Exposure(live, "Buy") + Exposure(pending, "Buy") + IfSide("Buy", side, q),
       Exposure(live, "Sell") + Exposure(pending, "Sell") + IfSide("Sell", side, q))

Admit(i, side, q, postOnly) ==
  /\ IntentAcceptable(i, q)
  /\ ExposureAcceptable(side, q)
  /\ pending' = With(pending, i, Reservation(i, side, q, postOnly))
  /\ UNCHANGED <<watermark, net, kill, live>>

BindIngressShared(i, g) ==   \* mutant: another reservation may own the number
  /\ i \in DOMAIN pending
  /\ pending[i].ingress = NoIngress
  /\ pending' = [pending EXCEPT ![i].ingress = g]
  /\ UNCHANGED <<watermark, net, kill, live>>

BindIngress(i, g) ==
  /\ i \in DOMAIN pending
  /\ pending[i].ingress = NoIngress
  /\ \A j \in DOMAIN pending : pending[j].ingress # g
  /\ pending' = [pending EXCEPT ![i].ingress = g]
  /\ UNCHANGED <<watermark, net, kill, live>>

-----------------------------------------------------------------------------
(***************************************************************************)
(* Events.  seq is the event's sequence number.                            *)
(***************************************************************************)
Contiguous(seq) ==
  /\ seq = watermark + 1
  /\ watermark' = seq

\* The acknowledgement of the new order o answers to reservation i.
Answers(i, o, g, side, q) ==
  /\ i \in DOMAIN pending
  /\ pending[i].ingress = g /\ pending[i].side = side /\ pending[i].quantity = q
  /\ o \notin DOMAIN live

\* AccountOrderAcknowledged of this trader: the reservation bound to the
\* command's ingress becomes a live order.
ApplyAcknowledged(seq, o, g, side, q) ==
  /\ Contiguous(seq)
  /\ \E i \in DOMAIN pending :
       /\ Answers(i, o, g, side, q)
       /\ live' = With(live, o, [id |-> o, side |-> side, quantity |-> q])
       /\ pending' = Without(pending, i)
  /\ UNCHANGED <<net, kill>>

\* The fill is of a live order, no larger than what is left of it.
FillAcceptable(o, side, q) ==
  /\ q # 0
  /\ o \in DOMAIN live
  /\ live[o].side = side
  /\ q <= live[o].quantity

ApplyFillKeepsEmpty(seq, o, side, q) ==   \* mutant: a filled order is not erased
  /\ Contiguous(seq)
  /\ FillAcceptable(o, side, q)
  /\ net' = IF side = "Buy" THEN net + q ELSE net - q
  /\ live' = [live EXCEPT ![o].quantity = @ - q]
  /\ UNCHANGED <<kill, pending>>

ApplyFillForgetsBuys(seq, o, side, q) ==   \* mutant: only sales move the position
  /\ Contiguous(seq)
  /\ FillAcceptable(o, side, q)
  /\ net' = IF side = "Buy" THEN net ELSE net - q
  /\ live' = IF live[o].quantity = q THEN Without(live, o)
             ELSE [live EXCEPT ![o].quantity = @ - q]
  /\ UNCHANGED <<kill, pending>>

\* AccountFill of this trader.
ApplyFill(seq, o, side, q) ==
  /\ Contiguous(seq)
  /\ FillAcceptable(o, side, q)
  /\ net' = IF side = "Buy" THEN net + q ELSE net - q
  /\ live' = IF live[o].quantity = q THEN Without(live, o)
             ELSE [live EXCEPT ![o].quantity = @ - q]
  /\ UNCHANGED <<kill, pending>>

OutcomeAcceptable(o, r) == o \in DOMAIN live => r <= live[o].quantity

\* AccountOrderOutcome: zero erases the order, a larger remainder than the
\* projection holds is an error, an unknown order is nobody's business here.
ApplyOutcome(seq, o, r) ==
  /\ Contiguous(seq)
  /\ OutcomeAcceptable(o, r)
  /\ live' = IF o \notin DOMAIN live THEN live
             ELSE IF r = 0 THEN Without(live, o)
             ELSE [live EXCEPT ![o].quantity = r]
  /\ UNCHANGED <<net, kill, pending>>

ApplyCancellation(seq, o) ==
  /\ Contiguous(seq)
  /\ live' = Without(live, o)
  /\ UNCHANGED <<net, kill, pending>>

\* AccountCommandRejected releases the reservation bound to the command.
ApplyRejected(seq, g) ==
  /\ Contiguous(seq)
  /\ pending' = [i \in {j \in DOMAIN pending : pending[j].ingress # g} |-> pending[i]]
  /\ UNCHANGED <<net, kill, live>>

\* Another trader's acknowledgement or fill, and every event of no account.
ApplyOther(seq) ==
  /\ Contiguous(seq)
  /\ UNCHANGED <<net, kill, live, pending>>

SetKillSwitch(active) ==
  /\ kill # active
  /\ kill' = active
  /\ UNCHANGED <<watermark, net, live, pending>>

-----------------------------------------------------------------------------
(***************************************************************************)
(* Checkpoints.  A document lists records, so it can name an identifier    *)
(* twice; the maps of the projection cannot.                               *)
(***************************************************************************)
UniqueIds(records) == \A a, b \in records : a.id = b.id => a = b

ById(records) ==
  [x \in {r.id : r \in records} |-> CHOOSE r \in records : r.id = x]

Records(f) == {f[x] : x \in DOMAIN f}

\* checkpoint()
CurrentCheckpoint ==
  [watermark |-> watermark, net |-> net, kill |-> kill,
   live |-> Records(live), pending |-> Records(pending)]

\* validate_checkpoint returns no rejection.
ValidCheckpoint(doc) ==
  LET orders == ById(doc.live)
      reserved == ById(doc.pending)
  IN /\ UniqueIds(doc.live)
     /\ \A r \in doc.live : r.quantity # 0 /\ r.quantity <= MaxOrderQty
     /\ UniqueIds(doc.pending)
     /\ \A p \in doc.pending : p.quantity # 0 /\ p.quantity <= MaxOrderQty /\ p.post_only
     /\ \A p, r \in doc.pending : p.ingress = r.ingress /\ p.ingress # NoIngress => p = r
     /\ Cardinality(DOMAIN orders) + Cardinality(DOMAIN reserved) <= MaxActive
     /\ \A s \in Sides : /\ Exposure(orders, s) <= SideLimit(s)
                         /\ Exposure(reserved, s) <= MaxPending
     /\ WithinPosition(doc.net, Exposure(orders, "Buy") + Exposure(reserved, "Buy"),
                                Exposure(orders, "Sell") + Exposure(reserved, "Sell"))

Restore(doc) ==
  /\ ValidCheckpoint(doc)
  /\ watermark' = doc.watermark
  /\ net' = doc.net
  /\ kill' = doc.kill
  /\ live' = ById(doc.live)
  /\ pending' = ById(doc.pending)

-----------------------------------------------------------------------------
NoOrders == [x \in {} |-> x]

Init ==
  /\ watermark = 0
  /\ net = 0
  /\ kill = FALSE
  /\ live = NoOrders
  /\ pending = NoOrders

ApplyEvent(seq) ==
  \/ \E o \in Orders, g \in Ingress, s \in Sides, q \in Quantities : ApplyAcknowledged(seq, o, g, s, q)
  \/ \E o \in Orders, s \in Sides, q \in Quantities : ApplyFill(seq, o, s, q)
  \/ \E o \in Orders, r \in Quantities : ApplyOutcome(seq, o, r)
  \/ \E o \in Orders : ApplyCancellation(seq, o)
  \/ \E g \in Ingress : ApplyRejected(seq, g)
  \/ ApplyOther(seq)

Next ==
  \/ \E i \in Intents, s \in Sides, q \in Quantities, p \in PostOnlyChoices : Admit(i, s, q, p)
  \/ \E i \in Intents, g \in Ingress : BindIngress(i, g)
  \/ \E seq \in 1..MaxWatermark : ApplyEvent(seq)
  \/ \E active \in BOOLEAN : SetKillSwitch(active)
  \/ \E doc \in Documents : Restore(doc)

Spec == Init /\ [][Next]_vars

-----------------------------------------------------------------------------
(***************************************************************************)
(* Properties.                                                             *)
(***************************************************************************)
Buys == Exposure(live, "Buy") + Exposure(pending, "Buy")
Sells == Exposure(live, "Sell") + Exposure(pending, "Sell")

OrderMap(f, ids, records) ==
  /\ IsMap(f)
  /\ DOMAIN f \subseteq ids
  /\ \A x \in DOMAIN f : f[x] \in records /\ f[x].id = x /\ f[x].quantity \in 1..MaxOrderQty

\* The maps hold well-formed records under their own identifiers, and only
\* positive quantities within the per-order limit.
TypeOK ==
  /\ watermark \in Nat
  /\ net \in Int
  /\ kill \in BOOLEAN
  /\ OrderMap(live, Orders, LiveRiskOrder)
  /\ OrderMap(pending, Intents, PendingRiskOrder)

\* The position stays within maximum_absolute_position however the open and
\* the reserved orders are filled, for every event stream and every document
\* restored: the promise admit and validate_checkpoint are written for.
WorstCasePosition == WithinPosition(net, Buys, Sells)

\* What the side limit of admit is worth.  admit compares it with the open
\* orders only, so reservations acknowledged together can exceed it, by at
\* most maximum_pending_exposure; reservations never exceed their own limit.
SideExposureBound ==
  \A s \in Sides :
    /\ Exposure(pending, s) <= MaxPending
    /\ Exposure(live, s) + Exposure(pending, s) <= SideLimit(s) + MaxPending

\* The active-order limit holds through acknowledgements, which move an order
\* from one map to the other, and through restores.
ActiveOrderBound == Cardinality(DOMAIN live) + Cardinality(DOMAIN pending) <= MaxActive

\* An exchange event names at most one reservation: acknowledgements and
\* rejections resolve reservations by ingress number alone.
IngressUnique ==
  \A i, j \in DOMAIN pending :
    pending[i].ingress = pending[j].ingress /\ pending[i].ingress # NoIngress => i = j

\* While the kill switch is on, no call and no event widens the range of
\* positions the account can end in; only restoring a document can.
KilledAccountOnlyShrinks ==
  [][kill /\ kill' =>
       \/ \E doc \in Documents : Restore(doc)
       \/ net' + Buys' <= net + Buys /\ net' - Sells' >= net - Sells]_vars

\* restore accepts what checkpoint() captured.  ("Round-trip fixtures prove
\* nothing is lost: capture must produce exactly the reviewed bytes, and after
\* restoring, the original and the copy must agree on every later event".)
CapturedCheckpointRestores == ValidCheckpoint(CurrentCheckpoint)

\* Of all the rules of validate_checkpoint, a state the projection reached can
\* break two only: a reservation that is not post-only, and a side whose
\* acknowledged orders exceed the limit admit compared before they were acked.
RestoreRefusesTwoThingsOnly ==
  \/ ValidCheckpoint(CurrentCheckpoint)
  \/ \E i \in DOMAIN pending : ~pending[i].post_only
  \/ \E s \in Sides : Exposure(live, s) > SideLimit(s)

=============================================================================
