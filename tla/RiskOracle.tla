----------------------------- MODULE RiskOracle -----------------------------
(* One risk oracle process and its bridge: CxxRiskOracle of                    *)
(* src/python/pmm_phase7.py, the process of risk_oracle_main.cpp behind it and *)
(* the AccountRisk projection inside that.  A bridge is a record r: the        *)
(* projection's state, the sequence the bridge numbers events with, and the    *)
(* client identifiers it holds for orders not acknowledged yet.  An answer     *)
(* "ERROR", or a client the bridge does not know, is r.error: the exception    *)
(* that ends a run.  Orders are their own client intent and ingress number.    *)
EXTENDS Integers, FiniteSets

CONSTANTS
  MaxOrders,                                    \* bound: orders of a run
  MaxOrderQty, MaxPosition, MaxBuyExposure, MaxSellExposure,
  MaxPending, MaxActive                         \* risk.limits

OrderIds == 1..MaxOrders

\* The projection that r.watermark, r.net, r.live and r.pending describe.
Projection(r) ==
  INSTANCE AccountRisk WITH
    Orders <- OrderIds, Intents <- OrderIds, Ingress <- OrderIds, NoIngress <- 0,
    Quantities <- 1..MaxOrderQty, PostOnlyChoices <- {TRUE}, Documents <- {}, MaxWatermark <- 0,
    watermark <- r.watermark, net <- r.net, kill <- FALSE, live <- r.live, pending <- r.pending

NoOrders == [o \in {} |-> o]
Without(f, ids) == [x \in DOMAIN f \ ids |-> f[x]]
With(f, o, v) == [x \in DOMAIN f \union {o} |-> IF x = o THEN v ELSE f[x]]

\* INIT answered READY.
Ready ==
  [watermark |-> 0, net |-> 0, live |-> NoOrders, pending |-> NoOrders,
   sequence |-> 0, clients |-> {}, error |-> FALSE]

Failing(r) == [r EXCEPT !.error = TRUE]

\* admit: approved, or refused with a category the bridge returns.
Approves(r, o, side, q) ==
  /\ Projection(r)!IntentAcceptable(o, q)
  /\ Projection(r)!ExposureAcceptable(side, q)

Approved(r, o, side, q) ==
  [r EXCEPT !.pending = With(@, o, Projection(r)!Reservation(o, side, q, TRUE)),
            !.clients = @ \union {o}]

\* BIND, of each of a set of orders: the client leaves the bridge, its
\* reservation gets the order's number.
Bound(r, ids) ==
  IF \/ r.error
     \/ ids \ (r.clients \intersect DOMAIN r.pending) # {}
     \/ \E o \in ids : r.pending[o].ingress # 0 \/ \E c \in DOMAIN r.pending : r.pending[c].ingress = o
    THEN Failing(r)
  ELSE [r EXCEPT !.clients = @ \ ids,
                 !.pending = [o \in DOMAIN @ |-> IF o \in ids THEN [@[o] EXCEPT !.ingress = o] ELSE @[o]]]

\* The next count events: the bridge numbers them, the projection wants them
\* contiguous.
Numbered(r, count) ==
  IF r.error \/ r.sequence # r.watermark THEN Failing(r)
  ELSE [r EXCEPT !.sequence = @ + count, !.watermark = @ + count]

\* acknowledge: BIND, then ACK with the order's own side and quantity.
Acknowledged(r, o, side, q) ==
  LET bound == Bound(r, {o})
      after == Numbered(bound, 1)
  IN IF after.error THEN after
     ELSE IF o \in DOMAIN r.live \/ bound.pending[o].side # side \/ bound.pending[o].quantity # q
       THEN Failing(r)
     ELSE [after EXCEPT !.live = With(@, o, [id |-> o, side |-> side, quantity |-> q]),
                        !.pending = Without(@, {o})]

\* apply_fill: FILL.
Filled(r, o, side, q) ==
  LET after == Numbered(r, 1) IN
  IF after.error THEN after
  ELSE IF q = 0 \/ o \notin DOMAIN r.live THEN Failing(r)
  ELSE IF r.live[o].side # side \/ q > r.live[o].quantity THEN Failing(r)
  ELSE [after EXCEPT !.net = IF side = "Buy" THEN @ + q ELSE @ - q,
                     !.live = IF r.live[o].quantity = q THEN Without(@, {o})
                              ELSE [r.live EXCEPT ![o].quantity = @ - q]]

\* cancel of each of a set of orders: CANCEL, which an order the projection
\* does not hold survives.
Cancelled(r, ids) ==
  LET after == Numbered(r, Cardinality(ids)) IN
  IF after.error THEN after ELSE [after EXCEPT !.live = Without(@, ids)]

RejectedUnbound(r, ids) ==   \* mutant: REJECT without the BIND before it
  LET after == Numbered(r, Cardinality(ids)) IN
  IF after.error THEN after ELSE [after EXCEPT !.clients = @ \ ids]

\* reject_pending of each of a set of orders: BIND, then REJECT, which releases
\* the reservation bound to the number.
Rejected(r, ids) ==
  LET after == Numbered(Bound(r, ids), Cardinality(ids)) IN
  IF after.error THEN after ELSE [after EXCEPT !.pending = Without(@, ids)]
=============================================================================
