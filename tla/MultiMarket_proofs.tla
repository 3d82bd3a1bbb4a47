------------------------- MODULE MultiMarket_proofs -------------------------
(***************************************************************************)
(* The coordinator of run_backtest_v4 and its risk oracles never disagree: *)
(* proofs about RiskOracle and MultiMarket.                                *)
(*                                                                         *)
(* Section 1 says what each call of the bridge does to an oracle that is   *)
(* at rest, section 2 what each call of a product's runtime does.  Section *)
(* 3 states the invariants; 4 and 5 are what a round does to the heap, the *)
(* products and the ledger.  Section 6 proves that the oracles agree, 7 to *)
(* 9 that every submitted order is accounted for, 10 that the command ends *)
(* with the outcome its inputs call for, and 11 that no action comes       *)
(* before its cause.                                                       *)
(***************************************************************************)
EXTENDS MultiMarket, FiniteSetTheorems, TLAPS

-----------------------------------------------------------------------------
(* 1. The oracle. *)

\* A bridge, and the records behind it.
IsBridge(r) == DOMAIN r = {"watermark", "net", "live", "pending", "sequence", "clients", "error"}
IsReservation(p) == DOMAIN p = {"id", "side", "quantity", "post_only", "ingress"} /\ p.ingress = 0
IsLiveOrder(l) == DOMAIN l = {"id", "side", "quantity"}

\* Between two calls: no error, the bridge numbers events as the projection
\* expects, and it waits for exactly the reservations, none of them bound.
AtRest(r) ==
  /\ IsBridge(r)
  /\ r.error = FALSE
  /\ r.sequence = r.watermark
  /\ DOMAIN r.pending \subseteq OrderIds
  /\ r.clients = DOMAIN r.pending
  /\ \A o \in DOMAIN r.pending : IsReservation(r.pending[o])
  /\ \A o \in DOMAIN r.live : IsLiveOrder(r.live[o])

\* What a map of orders is without some of them, and with one more.
LEMMA WithoutIs ==
  ASSUME NEW f, NEW ids
  PROVE  /\ DOMAIN Without(f, ids) = DOMAIN f \ ids
         /\ \A x \in DOMAIN f \ ids : Without(f, ids)[x] = f[x]
BY DEF Without

LEMMA WithIs ==
  ASSUME NEW f, NEW o, NEW v
  PROVE  /\ DOMAIN With(f, o, v) = DOMAIN f \union {o}
         /\ With(f, o, v)[o] = v
         /\ \A x \in DOMAIN f : x # o => With(f, o, v)[x] = f[x]
BY DEF With

\* Binding reservations of an oracle at rest does not fail.
LEMMA BoundAtRest ==
  ASSUME NEW r, AtRest(r), NEW ids, ids \subseteq DOMAIN r.pending
  PROVE  Bound(r, ids) =
           [r EXCEPT !.clients = r.clients \ ids,
                     !.pending = [o \in DOMAIN r.pending |->
                        IF o \in ids THEN [r.pending[o] EXCEPT !.ingress = o] ELSE r.pending[o]]]
<1>1. ~r.error /\ ids \ (r.clients \intersect DOMAIN r.pending) = {}
  BY DEF AtRest
<1>2. \A c \in DOMAIN r.pending : r.pending[c].ingress = 0
  BY DEF AtRest, IsReservation
<1>3. \A o \in ids : o # 0
  BY ConfigurationAssumption DEF AtRest, OrderIds
<1>4. ~ \E o \in ids : r.pending[o].ingress # 0 \/ \E c \in DOMAIN r.pending : r.pending[c].ingress = o
  BY <1>2, <1>3
<1> QED BY <1>1, <1>4 DEF Bound

\* The same, field by field.
IsBound(bound, r, ids) ==
  /\ IsBridge(bound) /\ bound.error = FALSE /\ bound.sequence = bound.watermark
  /\ bound.clients = r.clients \ ids /\ bound.live = r.live
  /\ DOMAIN bound.pending = DOMAIN r.pending
  /\ \A o \in DOMAIN r.pending \ ids : bound.pending[o] = r.pending[o]
  /\ \A o \in ids : /\ bound.pending[o].side = r.pending[o].side
                    /\ bound.pending[o].quantity = r.pending[o].quantity

LEMMA BoundFields ==
  ASSUME NEW r, AtRest(r), NEW ids, ids \subseteq DOMAIN r.pending
  PROVE  IsBound(Bound(r, ids), r, ids)
<1> DEFINE C == r.clients \ ids
           P == [o \in DOMAIN r.pending |->
                   IF o \in ids THEN [r.pending[o] EXCEPT !.ingress = o] ELSE r.pending[o]]
           bound == Bound(r, ids)
<1>1. bound = [r EXCEPT !.clients = C, !.pending = P]
  BY Zenon, BoundAtRest
<1>2. /\ DOMAIN P = DOMAIN r.pending
      /\ \A o \in DOMAIN r.pending \ ids : P[o] = r.pending[o]
      /\ \A o \in ids : P[o] = [r.pending[o] EXCEPT !.ingress = o]
  OBVIOUS
<1>3. \A o \in ids : P[o].side = r.pending[o].side /\ P[o].quantity = r.pending[o].quantity
  BY <1>2 DEF AtRest, IsReservation
<1> HIDE DEF C, P, bound
<1>4. IsBridge(r) /\ r.error = FALSE /\ r.sequence = r.watermark
  BY DEF AtRest
<1>5. /\ IsBridge(bound) /\ bound.error = FALSE /\ bound.sequence = bound.watermark
      /\ bound.clients = C /\ bound.live = r.live /\ bound.pending = P
  BY <1>1, <1>4 DEF IsBridge
<1> QED BY <1>2, <1>3, <1>5 DEF bound, C, IsBound

\* Numbering the next events of an oracle whose numbers agree does not fail.
LEMMA NumberedFields ==
  ASSUME NEW r, IsBridge(r), r.error = FALSE, r.sequence = r.watermark, NEW count
  PROVE  LET after == Numbered(r, count)
         IN /\ IsBridge(after) /\ after.error = FALSE /\ after.sequence = after.watermark
            /\ after.clients = r.clients /\ after.live = r.live /\ after.pending = r.pending
<1>1. Numbered(r, count) = [r EXCEPT !.sequence = @ + count, !.watermark = @ + count]
  BY DEF Numbered
<1> QED BY <1>1 DEF IsBridge

\* An oracle is at rest again when every field is as it should be.
LEMMA RestOf ==
  ASSUME NEW s, NEW r, AtRest(r), IsBridge(s), s.error = FALSE, s.sequence = s.watermark,
         s.clients = DOMAIN s.pending, DOMAIN s.pending \subseteq DOMAIN r.pending,
         \A o \in DOMAIN s.pending : s.pending[o] = r.pending[o],
         \A o \in DOMAIN s.live : IsLiveOrder(s.live[o])
  PROVE  AtRest(s)
BY DEF AtRest

\* Rejecting reservations releases them and disturbs nothing else.
LEMMA RejectedAtRest ==
  ASSUME NEW r, AtRest(r), NEW ids, ids \subseteq DOMAIN r.pending
  PROVE  LET s == Rejected(r, ids)
         IN AtRest(s) /\ s.pending = Without(r.pending, ids) /\ s.live = r.live
<1> DEFINE bound == Bound(r, ids)
           after == Numbered(bound, Cardinality(ids))
           s == Rejected(r, ids)
           P == Without(r.pending, ids)
<1>0. AtRest(r) /\ ids \subseteq DOMAIN r.pending
  OBVIOUS
<1>1. /\ IsBridge(bound) /\ bound.error = FALSE /\ bound.sequence = bound.watermark
      /\ bound.clients = r.clients \ ids /\ bound.live = r.live
      /\ DOMAIN bound.pending = DOMAIN r.pending
      /\ \A o \in DOMAIN r.pending \ ids : bound.pending[o] = r.pending[o]
  <2>1. IsBound(bound, r, ids)
    BY <1>0, BoundFields, Zenon
  <2> HIDE DEF bound
  <2> QED BY <2>1 DEF IsBound
<1>2. /\ IsBridge(after) /\ after.error = FALSE /\ after.sequence = after.watermark
      /\ after.clients = bound.clients /\ after.live = bound.live /\ after.pending = bound.pending
  BY <1>1, NumberedFields
<1>3. s = [after EXCEPT !.pending = Without(after.pending, ids)]
  BY <1>2 DEF Rejected
<1>4. Without(bound.pending, ids) = P
  BY <1>1 DEF Without
<1>5. DOMAIN P = DOMAIN r.pending \ ids /\ \A o \in DOMAIN P : P[o] = r.pending[o]
  BY DEF Without
<1> HIDE DEF bound, after, s, P
<1>6. /\ IsBridge(s) /\ s.error = FALSE /\ s.sequence = s.watermark
      /\ s.clients = r.clients \ ids /\ s.live = r.live /\ s.pending = P
  BY <1>1, <1>2, <1>3, <1>4 DEF IsBridge
<1>7. r.clients = DOMAIN r.pending /\ \A o \in DOMAIN r.live : IsLiveOrder(r.live[o])
  BY DEF AtRest
<1>8. AtRest(s)
  BY <1>5, <1>6, <1>7, RestOf
<1> QED BY <1>6, <1>8 DEF s, P

\* Cancelling live orders erases them and disturbs nothing else.
LEMMA CancelledAtRest ==
  ASSUME NEW r, AtRest(r), NEW ids
  PROVE  LET s == Cancelled(r, ids)
         IN AtRest(s) /\ s.live = Without(r.live, ids) /\ s.pending = r.pending
<1> DEFINE after == Numbered(r, Cardinality(ids))
           s == Cancelled(r, ids)
           L == Without(r.live, ids)
<1>1. /\ IsBridge(after) /\ after.error = FALSE /\ after.sequence = after.watermark
      /\ after.clients = r.clients /\ after.live = r.live /\ after.pending = r.pending
  BY NumberedFields DEF AtRest
<1>2. s = [after EXCEPT !.live = Without(after.live, ids)]
  BY <1>1 DEF Cancelled
<1>3. \A o \in DOMAIN L : IsLiveOrder(L[o])
  BY DEF Without, AtRest
<1> HIDE DEF after, s, L
<1>4. /\ IsBridge(s) /\ s.error = FALSE /\ s.sequence = s.watermark
      /\ s.clients = r.clients /\ s.live = L /\ s.pending = r.pending
  BY <1>1, <1>2 DEF IsBridge, L
<1>5. r.clients = DOMAIN r.pending
  BY DEF AtRest
<1>6. AtRest(s)
  BY <1>3, <1>4, <1>5, RestOf
<1> QED BY <1>4, <1>6 DEF s, L

\* An acknowledged reservation becomes a live order.
LEMMA AcknowledgedAtRest ==
  ASSUME NEW r, AtRest(r), NEW o \in DOMAIN r.pending, o \notin DOMAIN r.live
  PROVE  LET side == r.pending[o].side
             q == r.pending[o].quantity
             s == Acknowledged(r, o, side, q)
         IN /\ AtRest(s) /\ s.pending = Without(r.pending, {o})
            /\ s.live = With(r.live, o, [id |-> o, side |-> side, quantity |-> q])
<1> DEFINE side == r.pending[o].side
           q == r.pending[o].quantity
           bound == Bound(r, {o})
           after == Numbered(bound, 1)
           new == [id |-> o, side |-> side, quantity |-> q]
           s == Acknowledged(r, o, side, q)
           P == Without(r.pending, {o})
           L == With(r.live, o, new)
<1>0. {o} \subseteq DOMAIN r.pending /\ o \in {o}
  OBVIOUS
<1>1. /\ IsBridge(bound) /\ bound.error = FALSE /\ bound.sequence = bound.watermark
      /\ bound.clients = r.clients \ {o} /\ bound.live = r.live
      /\ DOMAIN bound.pending = DOMAIN r.pending
      /\ \A c \in DOMAIN r.pending \ {o} : bound.pending[c] = r.pending[c]
      /\ bound.pending[o].side = side /\ bound.pending[o].quantity = q
  <2>1. IsBound(bound, r, {o})
    BY <1>0, BoundFields, Zenon
  <2> HIDE DEF bound
  <2> QED BY <2>1 DEF IsBound
<1>2. /\ IsBridge(after) /\ after.error = FALSE /\ after.sequence = after.watermark
      /\ after.clients = bound.clients /\ after.live = bound.live /\ after.pending = bound.pending
  BY <1>1, NumberedFields
<1>3. s = [after EXCEPT !.live = With(after.live, o, new), !.pending = Without(after.pending, {o})]
  BY <1>1, <1>2 DEF Acknowledged
<1>4. Without(bound.pending, {o}) = P
  BY <1>1 DEF Without
<1>5. DOMAIN P = DOMAIN r.pending \ {o} /\ \A c \in DOMAIN P : P[c] = r.pending[c]
  BY DEF Without
<1>6. IsLiveOrder(new)
  BY DEF IsLiveOrder
<1>7. \A c \in DOMAIN L : IsLiveOrder(L[c])
  BY <1>6 DEF With, AtRest
<1> HIDE DEF bound, after, s, P, L, new
<1>8. /\ IsBridge(s) /\ s.error = FALSE /\ s.sequence = s.watermark
      /\ s.clients = r.clients \ {o} /\ s.live = L /\ s.pending = P
  BY <1>1, <1>2, <1>3, <1>4 DEF IsBridge, L
<1>9. r.clients = DOMAIN r.pending
  BY DEF AtRest
<1>10. AtRest(s)
  BY <1>5, <1>7, <1>8, <1>9, RestOf
<1> QED BY <1>8, <1>10 DEF s, P, L, new

\* What a fill of q leaves of live order o.
AfterFill(live, o, q) ==
  IF live[o].quantity = q THEN Without(live, {o}) ELSE [live EXCEPT ![o].quantity = @ - q]

\* A fill of a live order, no larger than the order, is applied.
LEMMA FilledAtRest ==
  ASSUME NEW r, AtRest(r), NEW o \in DOMAIN r.live, NEW q \in Nat \ {0},
         r.live[o].quantity \in Nat, q <= r.live[o].quantity
  PROVE  LET s == Filled(r, o, r.live[o].side, q)
         IN AtRest(s) /\ s.pending = r.pending /\ s.live = AfterFill(r.live, o, q)
<1> DEFINE after == Numbered(r, 1)
           side == r.live[o].side
           position == IF side = "Buy" THEN after.net + q ELSE after.net - q
           left == IF r.live[o].quantity = q THEN Without(after.live, {o})
                   ELSE [r.live EXCEPT ![o].quantity = @ - q]
           s == Filled(r, o, side, q)
           L == AfterFill(r.live, o, q)
<1>1. /\ IsBridge(after) /\ after.error = FALSE /\ after.sequence = after.watermark
      /\ after.clients = r.clients /\ after.live = r.live /\ after.pending = r.pending
  BY NumberedFields DEF AtRest
<1>2. ~after.error /\ ~(q = 0 \/ o \notin DOMAIN r.live) /\ ~(r.live[o].side # side \/ q > r.live[o].quantity)
  BY <1>1
<1>3. s = [after EXCEPT !.net = position, !.live = left]
  BY <1>2 DEF Filled
<1>4. \A x \in DOMAIN L : IsLiveOrder(L[x])
  <2>1. \A x \in DOMAIN r.live : IsLiveOrder(r.live[x])
    BY DEF AtRest
  <2>2. CASE r.live[o].quantity = q
    BY <2>1, <2>2 DEF AfterFill, Without
  <2>3. CASE r.live[o].quantity # q
    <3>1. L = [r.live EXCEPT ![o] = [r.live[o] EXCEPT !.quantity = @ - q]]
      BY <2>3 DEF AfterFill
    <3>2. IsLiveOrder([r.live[o] EXCEPT !.quantity = @ - q])
      BY <2>1 DEF IsLiveOrder
    <3> HIDE DEF L
    <3> QED BY <2>1, <3>1, <3>2
  <2> QED BY <2>2, <2>3
<1>6. left = L
  BY <1>1 DEF AfterFill
<1> HIDE DEF after, position, left, s, L
<1>9. /\ IsBridge(s) /\ s.error = FALSE /\ s.sequence = s.watermark
      /\ s.clients = r.clients /\ s.live = L /\ s.pending = r.pending
  BY <1>1, <1>3, <1>6 DEF IsBridge
<1>7. r.clients = DOMAIN r.pending
  BY DEF AtRest
<1>8. AtRest(s)
  BY <1>4, <1>7, <1>9, RestOf
<1> QED BY <1>8, <1>9 DEF s, L

\* An approved intent is one more reservation, not bound yet.
LEMMA ApprovedAtRest ==
  ASSUME NEW r, AtRest(r), NEW o \in OrderIds, NEW side, NEW q
  PROVE  LET s == Approved(r, o, side, q)
         IN /\ AtRest(s) /\ s.live = r.live
            /\ s.pending = With(r.pending, o,
                 [id |-> o, side |-> side, quantity |-> q, post_only |-> TRUE, ingress |-> 0])
<1> DEFINE new == [id |-> o, side |-> side, quantity |-> q, post_only |-> TRUE, ingress |-> 0]
           P == With(r.pending, o, new)
           s == Approved(r, o, side, q)
<1>1. s = [r EXCEPT !.pending = P, !.clients = r.clients \union {o}]
  BY DEF Approved, Projection!Reservation
<1>2. IsReservation(new)
  BY DEF IsReservation
<1> HIDE DEF new
<1>3. DOMAIN P = DOMAIN r.pending \union {o} /\ \A x \in DOMAIN P : IsReservation(P[x])
  BY <1>2 DEF With, AtRest
<1> HIDE DEF P, s
<1>4. IsBridge(r) /\ r.error = FALSE /\ r.sequence = r.watermark /\ r.clients = DOMAIN r.pending
      /\ DOMAIN r.pending \subseteq OrderIds /\ \A x \in DOMAIN r.live : IsLiveOrder(r.live[x])
  BY DEF AtRest
<1>5. /\ IsBridge(s) /\ s.error = FALSE /\ s.sequence = s.watermark
      /\ s.clients = r.clients \union {o} /\ s.live = r.live /\ s.pending = P
  BY <1>1, <1>4 DEF IsBridge
<1>6. AtRest(s)
  BY <1>3, <1>4, <1>5 DEF AtRest
<1> QED BY <1>5, <1>6 DEF s, P, new

-----------------------------------------------------------------------------
(* 2. A product's runtime. *)

IsRuntime(m) == DOMAIN m = {"segment", "seen", "next", "pending", "live", "risk"}
IsOrder(d) == DOMAIN d = {"side", "price", "remaining", "segment", "causal"} /\ d.remaining \in Nat \ {0}

\* The oracle holds these orders, with their sides and quantities.
Mirrors(orders, held) ==
  /\ DOMAIN orders = DOMAIN held
  /\ \A o \in DOMAIN orders : orders[o].side = held[o].side /\ orders[o].remaining = held[o].quantity

\* OraclesAgree, with what it takes to stay so.
Agrees(m) ==
  /\ IsRuntime(m)
  /\ AtRest(m.risk)
  /\ Mirrors(m.pending, m.risk.pending)
  /\ Mirrors(m.live, m.risk.live)
  /\ DOMAIN m.pending \cap DOMAIN m.live = {}
  /\ \A o \in DOMAIN m.pending : IsOrder(m.pending[o])
  /\ \A o \in DOMAIN m.live : IsOrder(m.live[o])

LEMMA ReadyAgrees == Agrees(Runtime)
BY DEF Agrees, Runtime, Ready, IsRuntime, AtRest, IsBridge, Mirrors, NoOrders

\* What else a runtime keeps is no business of its oracle.
LEMMA AgreesElsewhere ==
  ASSUME NEW m, Agrees(m), NEW n, IsRuntime(n),
         n.pending = m.pending, n.live = m.live, n.risk = m.risk
  PROVE  Agrees(n)
BY DEF Agrees

\* Fewer orders on both sides still agree.
LEMMA MirrorsWithout ==
  ASSUME NEW orders, NEW held, Mirrors(orders, held), NEW ids
  PROVE  Mirrors(Without(orders, ids), Without(held, ids))
BY DEF Mirrors, Without

LEMMA MirrorsWith ==
  ASSUME NEW orders, NEW held, Mirrors(orders, held), NEW o, NEW d, NEW h,
         d.side = h.side, d.remaining = h.quantity
  PROVE  Mirrors(With(orders, o, d), With(held, o, h))
BY DEF Mirrors, With

LEMMA AgreesRejected ==
  ASSUME NEW m, Agrees(m), NEW ids, ids \subseteq DOMAIN m.pending, NEW n, IsRuntime(n),
         n.pending = Without(m.pending, ids), n.live = m.live, n.risk = Rejected(m.risk, ids)
  PROVE  Agrees(n)
<1>1. /\ AtRest(m.risk) /\ ids \subseteq DOMAIN m.risk.pending
      /\ Mirrors(m.pending, m.risk.pending) /\ Mirrors(m.live, m.risk.live)
  BY DEF Agrees, Mirrors
<1>2. AtRest(n.risk) /\ n.risk.pending = Without(m.risk.pending, ids) /\ n.risk.live = m.risk.live
  BY <1>1, RejectedAtRest
<1>3. Mirrors(n.pending, n.risk.pending) /\ Mirrors(n.live, n.risk.live)
  BY <1>1, <1>2, MirrorsWithout
<1>4. /\ DOMAIN n.pending \cap DOMAIN n.live = {}
      /\ \A o \in DOMAIN n.pending : IsOrder(n.pending[o])
      /\ \A o \in DOMAIN n.live : IsOrder(n.live[o])
  BY DEF Agrees, Without
<1> QED BY <1>2, <1>3, <1>4 DEF Agrees

LEMMA AgreesCancelled ==
  ASSUME NEW m, Agrees(m), NEW ids, NEW n, IsRuntime(n),
         n.pending = m.pending, n.live = Without(m.live, ids), n.risk = Cancelled(m.risk, ids)
  PROVE  Agrees(n)
<1>1. /\ AtRest(m.risk)
      /\ Mirrors(m.pending, m.risk.pending) /\ Mirrors(m.live, m.risk.live)
  BY DEF Agrees
<1>2. AtRest(n.risk) /\ n.risk.live = Without(m.risk.live, ids) /\ n.risk.pending = m.risk.pending
  BY <1>1, CancelledAtRest
<1>3. Mirrors(n.pending, n.risk.pending) /\ Mirrors(n.live, n.risk.live)
  BY <1>1, <1>2, MirrorsWithout
<1>4. /\ DOMAIN n.pending \cap DOMAIN n.live = {}
      /\ \A o \in DOMAIN n.pending : IsOrder(n.pending[o])
      /\ \A o \in DOMAIN n.live : IsOrder(n.live[o])
  BY DEF Agrees, Without
<1> QED BY <1>2, <1>3, <1>4 DEF Agrees

\* All the orders of a product may end at once.
LEMMA AgreesEmptied ==
  ASSUME NEW m, Agrees(m)
  PROVE  /\ Agrees(Emptied(m)) /\ Held(Emptied(m)) = {}
         /\ DOMAIN Emptied(m).pending = {} /\ DOMAIN Emptied(m).live = {}
         /\ Emptied(m).segment = m.segment /\ Emptied(m).seen = m.seen
<1> DEFINE rejected == [m EXCEPT !.pending = Without(@, DOMAIN m.pending), !.risk = Rejected(@, DOMAIN m.pending)]
           after == Cancelled(rejected.risk, DOMAIN m.live)
           n == Emptied(m)
<1>1. IsRuntime(m)
  BY DEF Agrees
<1>2. /\ IsRuntime(rejected) /\ rejected.pending = Without(m.pending, DOMAIN m.pending)
      /\ rejected.live = m.live /\ rejected.risk = Rejected(m.risk, DOMAIN m.pending)
  BY <1>1 DEF IsRuntime
<1>3. Agrees(rejected)
  BY <1>2, AgreesRejected
<1> HIDE DEF rejected
<1>4. n = [m EXCEPT !.pending = NoOrders, !.live = NoOrders, !.risk = after]
  BY <1>2 DEF Emptied
<1>5. /\ AtRest(after) /\ after.live = Without(rejected.risk.live, DOMAIN m.live)
      /\ after.pending = rejected.risk.pending
  BY <1>3, CancelledAtRest DEF Agrees
<1>6. DOMAIN after.live = {} /\ DOMAIN after.pending = {}
  <2>1. DOMAIN rejected.pending = {}
    BY <1>2 DEF Without
  <2>2. DOMAIN rejected.risk.live = DOMAIN m.live /\ DOMAIN rejected.risk.pending = {}
    BY <1>2, <1>3, <2>1 DEF Agrees, Mirrors
  <2>3. DOMAIN Without(rejected.risk.live, DOMAIN m.live) = {}
    BY <2>2 DEF Without
  <2> QED BY <1>5, <2>2, <2>3
<1> HIDE DEF after, n
<1>7. /\ IsRuntime(n) /\ n.pending = NoOrders /\ n.live = NoOrders /\ n.risk = after
      /\ n.segment = m.segment /\ n.seen = m.seen
  BY <1>1, <1>4 DEF IsRuntime
<1>8. DOMAIN NoOrders = {}
  BY DEF NoOrders
<1>9. Agrees(n)
  BY <1>5, <1>6, <1>7, <1>8 DEF Agrees, Mirrors
<1> QED BY <1>7, <1>8, <1>9 DEF n, Held

\* An order that turns out to be live moves from one map to the other.
LEMMA AgreesAcknowledged ==
  ASSUME NEW m, Agrees(m), NEW o \in DOMAIN m.pending, NEW n, IsRuntime(n),
         n.pending = Without(m.pending, {o}), n.live = With(m.live, o, m.pending[o]),
         n.risk = Acknowledged(m.risk, o, m.pending[o].side, m.pending[o].remaining)
  PROVE  Agrees(n)
<1> DEFINE d == m.pending[o]
           h == [id |-> o, side |-> d.side, quantity |-> d.remaining]
<1>1. /\ AtRest(m.risk) /\ o \in DOMAIN m.risk.pending /\ o \notin DOMAIN m.risk.live
      /\ d.side = m.risk.pending[o].side /\ d.remaining = m.risk.pending[o].quantity
      /\ Mirrors(m.pending, m.risk.pending) /\ Mirrors(m.live, m.risk.live)
  BY DEF Agrees, Mirrors
<1>2. AtRest(n.risk) /\ n.risk.pending = Without(m.risk.pending, {o}) /\ n.risk.live = With(m.risk.live, o, h)
  BY <1>1, AcknowledgedAtRest
<1>3. d.side = h.side /\ d.remaining = h.quantity
  OBVIOUS
<1>4. Mirrors(n.pending, n.risk.pending)
  BY <1>1, <1>2, MirrorsWithout
<1> HIDE DEF h
<1>5. Mirrors(n.live, n.risk.live)
  BY <1>1, <1>2, <1>3, MirrorsWith
<1>6. /\ DOMAIN n.pending \cap DOMAIN n.live = {}
      /\ \A c \in DOMAIN n.pending : IsOrder(n.pending[c])
  BY DEF Agrees, Without, With
<1>7. \A c \in DOMAIN n.live : IsOrder(n.live[c])
  BY DEF Agrees, With
<1> QED BY <1>2, <1>4, <1>5, <1>6, <1>7 DEF Agrees

\* What is left of a live order after a fill is the same on both sides.
LEMMA AgreesFilled ==
  ASSUME NEW m, Agrees(m), NEW o \in DOMAIN m.live, NEW q \in Nat \ {0}, q <= m.live[o].remaining,
         NEW n, IsRuntime(n), n.pending = m.pending,
         n.live = IF m.live[o].remaining - q = 0 THEN Without(m.live, {o})
                  ELSE [m.live EXCEPT ![o].remaining = m.live[o].remaining - q],
         n.risk = Filled(m.risk, o, m.live[o].side, q)
  PROVE  Agrees(n)
<1> DEFINE d == m.live[o]
           h == m.risk.live[o]
<1>1. /\ AtRest(m.risk) /\ o \in DOMAIN m.risk.live /\ d.side = h.side /\ d.remaining = h.quantity
      /\ Mirrors(m.pending, m.risk.pending) /\ Mirrors(m.live, m.risk.live)
      /\ IsOrder(d) /\ IsLiveOrder(h)
  BY DEF Agrees, Mirrors, AtRest
<1>2. d.remaining \in Nat
  BY <1>1 DEF IsOrder
<1>3. AtRest(n.risk) /\ n.risk.pending = m.risk.pending /\ n.risk.live = AfterFill(m.risk.live, o, q)
  BY <1>1, <1>2, FilledAtRest
<1>4. CASE d.remaining = q
  <2>1. n.live = Without(m.live, {o}) /\ n.risk.live = Without(m.risk.live, {o})
    BY <1>1, <1>2, <1>3, <1>4 DEF AfterFill
  <2>2. Mirrors(n.live, n.risk.live)
    BY <1>1, <2>1, MirrorsWithout
  <2>3. /\ DOMAIN n.pending \cap DOMAIN n.live = {}
        /\ \A c \in DOMAIN n.pending : IsOrder(n.pending[c])
        /\ \A c \in DOMAIN n.live : IsOrder(n.live[c])
    BY <2>1 DEF Agrees, Without
  <2> QED BY <1>1, <1>3, <2>2, <2>3 DEF Agrees
<1>5. CASE d.remaining # q
  <2> DEFINE less == [d EXCEPT !.remaining = d.remaining - q]
             lower == [h EXCEPT !.quantity = h.quantity - q]
  <2>1. n.live = [m.live EXCEPT ![o] = less] /\ n.risk.live = [m.risk.live EXCEPT ![o] = lower]
    BY <1>1, <1>2, <1>3, <1>5 DEF AfterFill
  <2>2. less.side = d.side /\ less.remaining = d.remaining - q /\ DOMAIN less = DOMAIN d
    BY <1>1 DEF IsOrder
  <2>3. lower.side = h.side /\ lower.quantity = h.quantity - q
    BY <1>1 DEF IsLiveOrder
  <2>4. IsOrder(less)
    BY <1>1, <1>2, <1>5, <2>2 DEF IsOrder
  <2> HIDE DEF less, lower
  <2>5. Mirrors(n.live, n.risk.live)
    <3>1. /\ DOMAIN n.live = DOMAIN m.live /\ n.live[o] = less
          /\ \A c \in DOMAIN m.live \ {o} : n.live[c] = m.live[c]
      BY <2>1
    <3>2. /\ DOMAIN n.risk.live = DOMAIN m.risk.live /\ n.risk.live[o] = lower
          /\ \A c \in DOMAIN m.risk.live \ {o} : n.risk.live[c] = m.risk.live[c]
      BY <1>1, <2>1
    <3>3. less.side = lower.side /\ less.remaining = lower.quantity
      BY <1>1, <2>2, <2>3
    <3>4. Mirrors(m.live, m.risk.live)
      BY <1>1
    <3>5. DOMAIN n.live = DOMAIN n.risk.live
      BY <3>1, <3>2, <3>4, Zenon DEF Mirrors
    <3>6. ASSUME NEW c \in DOMAIN n.live
          PROVE  n.live[c].side = n.risk.live[c].side /\ n.live[c].remaining = n.risk.live[c].quantity
      <4>1. CASE c = o
        BY <3>1, <3>2, <3>3, <4>1, Zenon
      <4>2. CASE c # o
        <5>1. c \in DOMAIN m.live \ {o} /\ c \in DOMAIN m.risk.live \ {o}
          BY <3>1, <3>4, <4>2, Zenon DEF Mirrors
        <5>2. m.live[c].side = m.risk.live[c].side /\ m.live[c].remaining = m.risk.live[c].quantity
          BY <3>4, <5>1, Zenon DEF Mirrors
        <5> QED BY <3>1, <3>2, <5>1, <5>2, Zenon
      <4> QED BY <4>1, <4>2
    <3> QED BY <3>5, <3>6 DEF Mirrors
  <2>6. /\ DOMAIN n.pending \cap DOMAIN n.live = {}
        /\ \A c \in DOMAIN n.pending : IsOrder(n.pending[c])
        /\ \A c \in DOMAIN n.live : IsOrder(n.live[c])
    BY <2>1, <2>4 DEF Agrees
  <2> QED BY <1>1, <1>3, <2>5, <2>6 DEF Agrees
<1> QED BY <1>4, <1>5

\* An approved order is held by both, under a number neither of them knew.
LEMMA AgreesApproved ==
  ASSUME NEW m, Agrees(m), NEW o \in OrderIds, o \notin Held(m), NEW d, IsOrder(d), NEW n, IsRuntime(n),
         n.pending = With(m.pending, o, d), n.live = m.live,
         n.risk = Approved(m.risk, o, d.side, d.remaining)
  PROVE  Agrees(n)
<1> DEFINE h == [id |-> o, side |-> d.side, quantity |-> d.remaining, post_only |-> TRUE, ingress |-> 0]
<1>1. /\ AtRest(m.risk) /\ Mirrors(m.pending, m.risk.pending) /\ Mirrors(m.live, m.risk.live)
  BY DEF Agrees
<1>2. AtRest(n.risk) /\ n.risk.live = m.risk.live /\ n.risk.pending = With(m.risk.pending, o, h)
  BY <1>1, ApprovedAtRest
<1>3. d.side = h.side /\ d.remaining = h.quantity
  OBVIOUS
<1> HIDE DEF h
<1>4. Mirrors(n.pending, n.risk.pending) /\ Mirrors(n.live, n.risk.live)
  BY <1>1, <1>2, <1>3, MirrorsWith
<1>5. /\ DOMAIN n.pending \cap DOMAIN n.live = {}
      /\ \A c \in DOMAIN n.pending : IsOrder(n.pending[c])
      /\ \A c \in DOMAIN n.live : IsOrder(n.live[c])
  BY DEF Agrees, Held, With
<1> QED BY <1>2, <1>4, <1>5 DEF Agrees

-----------------------------------------------------------------------------
(* 3. The invariant. *)

Phases ==
  {"preflight", "refused", "running", "writing", "output", "telemetry", "closing", "done", "raised"}

\* The kinds of action that another action pushes.
Derived == {"fill", "decision", "command", "risk", "ack", "cancel"}

ActionFields == {"kind", "time", "causal", "ordinal", "order", "side", "price", "quantity", "fraction", "reason"}

\* An action names a record of the right kind and a number already given out.
ActionOk(a) ==
  /\ DOMAIN a = ActionFields
  /\ a.kind \in Derived \union {"segment", "feature", "trade"}
  /\ a.time \in Nat /\ a.causal \in DOMAIN input
  /\ a.ordinal \in 1..pushed
  /\ a.order \in Nat /\ a.order < nextId /\ a.quantity \in Nat
  /\ a.kind = "segment" => IsBoundary(input[a.causal])
  /\ a.kind # "segment" => IsMarketEvent(input[a.causal])
  /\ a.kind = "trade" => a.causal \in Trades

EntryRecord ==
  [quantity : Nat, admitted : BOOLEAN, acks : Nat, filled : Nat, endings : Nat, expires : Nat, causal : Nat]

Types ==
  /\ input \in Inputs /\ plan \in Plans /\ phase \in Phases
  /\ nextId \in 1..(MaxOrders + 1) /\ pushed \in Nat
  /\ IsFiniteSet(heap) /\ \A a \in heap : ActionOk(a)
  /\ DOMAIN product = Tickers
  /\ ledger \in [OrderIds -> EntryRecord]
  /\ traded \in [DOMAIN input -> Nat]
  /\ disk \in [output : {"absent", "partial", "final"}, telemetry : {"absent", "partial", "final"}]

\* An order is asked of the oracle once, under a number of its own; what a
\* product holds was approved.
Asked ==
  /\ \A a \in heap : a.kind = "risk" =>
       /\ a.order \in OrderIds /\ a.quantity = Quantity
       /\ ~ledger[a.order].admitted
       /\ \A b \in heap : b.kind = "risk" /\ b.order = a.order => b = a
  /\ \A t \in Tickers : \A o \in Held(product[t]) : o \in OrderIds /\ o < nextId /\ ledger[o].admitted
  /\ \A o \in OrderIds : o >= nextId => ledger[o] = Entry

AgreeInv == Types /\ Asked /\ \A t \in Tickers : Agrees(product[t])

\* The records of one order.
Untouched(e) == e.acks = 0 /\ e.filled = 0 /\ e.endings = 0
Closed(e) == e.endings + (IF e.filled = e.quantity THEN 1 ELSE 0) = 1

\* What is left of an order a product holds.
RemainingOf(m, o) == IF o \in DOMAIN m.pending THEN m.pending[o].remaining ELSE m.live[o].remaining

\* A held order is held by one product, is not ended, and what it was filled
\* and what is left of it are what was asked; an approved one that is no
\* longer held ended once.
Accounted ==
  /\ \A o \in OrderIds : o < nextId => ledger[o].quantity = Quantity /\ ledger[o].filled <= Quantity
  /\ \A o \in OrderIds : ~ledger[o].admitted => Untouched(ledger[o])
  /\ \A t \in Tickers : \A o \in Held(product[t]) :
       ledger[o].endings = 0 /\ ledger[o].filled + RemainingOf(product[t], o) = Quantity
  /\ \A t, u \in Tickers : \A o \in Held(product[t]) : o \in Held(product[u]) => t = u
  /\ \A o \in OrderIds : ledger[o].admitted /\ (\A t \in Tickers : o \notin Held(product[t])) => Closed(ledger[o])

\* A boundary that is still to come opens a segment nothing is in yet; and an
\* order is held, or an action of the current segment waits, only after a row
\* of the segment was seen.
Opened ==
  /\ \A a \in heap : a.kind = "segment" =>
       /\ product[Market(a)].segment # Row(a).segment
       /\ \A b \in heap : b.kind \in Derived => ~SameBook(Row(a), Row(b))
       /\ \A b \in heap : b.kind = "segment" /\ b.causal = a.causal => b = a
  /\ \A b \in heap : b.kind \in Derived /\ InSegment(b) => Mine(b).seen
  /\ \A t \in Tickers : product[t].seen \/ Held(product[t]) = {}

\* The fills of one trade that are still on their way, lot by lot.
Coming(h, i) == {lot \in h \X (1..Quantity) : lot[1].kind = "fill" /\ lot[1].causal = i /\ lot[2] <= lot[1].quantity}

Spent ==
  /\ \A i \in DOMAIN input : traded[i] + Cardinality(Coming(heap, i)) <= input[i].quantity
  /\ \A a \in heap : a.kind = "trade" =>
       /\ traded[a.causal] = 0
       /\ \A b \in heap : b.kind = "fill" => b.causal # a.causal
       /\ \A b \in heap : b.kind = "trade" /\ b.causal = a.causal => b = a
  /\ \A a \in heap : a.kind = "fill" => a.quantity <= Quantity

\* Before the loop nothing has happened.
Unstarted ==
  phase = "preflight" =>
    /\ heap = {} /\ product = [t \in Tickers |-> Runtime]
    /\ \A i \in DOMAIN input : traded[i] = 0

OrdersInv == AgreeInv /\ Accounted /\ Opened /\ Spent /\ Unstarted

\* Every boundary waits at its own time, or its product is in a segment.
Begun ==
  /\ \A t \in Tickers : product[t].segment \in Segments(t) \union {None}
  /\ phase \notin {"preflight", "refused"} =>
       /\ Preflight(input)
       /\ \A i \in DOMAIN input : IsBoundary(input[i]) =>
            \/ product[input[i].ticker].segment # None
            \/ \E a \in heap : a.kind = "segment" /\ a.causal = i /\ a.time = input[i].time
  /\ \A a \in heap : a.kind \in {"feature", "trade"} => a.time >= input[a.causal].time

Late == {"writing", "output", "telemetry", "closing", "done"}
Whole == NothingLeft /\ \A t \in Tickers : Held(product[t]) = {}

Published ==
  /\ phase \in Late \/ disk.output = "final" => Whole
  /\ phase \in {"preflight", "refused", "running"} => disk.output # "final" /\ disk.telemetry = "absent"
  /\ phase = "raised" => disk.output # "partial" /\ disk.telemetry # "partial"
  /\ phase = "raised" /\ ~faulty => MayRaise

\* A command is for a quote of its row, a fraction of a fill comes from its trade.
Exact ==
  \A a \in heap :
    /\ a.kind = "command" => Quotable(Row(a), Policy(a).spread) /\ a.price \in {Row(a).bid, Row(a).ask}
    /\ a.kind = "fill" /\ a.fraction => FractionalTrade(a.causal)

OutcomeInv == AgreeInv /\ Begun /\ Exact /\ Published

-----------------------------------------------------------------------------
(* 4. What a round pushes. *)

\* A set listed once by another has as many elements.
LEMMA Listed ==
  ASSUME NEW S, IsFiniteSet(S), NEW T, NEW f \in [S -> T],
         \A x, y \in S : f[x] = f[y] => x = y, \A z \in T : \E x \in S : f[x] = z
  PROVE  IsFiniteSet(T) /\ Cardinality(T) = Cardinality(S)
<1>1. f \in Bijection(S, T)
  BY DEF Bijection, Injection, Surjection, IsInjective
<1>2. ExistsBijection(S, T)
  BY <1>1 DEF ExistsBijection
<1> QED BY <1>2, FS_Bijection

\* The place of a number in a finite set of numbers.
LEMMA PlaceBounds ==
  ASSUME NEW ids, IsFiniteSet(ids), ids \subseteq Nat, NEW o \in ids
  PROVE  Place(o, ids) \in 1..Cardinality(ids)
<1> DEFINE upTo == {p \in ids : p <= o}
<1>1. IsFiniteSet(upTo) /\ Cardinality(upTo) <= Cardinality(ids)
  <2>1. upTo \in SUBSET ids
    OBVIOUS
  <2> QED BY <2>1, FS_Subset
<1>2. o \in upTo
  OBVIOUS
<1> HIDE DEF upTo
<1>3. Cardinality(upTo) # 0
  BY <1>1, <1>2, FS_EmptySet
<1>4. Cardinality(upTo) \in Nat /\ Cardinality(ids) \in Nat
  BY <1>1, FS_CardinalityType
<1>5. Place(o, ids) = Cardinality(upTo)
  BY DEF Place, upTo
<1> QED BY <1>1, <1>3, <1>4, <1>5

\* An action b that taking action a pushes, but for its ordinal.
Spawned(a, b) ==
  /\ DOMAIN b = ActionFields /\ b.kind \in Derived
  /\ b.time \in Nat /\ b.causal = a.causal /\ b.order \in Nat /\ b.quantity \in Nat
  /\ InSegment(a)
  /\ \/ a.kind \in Derived \union {"feature"}
     \/ a.kind = "trade" /\ Held(Mine(a)) # {}
  /\ b.kind = "fill" => a.kind = "trade" /\ (b.fraction => FractionalTrade(a.causal))
  /\ b.kind = "command" => Quotable(Row(a), Policy(a).spread) /\ b.price \in {Row(a).bid, Row(a).ask}
  /\ b.kind = "risk" => /\ a.kind = "command" /\ Command(a)
                        /\ b.order = nextId /\ nextId \in OrderIds /\ b.quantity = Quantity
  /\ b.kind # "risk" => b.order < nextId

\* The rounds that end the run.
Raises(a) == CrossesSegment(a) \/ FractionalFill(a) \/ InexactCommand(a)

\* The heap after action a was popped and N pushed.
PushedIs(a, N) ==
  /\ IsFiniteSet(N)
  /\ heap' = (heap \ {a}) \union Pushed(N, pushed)
  /\ pushed' = pushed + Cardinality(N)
  /\ \A b \in N : Spawned(a, b) /\ b.ordinal \in 1..Cardinality(N)
  /\ \A b, c \in N : b.kind = "risk" /\ c.kind = "risk" => b = c

LEMMA SpawnedOther ==
  ASSUME NEW a, a.kind \in Derived \union {"feature"}, InSegment(a),
         NEW b, DOMAIN b = ActionFields, b.kind \in Derived \ {"fill", "command", "risk"},
         b.time \in Nat, b.causal = a.causal, b.order \in Nat, b.order < nextId, b.quantity \in Nat
  PROVE  Spawned(a, b)
BY DEF Spawned

LEMMA PushedNothing ==
  ASSUME NEW a, Push(a, {})
  PROVE  PushedIs(a, {})
BY FS_EmptySet DEF Push, PushedIs

LEMMA PushedOne ==
  ASSUME NEW a, NEW b, Push(a, {b}), Spawned(a, b), b.ordinal = 1
  PROVE  PushedIs(a, {b})
<1>1. IsFiniteSet({b}) /\ Cardinality({b}) = 1
  BY FS_Singleton
<1> QED BY <1>1 DEF Push, PushedIs

\* What the record of an action says of its product, and what is declared.
LEMMA PolicyIs ==
  ASSUME Types, NEW a, a.causal \in DOMAIN input
  PROVE  /\ Market(a) \in Tickers /\ Row(a).time \in Nat /\ Row(a).quantity \in Nat /\ Row(a).segment # None
         /\ Policy(a).marketData \in Nat /\ Policy(a).decision \in Nat /\ Policy(a).order \in Nat
         /\ Policy(a).acknowledgement \in Nat /\ Policy(a).fill \in Nat /\ Policy(a).cancellation \in Nat
         /\ Policy(a).lifetime \in Nat /\ Policy(a).interval \in Nat
<1>1. input \in Inputs /\ plan \in Plans
  BY DEF Types
<1>2. Market(a) \in Tickers /\ Row(a).time \in Nat /\ Row(a).quantity \in Nat /\ Row(a).segment # None
  BY <1>1, InputsAssumption DEF Row, Market
<1>3. /\ {Policy(a).marketData, Policy(a).decision, Policy(a).order, Policy(a).acknowledgement, Policy(a).fill,
          Policy(a).cancellation} \subseteq Nat
      /\ {Policy(a).interval, Policy(a).lifetime} \subseteq Nat \ {0}
  BY <1>1, <1>2, ConfigurationAssumption DEF Policy
<1> QED BY <1>2, <1>3

\* The orders of a product are finitely many numbers already given out.
LEMMA HeldIs ==
  ASSUME AgreeInv, NEW t \in Tickers
  PROVE  LET m == product[t]
         IN /\ Agrees(m)
            /\ Held(m) \subseteq OrderIds /\ Held(m) \subseteq Nat /\ \A o \in Held(m) : o < nextId
            /\ IsFiniteSet(Held(m)) /\ IsFiniteSet(DOMAIN m.pending) /\ IsFiniteSet(DOMAIN m.live)
            /\ DOMAIN m.pending \subseteq Held(m) /\ DOMAIN m.live \subseteq Held(m)
            /\ \A o \in DOMAIN m.live : m.live[o].remaining \in Nat \ {0}
            /\ \A o \in DOMAIN m.pending : m.pending[o].remaining \in Nat \ {0}
<1> DEFINE m == product[t]
<1>1. Agrees(m)
  BY DEF AgreeInv
<1>2. Held(m) \subseteq OrderIds /\ \A o \in Held(m) : o < nextId
  BY DEF AgreeInv, Asked
<1>3. OrderIds \subseteq Nat /\ IsFiniteSet(OrderIds)
  BY ConfigurationAssumption, FS_Interval DEF OrderIds
<1>4. DOMAIN m.pending \subseteq Held(m) /\ DOMAIN m.live \subseteq Held(m)
  BY DEF Held
<1>5. IsFiniteSet(Held(m)) /\ IsFiniteSet(DOMAIN m.pending) /\ IsFiniteSet(DOMAIN m.live)
  BY <1>2, <1>3, <1>4, FS_Subset
<1>6. /\ \A o \in DOMAIN m.live : m.live[o].remaining \in Nat \ {0}
      /\ \A o \in DOMAIN m.pending : m.pending[o].remaining \in Nat \ {0}
  BY <1>1 DEF Agrees, IsOrder
<1> QED BY <1>1, <1>2, <1>3, <1>4, <1>5, <1>6

LEMMA FeaturePushes ==
  ASSUME AgreeInv, NEW a \in heap, Feature(a)
  PROVE  \E N : PushedIs(a, N)
<1> DEFINE b == Action("decision", a.time + Policy(a).decision, a.causal)
<1>1. Push(a, {}) \/ Push(a, {b})
  BY DEF Feature
<1>2. a.kind = "feature" /\ InSegment(a) /\ ActionOk(a) /\ 1 <= nextId
  BY DEF Feature, Pop, AgreeInv, Types
<1>3. Policy(a).decision \in Nat
  BY <1>2, PolicyIs DEF AgreeInv, ActionOk
<1>4. /\ DOMAIN b = ActionFields /\ b.kind = "decision" /\ b.time = a.time + Policy(a).decision /\ b.causal = a.causal
      /\ b.order = 0 /\ b.quantity = 0 /\ b.ordinal = 1
  BY DEF Action, ActionFields
<1>5. b.time \in Nat /\ b.order \in Nat /\ b.order < nextId /\ b.quantity \in Nat
  BY <1>2, <1>3, <1>4, ConfigurationAssumption DEF ActionOk, AgreeInv, Types
<1> HIDE DEF b
<1>6. a.kind \in Derived \union {"feature"} /\ b.kind \in Derived \ {"fill", "command", "risk"}
  BY <1>2, <1>4 DEF Derived
<1>7. Spawned(a, b)
  BY <1>2, <1>4, <1>5, <1>6, SpawnedOther
<1> QED BY <1>1, <1>4, <1>7, PushedNothing, PushedOne

LEMMA CommandPushes ==
  ASSUME AgreeInv, NEW a \in heap, Command(a)
  PROVE  \E N : PushedIs(a, N)
<1> DEFINE b == [Action("risk", a.time, a.causal) EXCEPT
                   !.order = nextId, !.side = a.side, !.price = a.price, !.quantity = Quantity]
<1>1. Push(a, {b})
  BY DEF Command
<1>2. a.kind = "command" /\ InSegment(a) /\ ActionOk(a) /\ nextId \in OrderIds /\ nextId \in Nat
  BY DEF Command, Pop, AgreeInv, Types
<1>4. /\ DOMAIN b = ActionFields /\ b.kind = "risk" /\ b.time = a.time /\ b.causal = a.causal
      /\ b.order = nextId /\ b.quantity = Quantity /\ b.ordinal = 1
  BY DEF Action, ActionFields
<1>5. b.time \in Nat /\ b.order \in Nat /\ b.quantity \in Nat
  BY <1>2, <1>4, ConfigurationAssumption DEF ActionOk
<1> HIDE DEF b
<1>6. Spawned(a, b)
  BY <1>2, <1>4, <1>5 DEF Spawned, Derived
<1> QED BY <1>1, <1>4, <1>6, PushedOne

LEMMA RiskPushes ==
  ASSUME AgreeInv, NEW a \in heap, Risk(a)
  PROVE  \E N : PushedIs(a, N)
<1> DEFINE b == [Action("ack", a.time + Policy(a).acknowledgement, a.causal) EXCEPT !.order = a.order]
<1>1. Push(a, {}) \/ Push(a, {b})
  BY DEF Risk
<1>2. a.kind = "risk" /\ InSegment(a) /\ ActionOk(a)
  BY DEF Risk, Pop, AgreeInv, Types
<1>3. Policy(a).acknowledgement \in Nat
  BY <1>2, PolicyIs DEF AgreeInv, ActionOk
<1>4. /\ DOMAIN b = ActionFields /\ b.kind = "ack" /\ b.time = a.time + Policy(a).acknowledgement /\ b.causal = a.causal
      /\ b.order = a.order /\ b.quantity = 0 /\ b.ordinal = 1
  BY DEF Action, ActionFields
<1>5. b.time \in Nat /\ b.order \in Nat /\ b.order < nextId /\ b.quantity \in Nat
  BY <1>2, <1>3, <1>4 DEF ActionOk
<1> HIDE DEF b
<1>6. a.kind \in Derived \union {"feature"} /\ b.kind \in Derived \ {"fill", "command", "risk"}
  BY <1>2, <1>4 DEF Derived
<1>7. Spawned(a, b)
  BY <1>2, <1>4, <1>5, <1>6, SpawnedOther
<1> QED BY <1>1, <1>4, <1>7, PushedNothing, PushedOne

LEMMA AckPushes ==
  ASSUME AgreeInv, NEW a \in heap, Ack(a)
  PROVE  \E N : PushedIs(a, N)
<1> DEFINE b == [Action("cancel", a.time + Policy(a).lifetime, a.causal) EXCEPT
                   !.order = a.order, !.reason = "logical_expiry"]
<1>1. Push(a, {}) \/ Push(a, {b})
  BY DEF Ack
<1>2. a.kind = "ack" /\ InSegment(a) /\ ActionOk(a)
  BY DEF Ack, Pop, AgreeInv, Types
<1>3. Policy(a).lifetime \in Nat
  BY <1>2, PolicyIs DEF AgreeInv, ActionOk
<1>4. /\ DOMAIN b = ActionFields /\ b.kind = "cancel" /\ b.time = a.time + Policy(a).lifetime /\ b.causal = a.causal
      /\ b.order = a.order /\ b.quantity = 0 /\ b.ordinal = 1
  BY DEF Action, ActionFields
<1>5. b.time \in Nat /\ b.order \in Nat /\ b.order < nextId /\ b.quantity \in Nat
  BY <1>2, <1>3, <1>4 DEF ActionOk
<1> HIDE DEF b
<1>6. a.kind \in Derived \union {"feature"} /\ b.kind \in Derived \ {"fill", "command", "risk"}
  BY <1>2, <1>4 DEF Derived
<1>7. Spawned(a, b)
  BY <1>2, <1>4, <1>5, <1>6, SpawnedOther
<1> QED BY <1>1, <1>4, <1>7, PushedNothing, PushedOne

\* What the orders before o take of a trade is a number of lots.
LEMMA AheadIsFinite ==
  ASSUME NEW live, NEW ids, IsFiniteSet(ids), NEW o
  PROVE  IsFiniteSet(Ahead(live, ids, o)) /\ Cardinality(Ahead(live, ids, o)) \in Nat
<1>0. IsFiniteSet(1..Quantity)
  BY ConfigurationAssumption, FS_Interval
<1>1. IsFiniteSet(ids \X (1..Quantity))
  BY <1>0, FS_Product
<1>2. Ahead(live, ids, o) \in SUBSET (ids \X (1..Quantity))
  BY DEF Ahead
<1> QED BY <1>1, <1>2, FS_Subset, FS_CardinalityType

\* The orders a trade touches, what is left for each, and those it serves.
Touched(live, price) == {o \in DOMAIN live : Touches(live[o], price)}
Left(live, price, quantity, o) == quantity - Cardinality(Ahead(live, Touched(live, price), o))
Served(live, price, quantity, fraction) ==
  {o \in Touched(live, price) :
     Left(live, price, quantity, o) > 0 \/ (fraction /\ Left(live, price, quantity, o) = 0)}
FillOf(live, price, quantity, fraction, time, causal) ==
  [o \in Served(live, price, quantity, fraction) |->
     [Action("fill", time, causal) EXCEPT
        !.ordinal = Place(o, Served(live, price, quantity, fraction)), !.order = o,
        !.quantity = Smallest(live[o].remaining, Left(live, price, quantity, o)),
        !.fraction = fraction /\ Left(live, price, quantity, o) < live[o].remaining]]

LEMMA FillsListed ==
  ASSUME NEW live, NEW price, NEW quantity, NEW fraction, NEW time, NEW causal
  PROVE  LET f == FillOf(live, price, quantity, fraction, time, causal)
         IN Fills(live, price, quantity, fraction, time, causal) = {f[o] : o \in Served(live, price, quantity, fraction)}
BY DEF Fills, FillOf, Served, Left, Touched

\* What one order is given of a trade.
ServesWell(live, price, quantity, fraction, time, causal, S, f) ==
  /\ IsFiniteSet(S) /\ S \subseteq DOMAIN live /\ DOMAIN f = S
  /\ \A o \in S :
       /\ DOMAIN f[o] = ActionFields /\ f[o].kind = "fill" /\ f[o].time = time /\ f[o].causal = causal
       /\ f[o].ordinal \in 1..Cardinality(S) /\ f[o].order = o
       /\ f[o].quantity \in Nat /\ (f[o].fraction => fraction)
       /\ f[o].quantity <= live[o].remaining /\ f[o].quantity <= Left(live, price, quantity, o)

LEMMA FillOfIs ==
  ASSUME NEW live, IsFiniteSet(DOMAIN live), DOMAIN live \subseteq Nat,
         \A o \in DOMAIN live : live[o].remaining \in Nat \ {0},
         NEW price, NEW quantity \in Nat, NEW fraction, NEW time, NEW causal
  PROVE  ServesWell(live, price, quantity, fraction, time, causal,
                    Served(live, price, quantity, fraction), FillOf(live, price, quantity, fraction, time, causal))
<1> DEFINE S == Served(live, price, quantity, fraction)
           f == FillOf(live, price, quantity, fraction, time, causal)
<1>1. S \subseteq DOMAIN live /\ Touched(live, price) \subseteq DOMAIN live
  BY DEF Served, Touched
<1>2. IsFiniteSet(S) /\ IsFiniteSet(Touched(live, price)) /\ S \subseteq Nat
  BY <1>1, FS_Subset
<1>3. DOMAIN f = S
  BY DEF FillOf
<1>4. ASSUME NEW o \in S
      PROVE  /\ DOMAIN f[o] = ActionFields /\ f[o].kind = "fill" /\ f[o].time = time /\ f[o].causal = causal
             /\ f[o].ordinal = Place(o, S) /\ f[o].order = o
             /\ f[o].quantity = Smallest(live[o].remaining, Left(live, price, quantity, o))
             /\ f[o].fraction => fraction
  BY <1>4 DEF FillOf, Action, ActionFields
<1>5. ASSUME NEW o \in S
      PROVE  LET q == Smallest(live[o].remaining, Left(live, price, quantity, o))
             IN q \in Nat /\ q <= live[o].remaining /\ q <= Left(live, price, quantity, o)
  <2>1. Cardinality(Ahead(live, Touched(live, price), o)) \in Nat
    BY <1>2, AheadIsFinite
  <2>2. Left(live, price, quantity, o) \in Int /\ Left(live, price, quantity, o) >= 0
    BY <2>1 DEF Left, Served
  <2>3. live[o].remaining \in Nat \ {0}
    BY <1>1
  <2> QED BY <2>2, <2>3 DEF Smallest
<1>6. \A o \in S : Place(o, S) \in 1..Cardinality(S)
  BY <1>2, PlaceBounds
<1> HIDE DEF f, S
<1>7. \A o \in S : f[o].quantity \in Nat /\ f[o].quantity <= live[o].remaining
                     /\ f[o].quantity <= Left(live, price, quantity, o)
  BY <1>4, <1>5
<1> QED BY <1>1, <1>2, <1>3, <1>4, <1>6, <1>7 DEF f, S, ServesWell

LEMMA TradePushes ==
  ASSUME AgreeInv, NEW a \in heap, Trade(a)
  PROVE  \E N : PushedIs(a, N)
<1> DEFINE m == Mine(a)
           time == a.time + Policy(a).fill
           S == Served(m.live, Row(a).price, Row(a).quantity, Row(a).fraction)
           f == FillOf(m.live, Row(a).price, Row(a).quantity, Row(a).fraction, time, a.causal)
           N == {f[o] : o \in S}
<1>1. Push(a, {}) \/ (Push(a, N) /\ Policy(a).model = "trade_touch_v1")
  BY FillsListed DEF Trade
<1>2. a.kind = "trade" /\ InSegment(a) /\ ActionOk(a) /\ a.time \in Nat /\ a.causal \in DOMAIN input \cap Trades
  BY DEF Trade, Pop, AgreeInv, Types, ActionOk
<1>3. /\ Policy(a).fill \in Nat /\ Row(a).quantity \in Nat /\ Market(a) \in Tickers
  BY <1>2, PolicyIs DEF AgreeInv
<1>4. /\ IsFiniteSet(DOMAIN m.live) /\ DOMAIN m.live \subseteq Nat /\ DOMAIN m.live \subseteq Held(m)
      /\ \A o \in DOMAIN m.live : m.live[o].remaining \in Nat \ {0} /\ o < nextId
  BY <1>3, HeldIs DEF Mine
<1>5. ServesWell(m.live, Row(a).price, Row(a).quantity, Row(a).fraction, time, a.causal, S, f)
  BY <1>3, <1>4, FillOfIs, Zenon
<1>6. time \in Nat
  BY <1>2, <1>3
<1> HIDE DEF S, f, time, m
<1>7. f \in [S -> N]
  <2>1. f = [o \in S |-> f[o]]
    BY DEF f, FillOf, S
  <2> QED BY <2>1
<1>8. /\ IsFiniteSet(S) /\ S \subseteq DOMAIN m.live
       /\ \A o \in S :
            /\ DOMAIN f[o] = ActionFields /\ f[o].kind = "fill" /\ f[o].time = time /\ f[o].causal = a.causal
            /\ f[o].ordinal \in 1..Cardinality(S) /\ f[o].order = o
            /\ f[o].quantity \in Nat /\ (f[o].fraction => Row(a).fraction)
  BY <1>5 DEF ServesWell
<1>9. IsFiniteSet(N) /\ Cardinality(N) = Cardinality(S)
  <2>1. \A x, y \in S : f[x] = f[y] => x = y
    BY <1>8
  <2>2. \A z \in N : \E x \in S : f[x] = z
    OBVIOUS
  <2> HIDE DEF N
  <2> QED BY <1>8, <1>7, <2>1, <2>2, Listed
<1>10. ASSUME NEW o \in S, Policy(a).model = "trade_touch_v1"
      PROVE  Spawned(a, f[o])
  <2>1. o \in Nat /\ o < nextId /\ Held(m) # {}
    BY <1>4, <1>8
  <2>2. f[o].quantity \in Nat
    BY <1>8
  <2>3. f[o].fraction => FractionalTrade(a.causal)
    BY <1>2, <1>8, <1>10 DEF FractionalTrade, Row, Policy, Market
  <2> QED BY <1>2, <1>8, <1>6, <2>1, <2>2, <2>3 DEF Spawned, Derived, m
<1>11. CASE Push(a, N) /\ Policy(a).model = "trade_touch_v1"
  <2>1. \A b \in N : Spawned(a, b) /\ b.ordinal \in 1..Cardinality(N)
    BY <1>8, <1>9, <1>10, <1>11
  <2>2. \A b \in N : b.kind = "fill"
    BY <1>8
  <2> HIDE DEF N
  <2>3. PushedIs(a, N)
    BY <1>9, <1>11, <2>1, <2>2 DEF PushedIs, Push
  <2> QED BY <2>3
<1> QED BY <1>1, <1>11, PushedNothing

\* The cancellations a decision sends, by order.
PlaceIn(m, o) ==
  IF o \in DOMAIN m.pending THEN Place(o, DOMAIN m.pending)
  ELSE Cardinality(DOMAIN m.pending) + Place(o, DOMAIN m.live)
CancelOf(a) ==
  [o \in Held(Mine(a)) |->
     [Action("cancel", a.time + Policy(a).cancellation, a.causal) EXCEPT
        !.ordinal = PlaceIn(Mine(a), o), !.order = o, !.reason = "quote_replacement"]]
CommandOf(a, nth, side, price) ==
  [Action("command", a.time + Policy(a).order, a.causal) EXCEPT
     !.ordinal = Cardinality(Held(Mine(a))) + nth, !.side = side, !.price = price]

LEMMA DecisionListed ==
  ASSUME NEW a
  PROVE  \/ DecisionActions(a) = {}
         \/ /\ Quotable(Row(a), Policy(a).spread)
            /\ DecisionActions(a) = {CancelOf(a)[o] : o \in Held(Mine(a))} \union
                 {CommandOf(a, 1, "Buy", Row(a).bid), CommandOf(a, 2, "Sell", Row(a).ask)}
BY Zenon DEF DecisionActions, CancelOf, CommandOf, PlaceIn

LEMMA PlaceInBounds ==
  ASSUME AgreeInv, NEW t \in Tickers, NEW o \in Held(product[t])
  PROVE  PlaceIn(product[t], o) \in 1..Cardinality(Held(product[t]))
<1> DEFINE P == DOMAIN product[t].pending
           L == DOMAIN product[t].live
           H == Held(product[t])
<1>1. /\ IsFiniteSet(P) /\ IsFiniteSet(L) /\ P \subseteq Nat /\ L \subseteq Nat /\ H = P \union L
  BY HeldIs DEF Held
<1>2. P \cap L = {}
  BY HeldIs DEF Agrees
<1>3. PlaceIn(product[t], o) = IF o \in P THEN Place(o, P) ELSE Cardinality(P) + Place(o, L)
  BY DEF PlaceIn
<1>4. o \in H
  OBVIOUS
<1> HIDE DEF P, L, H
<1>5. /\ Cardinality(P) \in Nat /\ Cardinality(L) \in Nat /\ Cardinality(P \cap L) = 0
      /\ Cardinality(H) = Cardinality(P) + Cardinality(L) - Cardinality(P \cap L)
  BY <1>1, <1>2, FS_CardinalityType, FS_Union, FS_EmptySet
<1>6. CASE o \in P
  <2>1. Place(o, P) \in 1..Cardinality(P)
    BY <1>1, <1>6, PlaceBounds
  <2> QED BY <1>3, <1>5, <1>6, <2>1 DEF H
<1>7. CASE o \notin P
  <2>1. Place(o, L) \in 1..Cardinality(L)
    BY <1>1, <1>4, <1>7, PlaceBounds
  <2> QED BY <1>3, <1>5, <1>7, <2>1 DEF H
<1> QED BY <1>6, <1>7

LEMMA DecisionPushes ==
  ASSUME AgreeInv, NEW a \in heap, Decision(a)
  PROVE  \E N : PushedIs(a, N)
<1> DEFINE H == Held(Mine(a))
           n == Cardinality(H)
           f == CancelOf(a)
           cancels == {f[o] : o \in H}
           buy == CommandOf(a, 1, "Buy", Row(a).bid)
           sell == CommandOf(a, 2, "Sell", Row(a).ask)
           N == (cancels \union {buy}) \union {sell}
<1>1. Push(a, {}) \/ (Push(a, N) /\ Quotable(Row(a), Policy(a).spread))
  <2>1. N = cancels \union {buy, sell}
    OBVIOUS
  <2> QED BY <2>1, DecisionListed DEF Decision
<1>2. a.kind = "decision" /\ InSegment(a) /\ ActionOk(a) /\ a.time \in Nat /\ a.causal \in DOMAIN input
  BY DEF Decision, Pop, AgreeInv, Types, ActionOk
<1>3. Policy(a).cancellation \in Nat /\ Policy(a).order \in Nat /\ Market(a) \in Tickers
  BY <1>2, PolicyIs DEF AgreeInv
<1>4. IsFiniteSet(H) /\ H \subseteq Nat /\ \A o \in H : o < nextId
  BY <1>3, HeldIs DEF Mine
<1>5. \A o \in H : PlaceIn(Mine(a), o) \in 1..n
  BY <1>3, PlaceInBounds DEF Mine
<1>6. n \in Nat
  BY <1>4, FS_CardinalityType
<1>7. 1 <= nextId
  BY DEF AgreeInv, Types
<1>8. DOMAIN f = H /\ f = [o \in H |-> f[o]]
  BY DEF CancelOf
<1>9. ASSUME NEW o \in H
      PROVE  /\ DOMAIN f[o] = ActionFields /\ f[o].kind = "cancel" /\ f[o].causal = a.causal
             /\ f[o].time = a.time + Policy(a).cancellation
             /\ f[o].ordinal = PlaceIn(Mine(a), o) /\ f[o].order = o /\ f[o].quantity = 0
  BY <1>9 DEF CancelOf, Action, ActionFields
<1>10. /\ DOMAIN buy = ActionFields /\ buy.kind = "command" /\ buy.causal = a.causal
       /\ buy.time = a.time + Policy(a).order /\ buy.ordinal = n + 1 /\ buy.order = 0 /\ buy.quantity = 0
       /\ buy.side = "Buy" /\ buy.price = Row(a).bid
  BY DEF CommandOf, Action, ActionFields
<1>11. /\ DOMAIN sell = ActionFields /\ sell.kind = "command" /\ sell.causal = a.causal
       /\ sell.time = a.time + Policy(a).order /\ sell.ordinal = n + 2 /\ sell.order = 0 /\ sell.quantity = 0
       /\ sell.side = "Sell" /\ sell.price = Row(a).ask
  BY DEF CommandOf, Action, ActionFields
<1> HIDE DEF f, buy, sell, H, n
<1>12. IsFiniteSet(cancels) /\ Cardinality(cancels) = n
  <2>1. f \in [H -> cancels]
    BY <1>8
  <2>2. \A x, y \in H : f[x] = f[y] => x = y
    BY <1>9
  <2>3. \A z \in cancels : \E x \in H : f[x] = z
    OBVIOUS
  <2> HIDE DEF cancels
  <2> QED BY <1>4, <2>1, <2>2, <2>3, Listed DEF n
<1>13. IsFiniteSet(N) /\ Cardinality(N) = n + 2
  <2>1. \A z \in cancels : z.kind = "cancel"
    BY <1>9
  <2>2. buy \notin cancels /\ sell \notin cancels /\ sell # buy
    BY <1>10, <1>11, <2>1
  <2> HIDE DEF cancels
  <2>3. IsFiniteSet(cancels \union {buy}) /\ Cardinality(cancels \union {buy}) = n + 1
    BY <1>12, <2>2, FS_AddElement
  <2>4. sell \notin cancels \union {buy}
    BY <2>2
  <2>5. IsFiniteSet(N) /\ Cardinality(N) = n + 1 + 1
    BY <2>3, <2>4, FS_AddElement
  <2> QED BY <1>6, <2>5
<1>14. ASSUME NEW o \in H
       PROVE  Spawned(a, f[o]) /\ f[o].ordinal \in 1..(n + 2)
  <2>1. f[o].time \in Nat /\ f[o].order \in Nat /\ f[o].order < nextId /\ f[o].quantity \in Nat
    BY <1>2, <1>3, <1>4, <1>9
  <2>2. a.kind \in Derived \union {"feature"} /\ f[o].kind \in Derived \ {"fill", "command", "risk"}
    BY <1>2, <1>9 DEF Derived
  <2>3. Spawned(a, f[o])
    BY <1>2, <1>9, <2>1, <2>2, SpawnedOther
  <2> QED BY <1>5, <1>6, <1>9, <2>3
<1>15. ASSUME NEW b \in {buy, sell}, Quotable(Row(a), Policy(a).spread)
       PROVE  Spawned(a, b) /\ b.ordinal \in 1..(n + 2)
  <2>1. /\ b.time = a.time + Policy(a).order /\ b.order = 0 /\ b.quantity = 0
        /\ b.ordinal = n + 1 \/ b.ordinal = n + 2
    BY <1>10, <1>11
  <2>4. b.time \in Nat /\ b.order \in Nat /\ b.order < nextId /\ b.quantity \in Nat /\ b.ordinal \in 1..(n + 2)
    <3>1. 0 < nextId
      BY <1>7 DEF AgreeInv, Types
    <3> QED BY <1>2, <1>3, <1>6, <2>1, <3>1
  <2>2. a.kind \in Derived \union {"feature"} /\ b.kind \in Derived /\ b.kind = "command"
    BY <1>2, <1>10, <1>11 DEF Derived
  <2>3. DOMAIN b = ActionFields /\ b.causal = a.causal /\ b.price \in {Row(a).bid, Row(a).ask}
    BY <1>10, <1>11
  <2> QED BY <1>2, <1>15, <2>2, <2>3, <2>4 DEF Spawned
<1>16. CASE Push(a, N) /\ Quotable(Row(a), Policy(a).spread)
  <2>1. ASSUME NEW b \in N
        PROVE  Spawned(a, b) /\ b.ordinal \in 1..(n + 2) /\ b.kind # "risk"
    <3>1. CASE b \in cancels
      BY <1>9, <1>14, <3>1
    <3>2. CASE b \in {buy, sell}
      BY <1>10, <1>11, <1>15, <1>16, <3>2
    <3> QED BY <3>1, <3>2
  <2> HIDE DEF N
  <2>2. PushedIs(a, N)
    BY <1>13, <1>16, <2>1 DEF PushedIs, Push
  <2> QED BY <2>2
<1> QED BY <1>1, <1>16, PushedNothing

\* Whatever the round, what is pushed is well formed.
LEMMA RoundPushes ==
  ASSUME AgreeInv, NEW a \in heap, Round(a)
  PROVE  \E N : PushedIs(a, N)
<1>1. CASE Push(a, {})
  BY <1>1, PushedNothing
<1>2. CASE Segment(a) \/ Raises(a) \/ StaleAction(a) \/ Fill(a) \/ Cancel(a)
  BY <1>1, <1>2 DEF Segment, Raises, CrossesSegment, FractionalFill, InexactCommand, Fails,
       StaleAction, Fill, Fillable, Cancel
<1> QED BY <1>2, FeaturePushes, TradePushes, DecisionPushes, CommandPushes, RiskPushes,
     AckPushes DEF Round, Raises

\* The heap after a round: what was there but for the action taken, and
\* actions that it spawned, with new ordinals.
LEMMA HeapAfter ==
  ASSUME AgreeInv, NEW a \in heap, Round(a)
  PROVE  /\ IsFiniteSet(heap') /\ pushed' \in Nat /\ pushed <= pushed'
         /\ \A b \in heap' : b \in heap \ {a} \/ (Spawned(a, b) /\ b.ordinal \in 1..pushed')
         /\ \A b, c \in heap' : b.kind = "risk" /\ c.kind = "risk" /\ b \notin heap /\ c \notin heap => b = c
         /\ heap \ {a} \subseteq heap'
<1>1. PICK N : PushedIs(a, N)
  BY RoundPushes
<1>2. /\ IsFiniteSet(N) /\ heap' = (heap \ {a}) \union Pushed(N, pushed) /\ pushed' = pushed + Cardinality(N)
      /\ \A b \in N : Spawned(a, b) /\ b.ordinal \in 1..Cardinality(N)
      /\ \A b, c \in N : b.kind = "risk" /\ c.kind = "risk" => b = c
  BY <1>1 DEF PushedIs
<1>3. Cardinality(N) \in Nat /\ pushed \in Nat /\ IsFiniteSet(heap)
  BY <1>2, FS_CardinalityType DEF AgreeInv, Types
<1> DEFINE move == [b \in N |-> [b EXCEPT !.ordinal = pushed + b.ordinal]]
           P == Pushed(N, pushed)
<1>4. P = {move[b] : b \in N}
  BY DEF Pushed
<1>5. IsFiniteSet(P)
  <2>1. move \in Surjection(N, P)
    BY <1>4 DEF Surjection
  <2> QED BY <1>2, <2>1, FS_Surjection
<1>6. ASSUME NEW b \in N
      PROVE  /\ Spawned(a, move[b]) /\ move[b].ordinal \in 1..pushed' /\ move[b].kind = b.kind
  <2>1. DOMAIN b = ActionFields
    BY <1>2 DEF Spawned
  <2>2. /\ DOMAIN move[b] = ActionFields /\ move[b].ordinal = pushed + b.ordinal
        /\ move[b].kind = b.kind /\ move[b].time = b.time /\ move[b].causal = b.causal
        /\ move[b].order = b.order /\ move[b].quantity = b.quantity
        /\ move[b].price = b.price /\ move[b].fraction = b.fraction
    BY <2>1 DEF ActionFields
  <2> HIDE DEF move
  <2>3. Spawned(a, move[b])
    BY <1>2, <2>2, Zenon DEF Spawned
  <2>4. move[b].ordinal \in 1..pushed'
    BY <1>2, <1>3, <2>2
  <2> QED BY <2>2, <2>3, <2>4
<1>7. IsFiniteSet(heap \ {a})
  BY <1>3, FS_RemoveElement
<1>8. IsFiniteSet(heap')
  BY <1>2, <1>5, <1>7, FS_Union
<1> HIDE DEF P, move
<1>9. \A b \in heap' : b \in heap \ {a} \/ (Spawned(a, b) /\ b.ordinal \in 1..pushed')
  BY <1>2, <1>4, <1>6 DEF P
<1>10. \A b, c \in heap' : b.kind = "risk" /\ c.kind = "risk" /\ b \notin heap /\ c \notin heap => b = c
  BY <1>2, <1>4, <1>6 DEF P
<1>11. pushed' \in Nat /\ pushed <= pushed'
  BY <1>2, <1>3
<1> QED BY <1>2, <1>8, <1>9, <1>10, <1>11

-----------------------------------------------------------------------------
(* 5. What a round does to the products and to the ledger. *)

Disks == [output : {"absent", "partial", "final"}, telemetry : {"absent", "partial", "final"}]

\* Nobody but the order of a risk action is approved, or held, anew.
Moves(a) ==
  /\ input' = input /\ plan' = plan
  /\ nextId' \in 1..(MaxOrders + 1) /\ nextId <= nextId'
  /\ phase' \in Phases /\ disk' \in Disks
  /\ ledger' \in [OrderIds -> EntryRecord] /\ traded' \in [DOMAIN input -> Nat]
  /\ \A o \in OrderIds :
       /\ ledger[o].admitted => ledger'[o].admitted
       /\ ledger'[o].admitted => ledger[o].admitted \/ (a.kind = "risk" /\ a.order = o)
       /\ o >= nextId' => ledger'[o] = ledger[o]
  /\ DOMAIN product' = Tickers
  /\ \A t \in Tickers :
       /\ Agrees(product'[t])
       /\ \A o \in Held(product'[t]) :
            \/ o \in Held(product[t])
            \/ /\ a.kind = "risk" /\ InSegment(a) /\ t = Market(a)
               /\ o = a.order /\ o \in OrderIds /\ ledger'[o].admitted

\* A product's new state, when its oracle has not raised.
LEMMA BecomesOf ==
  ASSUME AgreeInv, NEW a, Market(a) \in Tickers, NEW n, Agrees(n), Becomes(a, n)
  PROVE  /\ DOMAIN product' = Tickers /\ product'[Market(a)] = n
         /\ \A t \in Tickers \ {Market(a)} : product'[t] = product[t]
         /\ \A t \in Tickers : Agrees(product'[t])
         /\ phase' = phase /\ disk' = disk /\ phase' \in Phases /\ disk' \in Disks
<1>1. ~n.risk.error
  BY DEF Agrees, AtRest, IsBridge
<1>2. /\ DOMAIN product = Tickers /\ phase \in Phases /\ disk \in Disks
      /\ \A t \in Tickers : Agrees(product[t])
  BY DEF AgreeInv, Types, Disks
<1> QED BY <1>1, <1>2 DEF Becomes

\* The rounds that leave the products and the ledger alone.
LEMMA MovesNothing ==
  ASSUME AgreeInv, NEW a, input' = input, plan' = plan, nextId' = nextId,
         phase' \in Phases, disk' \in Disks, product' = product, ledger' = ledger, traded' = traded
  PROVE  Moves(a)
<1>1. /\ ledger \in [OrderIds -> EntryRecord] /\ traded \in [DOMAIN input -> Nat]
      /\ DOMAIN product = Tickers /\ nextId \in 1..(MaxOrders + 1)
      /\ \A t \in Tickers : Agrees(product[t])
  BY DEF AgreeInv, Types
<1>2. nextId <= nextId'
  BY <1>1, ConfigurationAssumption
<1> QED BY <1>1, <1>2 DEF Moves

\* An entry of the ledger.
LEMMA EntryIs ==
  ASSUME Types, NEW o \in OrderIds
  PROVE  /\ DOMAIN ledger[o] = {"quantity", "admitted", "acks", "filled", "endings", "expires", "causal"}
         /\ ledger[o].quantity \in Nat /\ ledger[o].admitted \in BOOLEAN /\ ledger[o].acks \in Nat
         /\ ledger[o].filled \in Nat /\ ledger[o].endings \in Nat /\ ledger[o].expires \in Nat
         /\ ledger[o].causal \in Nat
BY DEF Types, EntryRecord

\* Orders that end only have one more ending.
LEMMA EndedIs ==
  ASSUME Types, NEW ids
  PROVE  LET e == Ended(ledger, ids)
         IN /\ e \in [OrderIds -> EntryRecord]
            /\ \A o \in OrderIds :
                 /\ e[o].quantity = ledger[o].quantity /\ e[o].admitted = ledger[o].admitted
                 /\ e[o].acks = ledger[o].acks /\ e[o].filled = ledger[o].filled
                 /\ e[o].endings = ledger[o].endings + (IF o \in ids THEN 1 ELSE 0)
                 /\ o \notin ids => e[o] = ledger[o]
<1> DEFINE e == Ended(ledger, ids)
<1>1. ASSUME NEW o \in OrderIds
      PROVE  /\ e[o] \in EntryRecord
             /\ e[o].quantity = ledger[o].quantity /\ e[o].admitted = ledger[o].admitted
             /\ e[o].acks = ledger[o].acks /\ e[o].filled = ledger[o].filled
             /\ e[o].endings = ledger[o].endings + (IF o \in ids THEN 1 ELSE 0)
             /\ o \notin ids => e[o] = ledger[o]
  <2>1. ledger[o] \in EntryRecord
    BY DEF Types
  <2>2. e[o] = IF o \in ids THEN [ledger[o] EXCEPT !.endings = ledger[o].endings + 1] ELSE ledger[o]
    BY DEF Ended
  <2> HIDE DEF e
  <2> QED BY <2>1, <2>2 DEF EntryRecord
<1>2. e = [o \in OrderIds |-> e[o]]
  BY DEF Ended
<1> HIDE DEF e
<1>3. e \in [OrderIds -> EntryRecord]
  BY <1>1, <1>2
<1> QED BY <1>1, <1>3 DEF e

\* The rounds that end, move or fill orders a product holds.
LEMMA MovesOne ==
  ASSUME AgreeInv, NEW a, Market(a) \in Tickers, NEW n, Agrees(n), Held(n) \subseteq Held(Mine(a)), Becomes(a, n),
         input' = input, plan' = plan, nextId' = nextId,
         ledger' \in [OrderIds -> EntryRecord], traded' \in [DOMAIN input -> Nat],
         \A o \in OrderIds : /\ ledger'[o].admitted = ledger[o].admitted
                             /\ o >= nextId => ledger'[o] = ledger[o]
  PROVE  Moves(a)
<1>1. /\ DOMAIN product' = Tickers /\ product'[Market(a)] = n
      /\ \A t \in Tickers \ {Market(a)} : product'[t] = product[t]
      /\ \A t \in Tickers : Agrees(product'[t])
      /\ phase' \in Phases /\ disk' \in Disks
  BY BecomesOf
<1>2. nextId' \in 1..(MaxOrders + 1) /\ nextId <= nextId'
  BY ConfigurationAssumption DEF AgreeInv, Types
<1>3. \A t \in Tickers : Held(product'[t]) \subseteq Held(product[t])
  BY <1>1 DEF Mine
<1> QED BY <1>1, <1>2, <1>3 DEF Moves

\* What every action taken knows of its product.
LEMMA TakenIs ==
  ASSUME AgreeInv, NEW a \in heap
  PROVE  /\ ActionOk(a) /\ Types /\ Market(a) \in Tickers /\ Agrees(Mine(a)) /\ IsRuntime(Mine(a))
         /\ Held(Mine(a)) \subseteq OrderIds /\ \A o \in Held(Mine(a)) : o \in Nat /\ o < nextId
         /\ a.order \in Nat /\ a.order < nextId /\ a.time \in Nat /\ nextId \in Nat
         /\ a.causal \in DOMAIN input /\ a.quantity \in Nat
<1>1. ActionOk(a) /\ Types
  BY DEF AgreeInv, Types
<1>2. Market(a) \in Tickers
  BY <1>1, PolicyIs DEF ActionOk
<1>3. /\ Agrees(Mine(a)) /\ Held(Mine(a)) \subseteq OrderIds /\ Held(Mine(a)) \subseteq Nat
      /\ \A o \in Held(Mine(a)) : o < nextId
  BY <1>2, HeldIs DEF Mine
<1>4. IsRuntime(Mine(a))
  BY <1>3 DEF Agrees
<1> QED BY <1>1, <1>2, <1>3, <1>4 DEF ActionOk, Types

LEMMA SegmentMoves ==
  ASSUME AgreeInv, NEW a \in heap, Segment(a)
  PROVE  Moves(a)
<1> DEFINE m == Mine(a)
           ended == [Emptied(m) EXCEPT !.segment = Row(a).segment, !.seen = FALSE, !.next = -1]
           entered == [m EXCEPT !.segment = Row(a).segment]
<1>1. /\ Market(a) \in Tickers /\ Agrees(m) /\ IsRuntime(m) /\ Types /\ nextId \in Nat
      /\ Held(m) \subseteq OrderIds /\ \A o \in Held(m) : o \in Nat /\ o < nextId
  BY TakenIs
<1>2. /\ Agrees(Emptied(m)) /\ Held(Emptied(m)) = {} /\ IsRuntime(Emptied(m))
  BY <1>1, AgreesEmptied DEF Agrees
<1>3. Agrees(ended) /\ Held(ended) = {}
  <2>1. /\ IsRuntime(ended) /\ ended.pending = Emptied(m).pending /\ ended.live = Emptied(m).live
        /\ ended.risk = Emptied(m).risk
    BY <1>2 DEF IsRuntime
  <2> HIDE DEF ended
  <2> QED BY <1>2, <2>1, AgreesElsewhere DEF Held
<1>4. Agrees(entered) /\ Held(entered) = Held(m)
  <2>1. /\ IsRuntime(entered) /\ entered.pending = m.pending /\ entered.live = m.live /\ entered.risk = m.risk
    BY <1>1 DEF IsRuntime
  <2> HIDE DEF entered, m
  <2> QED BY <1>1, <2>1, AgreesElsewhere DEF Held
<1>5. Becomes(a, ended) \/ Becomes(a, entered)
  BY DEF Segment
<1>6. /\ input' = input /\ plan' = plan /\ nextId' = nextId /\ traded' \in [DOMAIN input -> Nat]
      /\ ledger' = Ended(ledger, Held(m)) \/ ledger' = ledger
  BY <1>1 DEF Segment, Pop, Types
<1> HIDE DEF ended, entered, m
<1>7. /\ ledger' \in [OrderIds -> EntryRecord]
      /\ \A o \in OrderIds : /\ ledger'[o].admitted = ledger[o].admitted
                             /\ o >= nextId => ledger'[o] = ledger[o]
  <2>1. \A o \in OrderIds : o >= nextId => o \notin Held(m)
    BY <1>1
  <2>2. ledger \in [OrderIds -> EntryRecord]
    BY <1>1 DEF Types
  <2> QED BY <1>1, <1>6, <2>1, <2>2, EndedIs
<1> QED BY <1>1, <1>3, <1>4, <1>5, <1>6, <1>7, MovesOne DEF m

LEMMA FeatureMoves ==
  ASSUME AgreeInv, NEW a \in heap, Feature(a)
  PROVE  Moves(a)
<1> DEFINE m == Mine(a)
           next == IF a.time >= m.next THEN a.time + Policy(a).interval ELSE m.next
           n == [m EXCEPT !.seen = TRUE, !.next = next]
<1>1. Market(a) \in Tickers /\ Agrees(m) /\ IsRuntime(m) /\ Types
  BY TakenIs
<1>2. Becomes(a, n)
  BY DEF Feature
<1>3. /\ IsRuntime(n) /\ n.pending = m.pending /\ n.live = m.live /\ n.risk = m.risk
  BY <1>1 DEF IsRuntime
<1>4. input' = input /\ plan' = plan /\ nextId' = nextId /\ ledger' = ledger /\ traded' = traded
  BY DEF Feature, Pop
<1> HIDE DEF n, m
<1>5. Agrees(n) /\ Held(n) = Held(m)
  BY <1>1, <1>3, AgreesElsewhere DEF Held
<1>6. ledger \in [OrderIds -> EntryRecord] /\ traded \in [DOMAIN input -> Nat]
  BY <1>1 DEF Types
<1> QED BY <1>1, <1>2, <1>4, <1>5, <1>6, MovesOne DEF m

\* A decision, a trade or a dropped action only moves the heap.
LEMMA OthersMove ==
  ASSUME AgreeInv, NEW a \in heap, Trade(a) \/ Decision(a) \/ StaleAction(a) \/ Raises(a)
  PROVE  Moves(a)
<1>1. /\ input' = input /\ plan' = plan /\ nextId' = nextId /\ product' = product
      /\ ledger' = ledger /\ traded' = traded
  BY DEF Trade, Decision, StaleAction, Raises, CrossesSegment, FractionalFill, InexactCommand, Fails, Pop
<1>2. disk \in Disks /\ phase \in Phases
  BY DEF AgreeInv, Types, Disks
<1>3. [disk EXCEPT !.output = "absent"] \in Disks
  BY <1>2 DEF Disks
<1>4. phase' \in Phases /\ disk' \in Disks
  BY <1>2, <1>3 DEF Trade, Decision, StaleAction, Raises, CrossesSegment, FractionalFill,
       InexactCommand, Fails, Phases
<1> QED BY <1>1, <1>4, MovesNothing

LEMMA CommandMoves ==
  ASSUME AgreeInv, NEW a \in heap, Command(a)
  PROVE  Moves(a)
<1>1. /\ input' = input /\ plan' = plan /\ nextId' = nextId + 1 /\ product' = product /\ traded' = traded
      /\ phase' = phase /\ disk' = disk /\ nextId \in OrderIds
      /\ ledger' = [ledger EXCEPT ![nextId] = [ledger[nextId] EXCEPT !.quantity = Quantity, !.causal = a.causal]]
  <2>1. ledger' = [ledger EXCEPT ![nextId].quantity = Quantity, ![nextId].causal = a.causal]
    BY DEF Command
  <2> QED BY <2>1, TakenIs DEF Command, Pop, Types
<1>2. /\ Types /\ a.causal \in Nat /\ nextId \in Nat
      /\ \A t \in Tickers : Agrees(product[t])
  <2>1. DOMAIN input \subseteq Nat
    BY InputsAssumption DEF AgreeInv, Types
  <2> QED BY <2>1, TakenIs DEF AgreeInv
<1> DEFINE e == [ledger[nextId] EXCEPT !.quantity = Quantity, !.causal = a.causal]
<1>3. ledger[nextId] \in EntryRecord /\ ledger \in [OrderIds -> EntryRecord]
  BY <1>1, <1>2 DEF Types
<1>4. e \in EntryRecord /\ e.admitted = ledger[nextId].admitted
  BY <1>2, <1>3, ConfigurationAssumption DEF EntryRecord
<1> HIDE DEF e
<1>5. /\ ledger' \in [OrderIds -> EntryRecord] /\ ledger'[nextId] = e
      /\ \A o \in OrderIds \ {nextId} : ledger'[o] = ledger[o]
  BY <1>1, <1>3, <1>4 DEF e
<1>6. nextId' \in 1..(MaxOrders + 1) /\ nextId <= nextId' /\ \A o \in OrderIds : o >= nextId' => o # nextId
  BY <1>1, ConfigurationAssumption DEF OrderIds
<1>7. /\ disk \in Disks /\ phase \in Phases /\ DOMAIN product = Tickers /\ traded \in [DOMAIN input -> Nat]
  BY <1>2 DEF Types, Disks
<1> QED BY <1>1, <1>2, <1>4, <1>5, <1>6, <1>7 DEF Moves

LEMMA FillMoves ==
  ASSUME AgreeInv, NEW a \in heap, Fill(a)
  PROVE  Moves(a)
<1> DEFINE m == Mine(a)
           o == a.order
           q == Smallest(m.live[o].remaining, a.quantity)
           left == m.live[o].remaining - q
           live == IF left = 0 THEN Without(m.live, {o}) ELSE [m.live EXCEPT ![o].remaining = left]
           n == [m EXCEPT !.risk = Filled(m.risk, o, m.live[o].side, q), !.live = live]
           idle == o \notin DOMAIN m.live \/ m.live[o].segment # m.segment \/ q <= 0
<1>1. /\ Market(a) \in Tickers /\ Agrees(m) /\ IsRuntime(m) /\ Types
      /\ Held(m) \subseteq OrderIds /\ \A c \in Held(m) : c \in Nat /\ c < nextId
      /\ a.causal \in DOMAIN input /\ a.quantity \in Nat /\ nextId \in Nat
  BY TakenIs
<1>2. /\ input' = input /\ plan' = plan /\ nextId' = nextId
      /\ ledger \in [OrderIds -> EntryRecord] /\ traded \in [DOMAIN input -> Nat]
  BY <1>1 DEF Fill, Fillable, Pop, Types
<1>3. CASE idle
  <2>1. Becomes(a, m) /\ ledger' = ledger /\ traded' = traded
    BY <1>3 DEF Fill, Fillable
  <2> HIDE DEF m
  <2> QED BY <1>1, <1>2, <2>1, MovesOne DEF m
<1>4. CASE ~idle
  <2>1. /\ Becomes(a, n)
        /\ ledger' = [ledger EXCEPT ![o].filled = ledger[o].filled + q]
        /\ traded' = [traded EXCEPT ![a.causal] = traded[a.causal] + q]
    BY <1>4 DEF Fill, Fillable
  <2>2. o \in DOMAIN m.live /\ m.live[o].remaining \in Nat
    BY <1>1, <1>4 DEF Agrees, IsOrder
  <2>3. o \in Held(m)
    BY <2>2 DEF Held
  <2>4. q \in Nat \ {0} /\ q <= m.live[o].remaining
    <3>1. ~(q <= 0)
      BY <1>4
    <3> QED BY <1>1, <2>2, <3>1 DEF Smallest
  <2>5. IsRuntime(n) /\ n.pending = m.pending /\ n.live = live /\ n.risk = Filled(m.risk, o, m.live[o].side, q)
    BY <1>1 DEF IsRuntime
  <2>6. DOMAIN live \subseteq DOMAIN m.live
    BY DEF Without
  <2> HIDE DEF m, n, q, idle, o
  <2>7. Agrees(n)
    BY <1>1, <2>2, <2>4, <2>5, AgreesFilled
  <2> HIDE DEF live
  <2>8. Held(n) \subseteq Held(m)
    BY <2>5, <2>6 DEF Held
  <2>9. traded' \in [DOMAIN input -> Nat]
    BY <1>1, <1>2, <2>1, <2>4
  <2>10. /\ ledger' \in [OrderIds -> EntryRecord]
         /\ \A c \in OrderIds : /\ ledger'[c].admitted = ledger[c].admitted
                                /\ c >= nextId => ledger'[c] = ledger[c]
    <3> DEFINE e == [ledger[o] EXCEPT !.filled = ledger[o].filled + q]
    <3>1. o \in OrderIds /\ o \in Nat /\ o < nextId /\ ledger' = [ledger EXCEPT ![o] = e]
      BY <1>1, <2>1, <2>3
    <3>2. e \in EntryRecord /\ e.admitted = ledger[o].admitted
      BY <1>2, <2>4, <3>1 DEF EntryRecord
    <3> HIDE DEF e
    <3> QED BY <1>1, <1>2, <3>1, <3>2
  <2> QED BY <1>1, <1>2, <2>1, <2>7, <2>8, <2>9, <2>10, MovesOne DEF m
<1> QED BY <1>3, <1>4

LEMMA CancelMoves ==
  ASSUME AgreeInv, NEW a \in heap, Cancel(a)
  PROVE  Moves(a)
<1> DEFINE m == Mine(a)
           o == a.order
           rejected == [m EXCEPT !.pending = Without(m.pending, {o}), !.risk = Rejected(m.risk, {o})]
           cancelled == [m EXCEPT !.live = Without(m.live, {o}), !.risk = Cancelled(m.risk, {o})]
<1>1. /\ Market(a) \in Tickers /\ Agrees(m) /\ IsRuntime(m) /\ Types /\ nextId \in Nat
      /\ Held(m) \subseteq OrderIds /\ \A c \in Held(m) : c \in Nat /\ c < nextId
  BY TakenIs
<1>2. /\ input' = input /\ plan' = plan /\ nextId' = nextId /\ traded' = traded
      /\ ledger \in [OrderIds -> EntryRecord] /\ traded \in [DOMAIN input -> Nat]
      /\ ledger' = Ended(ledger, {o} \cap Held(m)) \/ ledger' = ledger
  <2>1. o \in Held(m) => {o} \cap Held(m) = {o}
    OBVIOUS
  <2>2. ledger' = IF o \in Held(m) THEN Ended(ledger, {o}) ELSE ledger
    BY DEF Cancel
  <2> QED BY <1>1, <2>1, <2>2 DEF Cancel, Pop, Types
<1>3. \/ o \in DOMAIN m.pending /\ Becomes(a, rejected)
      \/ Becomes(a, cancelled)
      \/ Becomes(a, m)
  BY DEF Cancel
<1>4. /\ IsRuntime(rejected) /\ rejected.pending = Without(m.pending, {o}) /\ rejected.live = m.live
      /\ rejected.risk = Rejected(m.risk, {o})
  BY <1>1 DEF IsRuntime
<1>5. /\ IsRuntime(cancelled) /\ cancelled.pending = m.pending /\ cancelled.live = Without(m.live, {o})
      /\ cancelled.risk = Cancelled(m.risk, {o})
  BY <1>1 DEF IsRuntime
<1> HIDE DEF m, rejected, cancelled
<1>6. o \in DOMAIN m.pending => Agrees(rejected)
  BY <1>1, <1>4, AgreesRejected
<1>7. Agrees(cancelled)
  BY <1>1, <1>5, AgreesCancelled
<1>8. Held(rejected) \subseteq Held(m) /\ Held(cancelled) \subseteq Held(m)
  BY <1>4, <1>5 DEF Held, Without
<1>9. /\ ledger' \in [OrderIds -> EntryRecord]
      /\ \A c \in OrderIds : /\ ledger'[c].admitted = ledger[c].admitted
                             /\ c >= nextId => ledger'[c] = ledger[c]
  <2>1. \A c \in OrderIds : c >= nextId => c \notin {o} \cap Held(m)
    BY <1>1
  <2> QED BY <1>1, <1>2, <2>1, EndedIs
<1>10. PICK n \in {m, rejected, cancelled} : Agrees(n) /\ Becomes(a, n)
  BY <1>1, <1>3, <1>6, <1>7
<1>11. Held(n) \subseteq Held(m)
  BY <1>8
<1> QED BY <1>1, <1>2, <1>9, <1>10, <1>11, MovesOne DEF m

LEMMA AckMoves ==
  ASSUME AgreeInv, NEW a \in heap, Ack(a)
  PROVE  Moves(a)
<1> DEFINE m == Mine(a)
           o == a.order
           d == m.pending[o]
           expires == a.time + Policy(a).lifetime
           rejected == [m EXCEPT !.pending = Without(m.pending, {o}), !.risk = Rejected(m.risk, {o})]
           live == [m EXCEPT !.pending = Without(m.pending, {o}), !.live = With(m.live, o, d),
                             !.risk = Acknowledged(m.risk, o, d.side, d.remaining)]
<1>1. /\ Market(a) \in Tickers /\ Agrees(m) /\ IsRuntime(m) /\ Types /\ nextId \in Nat /\ a.time \in Nat
      /\ Held(m) \subseteq OrderIds /\ \A c \in Held(m) : c \in Nat /\ c < nextId
      /\ a.causal \in DOMAIN input
  BY TakenIs
<1>2. /\ input' = input /\ plan' = plan /\ nextId' = nextId /\ traded' = traded
      /\ ledger \in [OrderIds -> EntryRecord] /\ traded \in [DOMAIN input -> Nat]
  BY <1>1 DEF Ack, Pop, Types
<1>3. expires \in Nat
  BY <1>1, PolicyIs
<1>4. CASE o \notin DOMAIN m.pending
  <2>1. Becomes(a, m) /\ ledger' = ledger
    BY <1>4 DEF Ack
  <2> HIDE DEF m
  <2> QED BY <1>1, <1>2, <2>1, MovesOne DEF m
<1>5. CASE o \in DOMAIN m.pending
  <2>1. \/ Becomes(a, rejected) /\ ledger' = Ended(ledger, {o})
        \/ Becomes(a, live) /\ ledger' = [ledger EXCEPT ![o].acks = ledger[o].acks + 1, ![o].expires = expires]
    BY <1>5 DEF Ack
  <2>2. o \in Held(m)
    BY <1>5 DEF Held
  <2>3. /\ IsRuntime(rejected) /\ rejected.pending = Without(m.pending, {o}) /\ rejected.live = m.live
        /\ rejected.risk = Rejected(m.risk, {o})
    BY <1>1 DEF IsRuntime
  <2>4. /\ IsRuntime(live) /\ live.pending = Without(m.pending, {o}) /\ live.live = With(m.live, o, d)
        /\ live.risk = Acknowledged(m.risk, o, d.side, d.remaining)
    BY <1>1 DEF IsRuntime
  <2> HIDE DEF m, rejected, live, expires, o
  <2>5. Agrees(rejected)
    BY <1>1, <1>5, <2>3, AgreesRejected
  <2>6. Agrees(live)
    BY <1>1, <1>5, <2>4, AgreesAcknowledged
  <2>7. Held(rejected) \subseteq Held(m) /\ Held(live) \subseteq Held(m)
    BY <1>5, <2>3, <2>4 DEF Held, Without, With
  <2>8. o \in OrderIds /\ o \in Nat /\ o < nextId
    BY <1>1, <2>2
  <2>9. CASE Becomes(a, rejected) /\ ledger' = Ended(ledger, {o})
    <3>1. /\ ledger' \in [OrderIds -> EntryRecord]
          /\ \A c \in OrderIds : /\ ledger'[c].admitted = ledger[c].admitted
                                 /\ c >= nextId => ledger'[c] = ledger[c]
      <4>1. \A c \in OrderIds : c >= nextId => c \notin {o}
        BY <1>1, <2>8
      <4> QED BY <1>1, <2>9, <4>1, EndedIs
    <3> QED BY <1>1, <1>2, <2>5, <2>7, <2>9, <3>1, MovesOne DEF m
  <2>10. CASE /\ Becomes(a, live)
              /\ ledger' = [ledger EXCEPT ![o].acks = ledger[o].acks + 1, ![o].expires = expires]
    <3> DEFINE e == [ledger[o] EXCEPT !.acks = ledger[o].acks + 1, !.expires = expires]
    <3>1. ledger' = [ledger EXCEPT ![o] = e]
      BY <1>2, <2>8, <2>10
    <3>2. e \in EntryRecord /\ e.admitted = ledger[o].admitted
      <4>1. ledger[o] \in EntryRecord /\ ledger[o].acks + 1 \in Nat
        BY <1>1, <1>2, <2>8, EntryIs
      <4> QED BY <1>3, <4>1 DEF EntryRecord
    <3> HIDE DEF e
    <3>3. /\ ledger' \in [OrderIds -> EntryRecord]
          /\ \A c \in OrderIds : /\ ledger'[c].admitted = ledger[c].admitted
                                 /\ c >= nextId => ledger'[c] = ledger[c]
      BY <1>1, <1>2, <2>8, <3>1, <3>2
    <3> QED BY <1>1, <1>2, <2>6, <2>7, <2>10, <3>3, MovesOne DEF m
  <2> QED BY <2>1, <2>9, <2>10
<1> QED BY <1>4, <1>5

LEMMA RiskMoves ==
  ASSUME AgreeInv, NEW a \in heap, Risk(a)
  PROVE  Moves(a)
<1> DEFINE m == Mine(a)
           o == a.order
           d == Order(a)
           n == [m EXCEPT !.risk = Approved(m.risk, o, a.side, a.quantity), !.pending = With(m.pending, o, d)]
<1>1. /\ Market(a) \in Tickers /\ Agrees(m) /\ IsRuntime(m) /\ Types /\ nextId \in Nat
      /\ o \in Nat /\ o < nextId
  BY TakenIs
<1>2. /\ input' = input /\ plan' = plan /\ nextId' = nextId /\ traded' = traded
      /\ ledger \in [OrderIds -> EntryRecord] /\ traded \in [DOMAIN input -> Nat] /\ a.kind = "risk"
  BY <1>1 DEF Risk, Pop, Types
<1>3. CASE Becomes(a, m) /\ ledger' = ledger
  <2> HIDE DEF m
  <2> QED BY <1>1, <1>2, <1>3, MovesOne DEF m
<1>4. CASE Becomes(a, n) /\ ledger' = [ledger EXCEPT ![o].admitted = TRUE]
  <2>1. o \in OrderIds /\ a.quantity = Quantity /\ ~ledger[o].admitted
    BY <1>2 DEF AgreeInv, Asked
  <2>2. o \notin Held(m)
    BY <1>1, <2>1 DEF AgreeInv, Asked, Mine
  <2>3. IsOrder(d) /\ d.side = a.side /\ d.remaining = a.quantity
    BY <2>1, ConfigurationAssumption DEF Order, IsOrder
  <2>4. IsRuntime(n) /\ n.pending = With(m.pending, o, d) /\ n.live = m.live
        /\ n.risk = Approved(m.risk, o, a.side, a.quantity)
    BY <1>1 DEF IsRuntime
  <2> HIDE DEF m, n, o, d
  <2>5. Agrees(n)
    BY <1>1, <2>1, <2>2, <2>3, <2>4, AgreesApproved
  <2>6. \A c \in Held(n) : c \in Held(m) \/ c = o
    BY <2>4 DEF Held, With
  <2>7. /\ DOMAIN product' = Tickers /\ product'[Market(a)] = n
        /\ \A t \in Tickers \ {Market(a)} : product'[t] = product[t]
        /\ \A t \in Tickers : Agrees(product'[t])
        /\ phase' \in Phases /\ disk' \in Disks
    BY <1>1, <1>4, <2>5, BecomesOf
  <2>8. /\ ledger' \in [OrderIds -> EntryRecord] /\ ledger'[o].admitted
        /\ \A c \in OrderIds \ {o} : ledger'[c] = ledger[c]
    <3> DEFINE e == [ledger[o] EXCEPT !.admitted = TRUE]
    <3>1. ledger' = [ledger EXCEPT ![o] = e]
      BY <1>4
    <3>2. e \in EntryRecord /\ e.admitted
      BY <1>2, <2>1 DEF EntryRecord
    <3> HIDE DEF e
    <3> QED BY <1>2, <2>1, <3>1, <3>2
  <2>9. nextId' \in 1..(MaxOrders + 1) /\ nextId <= nextId'
    BY <1>1, <1>2, ConfigurationAssumption DEF Types
  <2>10. \A t \in Tickers : \A c \in Held(product'[t]) : c \in Held(product[t]) \/ (c = o /\ t = Market(a))
    BY <2>6, <2>7 DEF m, Mine
  <2>11. \A c \in OrderIds :
           /\ ledger[c].admitted => ledger'[c].admitted
           /\ ledger'[c].admitted => ledger[c].admitted \/ c = o
           /\ c >= nextId' => ledger'[c] = ledger[c]
    BY <1>1, <1>2, <2>8
  <2>12. InSegment(a)
    BY DEF Risk
  <2> QED BY <1>2, <2>1, <2>7, <2>8, <2>9, <2>10, <2>11, <2>12 DEF Moves, o
<1> QED BY <1>3, <1>4 DEF Risk

LEMMA RoundMoves ==
  ASSUME AgreeInv, NEW a \in heap, Round(a)
  PROVE  Moves(a)
BY SegmentMoves, FeatureMoves, OthersMove, CommandMoves, FillMoves, CancelMoves, AckMoves,
     RiskMoves DEF Round, Raises

-----------------------------------------------------------------------------
(* 6. The coordinator and its oracles agree. *)

TradesBefore(i) == {j \in Trades : j < i}

\* What is scheduled before the loop.
LEMMA ScheduledIs ==
  ASSUME Types, nextId \in 1..(MaxOrders + 1)
  PROVE  /\ IsFiniteSet(Scheduled) /\ PushedBefore(Len(input) + 1) \in Nat
         /\ \A b \in Scheduled :
              /\ DOMAIN b = ActionFields /\ b.kind \in {"segment", "feature", "trade"}
              /\ b.time \in Nat /\ b.causal \in DOMAIN input
              /\ b.ordinal \in 1..PushedBefore(Len(input) + 1)
              /\ b.order = 0 /\ b.quantity = 0
              /\ b.kind = "segment" => IsBoundary(input[b.causal]) /\ b.time = input[b.causal].time
              /\ b.kind # "segment" => ~IsBoundary(input[b.causal]) /\ b.time = Visible(b.causal)
              /\ b.kind = "trade" => b.causal \in Trades
              /\ \A c \in Scheduled : c.kind = b.kind /\ c.causal = b.causal => c = b
<1> DEFINE L == Len(input)
           total == PushedBefore(L + 1)
           one(i) == IF IsBoundary(input[i]) THEN Action("segment", input[i].time, i)
                     ELSE Action("feature", Visible(i), i)
           two(i) == [Action("trade", Visible(i), i) EXCEPT !.ordinal = 2]
           F == [i \in DOMAIN input |-> [one(i) EXCEPT !.ordinal = PushedBefore(i) + 1]]
           G == [i \in Trades |-> [two(i) EXCEPT !.ordinal = PushedBefore(i) + 2]]
<1>1. /\ L \in Nat /\ DOMAIN input = 1..L
      /\ \A i \in DOMAIN input : input[i].time \in Nat /\ input[i].ticker \in Tickers
  BY InputsAssumption DEF Types
<1>2. Trades \subseteq DOMAIN input /\ IsFiniteSet(Trades) /\ IsFiniteSet(DOMAIN input)
  <2>1. IsFiniteSet(1..L)
    BY <1>1, FS_Interval
  <2>2. Trades \subseteq DOMAIN input
    BY DEF Trades
  <2> QED BY <1>1, <2>1, <2>2, FS_Subset
<1>3. \A i \in DOMAIN input : Visible(i) \in Nat
  BY <1>1, ConfigurationAssumption DEF Visible, Types
<1>4. ASSUME NEW i \in 1..(L + 1)
      PROVE  /\ IsFiniteSet(TradesBefore(i)) /\ Cardinality(TradesBefore(i)) \in Nat
             /\ PushedBefore(i) = i - 1 + Cardinality(TradesBefore(i)) /\ PushedBefore(i) \in Nat
  <2>1. TradesBefore(i) \subseteq Trades
    BY DEF TradesBefore
  <2>2. IsFiniteSet(TradesBefore(i)) /\ Cardinality(TradesBefore(i)) \in Nat
    BY <1>2, <2>1, FS_Subset, FS_CardinalityType
  <2> QED BY <1>1, <2>2 DEF PushedBefore, TradesBefore
<1>5. ASSUME NEW i \in DOMAIN input
      PROVE  /\ PushedBefore(i) + 1 <= total
             /\ i \in Trades => PushedBefore(i) + 2 <= total
  <2>1. i \in 1..(L + 1) /\ L + 1 \in 1..(L + 1) /\ i <= L
    BY <1>1
  <2> DEFINE n == Cardinality(TradesBefore(i))
             k == Cardinality(TradesBefore(L + 1))
  <2>2. n \in Nat /\ k \in Nat /\ PushedBefore(i) = i - 1 + n /\ total = L + k
    BY <1>1, <1>4, <2>1
  <2>3. n <= k
    <3>1. TradesBefore(i) \subseteq TradesBefore(L + 1)
      BY <1>1, <1>2, <2>1 DEF TradesBefore
    <3>2. IsFiniteSet(TradesBefore(L + 1))
      BY <1>4, <2>1
    <3> QED BY <3>1, <3>2, FS_Subset
  <2>4. i \in Trades => n + 1 <= k
    <3> SUFFICES ASSUME i \in Trades PROVE n + 1 <= k
      OBVIOUS
    <3>1. TradesBefore(i) \union {i} \subseteq TradesBefore(L + 1) /\ i \notin TradesBefore(i)
      BY <1>1, <1>2, <2>1 DEF TradesBefore
    <3>4. IsFiniteSet(TradesBefore(L + 1)) /\ IsFiniteSet(TradesBefore(i))
      BY <1>4, <2>1
    <3>2. Cardinality(TradesBefore(i) \union {i}) <= k
      BY <3>1, <3>4, FS_Subset
    <3>3. Cardinality(TradesBefore(i) \union {i}) = n + 1
      BY <3>1, <3>4, FS_AddElement
    <3> QED BY <3>2, <3>3
  <2> HIDE DEF n, k, total
  <2> QED BY <1>1, <2>1, <2>2, <2>3, <2>4
<1>6. ASSUME NEW i \in DOMAIN input
      PROVE  /\ DOMAIN F[i] = ActionFields /\ F[i].ordinal = PushedBefore(i) + 1 /\ F[i].causal = i
             /\ F[i].order = 0 /\ F[i].quantity = 0
             /\ IsBoundary(input[i]) => F[i].kind = "segment" /\ F[i].time = input[i].time
             /\ ~IsBoundary(input[i]) => F[i].kind = "feature" /\ F[i].time = Visible(i)
  BY DEF Action, ActionFields
<1>7. ASSUME NEW i \in Trades
      PROVE  /\ DOMAIN G[i] = ActionFields /\ G[i].ordinal = PushedBefore(i) + 2 /\ G[i].causal = i
             /\ G[i].order = 0 /\ G[i].quantity = 0
             /\ G[i].kind = "trade" /\ G[i].time = Visible(i)
  BY DEF Action, ActionFields
<1>8. \A i \in Trades : ~IsBoundary(input[i])
  BY DEF Trades, IsMarketEvent, IsBoundary
<1>9. ASSUME NEW i \in DOMAIN input
      PROVE  Pushed(OfRecord(i), PushedBefore(i)) = {F[i]} \union (IF i \in Trades THEN {G[i]} ELSE {})
  <2>1. one(i).ordinal = 1 /\ two(i).ordinal = 2
    BY DEF Action
  <2>2. OfRecord(i) = {one(i)} \union (IF i \in Trades THEN {two(i)} ELSE {})
    BY <1>8 DEF OfRecord
  <2>3. i \in 1..(L + 1)
    BY <1>1
  <2>4. PushedBefore(i) \in Nat
    BY <1>4, <2>3
  <2>5. /\ F[i] = [one(i) EXCEPT !.ordinal = PushedBefore(i) + one(i).ordinal]
        /\ i \in Trades => G[i] = [two(i) EXCEPT !.ordinal = PushedBefore(i) + two(i).ordinal]
    BY Zenon, <2>1
  <2> HIDE DEF one, two, F, G
  <2> QED BY <2>2, <2>5 DEF Pushed
<1>10. Scheduled = {F[i] : i \in DOMAIN input} \union {G[i] : i \in Trades}
  <2> HIDE DEF F, G
  <2> QED BY <1>2, <1>9 DEF Scheduled
<1> HIDE DEF F, G
<1>11. IsFiniteSet(Scheduled)
  <2> DEFINE FS == {F[i] : i \in DOMAIN input}
             GS == {G[i] : i \in Trades}
  <2>1. F \in Surjection(DOMAIN input, FS) /\ G \in Surjection(Trades, GS)
    BY Zenon DEF Surjection, F, G
  <2>2. IsFiniteSet(FS) /\ IsFiniteSet(GS)
    BY <1>2, <2>1, FS_Surjection
  <2> QED BY <1>10, <2>2, FS_Union
<1>12. total \in Nat
  <2>1. L + 1 \in 1..(L + 1)
    BY <1>1
  <2> QED BY <1>4, <2>1
<1>13. ASSUME NEW b \in Scheduled
       PROVE  \/ b.causal \in DOMAIN input /\ b = F[b.causal] /\ b.kind # "trade"
              \/ b.causal \in Trades /\ b = G[b.causal] /\ b.kind = "trade"
  BY <1>6, <1>7, <1>10
<1>14. ASSUME NEW b \in Scheduled
       PROVE  /\ DOMAIN b = ActionFields /\ b.kind \in {"segment", "feature", "trade"}
              /\ b.time \in Nat /\ b.causal \in DOMAIN input
              /\ b.ordinal \in 1..total
              /\ b.order = 0 /\ b.quantity = 0
              /\ b.kind = "segment" => IsBoundary(input[b.causal]) /\ b.time = input[b.causal].time
              /\ b.kind # "segment" => ~IsBoundary(input[b.causal]) /\ b.time = Visible(b.causal)
              /\ b.kind = "trade" => b.causal \in Trades
  <2>1. b.causal \in DOMAIN input
    BY <1>2, <1>13
  <2>2. b.causal \in 1..(L + 1)
    BY <1>1, <2>1
  <2>3. PushedBefore(b.causal) \in Nat
    BY <1>4, <2>2
  <2>4. CASE b = F[b.causal] /\ b.kind # "trade"
    <3>1. b.ordinal \in 1..total
      BY <1>5, <1>6, <1>12, <2>1, <2>3, <2>4
    <3>2. /\ DOMAIN b = ActionFields /\ b.order = 0 /\ b.quantity = 0
          /\ IsBoundary(input[b.causal]) => b.kind = "segment" /\ b.time = input[b.causal].time
          /\ ~IsBoundary(input[b.causal]) => b.kind = "feature" /\ b.time = Visible(b.causal)
      BY <1>6, <2>1, <2>4
    <3> QED BY <1>1, <1>3, <2>1, <2>4, <3>1, <3>2
  <2>5. CASE b.causal \in Trades /\ b = G[b.causal] /\ b.kind = "trade"
    <3>1. b.ordinal \in 1..total
      BY <1>5, <1>7, <1>12, <2>1, <2>3, <2>5
    <3> QED BY <1>3, <1>7, <1>8, <2>1, <2>5, <3>1
  <2> QED BY <1>13, <2>4, <2>5
<1>15. \A b, c \in Scheduled : c.kind = b.kind /\ c.causal = b.causal => c = b
  BY <1>13
<1> QED BY <1>11, <1>12, <1>14, <1>15

LEMMA AgreeInit ==
  ASSUME Init
  PROVE  AgreeInv
<1>1. product = [t \in Tickers |-> Runtime] /\ Held(Runtime) = {} /\ Agrees(Runtime)
  BY ReadyAgrees DEF Init, Held, Runtime, NoOrders
<1>2. nextId \in 1..(MaxOrders + 1) /\ pushed \in Nat
  BY ConfigurationAssumption DEF Init
<1>3. IsFiniteSet(heap) /\ heap = {}
  BY FS_EmptySet DEF Init
<1>4. Entry \in EntryRecord /\ ledger = [o \in OrderIds |-> Entry]
  BY DEF Entry, EntryRecord, Init
<1>5. /\ input \in Inputs /\ plan \in Plans /\ phase \in Phases /\ traded = [i \in DOMAIN input |-> 0]
      /\ disk \in [output : {"absent", "partial", "final"}, telemetry : {"absent", "partial", "final"}]
  BY DEF Init, Phases
<1>6. Types
  BY <1>1, <1>2, <1>3, <1>4, <1>5 DEF Types
<1>7. Asked
  BY <1>1, <1>3, <1>4 DEF Asked
<1> QED BY <1>1, <1>6, <1>7 DEF AgreeInv

\* A step that keeps the products, the orders and the heap.
LEMMA AgreeSame ==
  ASSUME AgreeInv, UNCHANGED <<input, plan, heap, pushed, nextId, product, ledger, traded>>,
         phase' \in Phases, disk' \in Disks
  PROVE  AgreeInv'
<1>1. Trades' = Trades
  BY DEF Trades
<1>2. Types'
  BY <1>1 DEF AgreeInv, Types, ActionOk, Disks
<1>3. Asked'
  BY DEF AgreeInv, Asked
<1> QED BY <1>2, <1>3 DEF AgreeInv

LEMMA AgreeAccepted ==
  ASSUME AgreeInv, Accepted
  PROVE  AgreeInv'
<1>1. /\ input' = input /\ plan' = plan /\ nextId' = nextId /\ product' = product /\ ledger' = ledger
      /\ traded' = traded /\ heap' = Scheduled /\ pushed' = PushedBefore(Len(input) + 1)
      /\ phase' = "running" /\ disk' = [disk EXCEPT !.output = "partial"]
  BY DEF Accepted
<1>2. Types /\ nextId \in 1..(MaxOrders + 1)
  BY DEF AgreeInv, Types
<1>3. /\ IsFiniteSet(heap') /\ pushed' \in Nat
      /\ \A b \in heap' :
           /\ DOMAIN b = ActionFields /\ b.kind \in {"segment", "feature", "trade"}
           /\ b.time \in Nat /\ b.causal \in DOMAIN input /\ b.ordinal \in 1..pushed'
           /\ b.order = 0 /\ b.quantity = 0
           /\ b.kind = "segment" => IsBoundary(input[b.causal])
           /\ b.kind # "segment" => ~IsBoundary(input[b.causal])
           /\ b.kind = "trade" => b.causal \in Trades
  BY <1>1, <1>2, ScheduledIs
<1>4. 0 < nextId /\ 0 \in Nat
  BY <1>2, ConfigurationAssumption
<1>5. \A i \in DOMAIN input : ~IsBoundary(input[i]) => IsMarketEvent(input[i])
  <2>1. \A i \in DOMAIN input : input[i].kind # "discontinuity" /\
           input[i].kind \in {"segment_boundary", "market_event", "discontinuity"}
    BY <1>2, InputsAssumption DEF Types, Accepted, Preflight
  <2> QED BY <2>1 DEF IsBoundary, IsMarketEvent
<1>6. \A b \in heap' : ActionOk(b)'
  <2>1. Trades' = Trades
    BY <1>1 DEF Trades
  <2> QED BY <1>1, <1>3, <1>4, <1>5, <2>1 DEF ActionOk
<1>7. [disk EXCEPT !.output = "partial"] \in Disks
  BY <1>2 DEF Types, Disks
<1>8. Types'
  BY <1>1, <1>2, <1>3, <1>6, <1>7 DEF Types, Disks, Phases
<1>9. Asked'
  BY <1>1, <1>3 DEF AgreeInv, Asked
<1> QED BY <1>1, <1>8, <1>9 DEF AgreeInv

LEMMA AgreeRound ==
  ASSUME AgreeInv, NEW a \in heap, Round(a)
  PROVE  AgreeInv'
<1>1. /\ IsFiniteSet(heap') /\ pushed' \in Nat /\ pushed <= pushed'
      /\ \A b \in heap' : b \in heap \ {a} \/ (Spawned(a, b) /\ b.ordinal \in 1..pushed')
      /\ \A b, c \in heap' : b.kind = "risk" /\ c.kind = "risk" /\ b \notin heap /\ c \notin heap => b = c
  BY HeapAfter
<1>2. Moves(a)
  BY RoundMoves
<1>3. /\ input' = input /\ plan' = plan /\ nextId' \in 1..(MaxOrders + 1) /\ nextId <= nextId'
      /\ phase' \in Phases /\ disk' \in Disks /\ DOMAIN product' = Tickers
      /\ ledger' \in [OrderIds -> EntryRecord] /\ traded' \in [DOMAIN input -> Nat]
      /\ \A t \in Tickers : Agrees(product'[t])
  BY <1>2 DEF Moves
<1>4. /\ nextId \in Nat /\ nextId' \in Nat /\ pushed \in Nat /\ ActionOk(a)
      /\ \A b \in heap : ActionOk(b)
  BY <1>3, ConfigurationAssumption DEF AgreeInv, Types
<1>5. Command(a) => nextId' = nextId + 1
  BY DEF Command
<1>6. ASSUME NEW b \in heap \ {a}
      PROVE  ActionOk(b)'
  <2>1. ActionOk(b)
    BY <1>4
  <2>2. b.ordinal \in 1..pushed' /\ b.order \in Nat /\ b.order < nextId'
    BY <1>1, <1>3, <1>4, <2>1 DEF ActionOk
  <2>3. Trades' = Trades
    BY <1>3 DEF Trades
  <2> QED BY <1>3, <2>1, <2>2, <2>3 DEF ActionOk
<1>7. ASSUME NEW b, Spawned(a, b), b.ordinal \in 1..pushed'
      PROVE  ActionOk(b)'
  <2>1. /\ DOMAIN b = ActionFields /\ b.kind \in Derived /\ b.time \in Nat /\ b.causal = a.causal
        /\ b.order \in Nat /\ b.quantity \in Nat /\ InSegment(a) /\ a.kind # "segment"
        /\ b.kind = "risk" => Command(a) /\ b.order = nextId
        /\ b.kind # "risk" => b.order < nextId
    BY <1>7 DEF Spawned, Derived
  <2>2. b.order < nextId'
    BY <1>3, <1>4, <1>5, <2>1
  <2>3. a.causal \in DOMAIN input /\ IsMarketEvent(input[a.causal])
    BY <1>4, <2>1 DEF ActionOk
  <2>4. b.kind # "segment" /\ b.kind # "trade"
    BY <2>1 DEF Derived
  <2> QED BY <1>3, <1>7, <2>1, <2>2, <2>3, <2>4 DEF ActionOk
<1>8. Types'
  <2>1. \A b \in heap' : ActionOk(b)'
    BY <1>1, <1>6, <1>7
  <2> QED BY <1>1, <1>3, <2>1 DEF AgreeInv, Types, Disks
<1>9. ASSUME NEW b \in heap', b.kind = "risk"
      PROVE  /\ b.order \in OrderIds /\ b.quantity = Quantity /\ ~ledger'[b.order].admitted
             /\ \A c \in heap' : c.kind = "risk" /\ c.order = b.order => c = b
  <2>1. \A c \in heap : c.kind = "risk" =>
          /\ c.order \in OrderIds /\ c.quantity = Quantity /\ ~ledger[c.order].admitted /\ c.order < nextId
          /\ \A e \in heap : e.kind = "risk" /\ e.order = c.order => e = c
    BY <1>4 DEF AgreeInv, Asked, ActionOk
  <2>2. \A c \in heap' : c.kind = "risk" /\ c \notin heap \ {a} =>
          /\ c.order = nextId /\ nextId \in OrderIds /\ c.quantity = Quantity /\ a.kind = "command"
    BY <1>1 DEF Spawned
  <2>3. ~ledger[nextId].admitted \/ nextId \notin OrderIds
    BY <1>4 DEF AgreeInv, Asked, Entry
  <2>4. CASE b \in heap \ {a}
    <3>1. a.kind = "risk" => a.order # b.order
      BY <1>9, <2>1, <2>4
    <3>2. ~ledger'[b.order].admitted
      BY <1>2, <1>9, <2>1, <2>4, <3>1 DEF Moves
    <3>3. ASSUME NEW c \in heap', c.kind = "risk", c.order = b.order
          PROVE  c = b
      <4>1. CASE c \in heap \ {a}
        BY <1>9, <2>1, <2>4, <3>3, <4>1
      <4>2. CASE c \notin heap \ {a}
        BY <1>4, <1>9, <2>1, <2>2, <2>4, <3>3, <4>2
      <4> QED BY <4>1, <4>2
    <3> QED BY <1>9, <2>1, <2>4, <3>2, <3>3
  <2>5. CASE b \notin heap \ {a}
    <3>1. b.order = nextId /\ nextId \in OrderIds /\ b.quantity = Quantity /\ a.kind = "command"
      BY <1>9, <2>2, <2>5
    <3>2. ~ledger'[b.order].admitted
      BY <1>2, <2>3, <3>1 DEF Moves
    <3>3. ASSUME NEW c \in heap', c.kind = "risk", c.order = b.order
          PROVE  c = b
      <4>1. CASE c \in heap \ {a}
        BY <1>4, <2>1, <3>1, <3>3, <4>1
      <4>2. CASE c \notin heap \ {a}
        <5>1. b \notin heap /\ c \notin heap
          BY <1>9, <2>5, <3>1, <3>3, <4>2
        <5> QED BY <1>1, <1>9, <3>3, <5>1
      <4> QED BY <4>1, <4>2
    <3> QED BY <3>1, <3>2, <3>3
  <2> QED BY <2>4, <2>5
<1>10. \A t \in Tickers : \A o \in Held(product'[t]) : o \in OrderIds /\ o < nextId' /\ ledger'[o].admitted
  <2>1. \A t \in Tickers : \A o \in Held(product[t]) : o \in OrderIds /\ o < nextId /\ ledger[o].admitted
    BY DEF AgreeInv, Asked
  <2>2. OrderIds \subseteq Nat
    BY ConfigurationAssumption DEF OrderIds
  <2>3. a.order \in Nat /\ a.order < nextId
    BY <1>4 DEF ActionOk
  <2>4. ASSUME NEW t \in Tickers, NEW o \in Held(product'[t])
        PROVE  o \in OrderIds /\ o < nextId' /\ ledger'[o].admitted
    <3>1. CASE o \in Held(product[t])
      <4>1. o \in OrderIds /\ o < nextId /\ ledger[o].admitted /\ o \in Nat
        BY <2>1, <2>2, <3>1
      <4> QED BY <1>2, <1>3, <1>4, <4>1 DEF Moves
    <3>2. CASE o = a.order /\ o \in OrderIds /\ ledger'[o].admitted
      BY <1>3, <1>4, <2>3, <3>2
    <3> QED BY <1>2, <3>1, <3>2 DEF Moves
  <2> QED BY <2>4
<1>11. \A o \in OrderIds : o >= nextId' => ledger'[o] = Entry
  <2>1. \A o \in OrderIds : o >= nextId => ledger[o] = Entry
    BY DEF AgreeInv, Asked
  <2>2. OrderIds \subseteq Nat
    BY ConfigurationAssumption DEF OrderIds
  <2>3. \A o \in OrderIds : o >= nextId' => o >= nextId
    BY <1>3, <1>4, <2>2
  <2> QED BY <1>2, <2>1, <2>3 DEF Moves
<1>12. Asked'
  BY <1>9, <1>10, <1>11 DEF Asked
<1> QED BY <1>3, <1>8, <1>12 DEF AgreeInv

LEMMA AgreeTerminal ==
  ASSUME AgreeInv, Terminal
  PROVE  AgreeInv'
<1> DEFINE ids == UNION {Held(product[t]) : t \in Tickers}
<1>1. /\ input' = input /\ plan' = plan /\ heap' = heap /\ pushed' = pushed /\ nextId' = nextId /\ traded' = traded
      /\ ledger' = Ended(ledger, ids) /\ product' = [t \in Tickers |-> Emptied(product[t])]
      /\ phase' = "raised" \/ phase' = "writing"
      /\ disk' = disk \/ disk' = [disk EXCEPT !.output = "absent"]
  BY DEF Terminal
<1>2. Types /\ \A t \in Tickers : Agrees(product[t])
  BY DEF AgreeInv
<1>3. \A t \in Tickers : Agrees(product'[t]) /\ Held(product'[t]) = {}
  BY <1>1, <1>2, AgreesEmptied
<1> HIDE DEF ids
<1>4. /\ ledger' \in [OrderIds -> EntryRecord]
      /\ \A o \in OrderIds : ledger'[o].admitted = ledger[o].admitted /\ (o \notin ids => ledger'[o] = ledger[o])
  BY <1>1, <1>2, EndedIs
<1>5. disk' \in Disks /\ phase' \in Phases
  BY <1>1, <1>2 DEF Types, Disks, Phases
<1>6. DOMAIN product' = Tickers
  BY <1>1
<1>7. \A b \in heap : ActionOk(b)'
  BY <1>1, <1>2 DEF Types, ActionOk, Trades
<1>8. Types'
  BY <1>1, <1>2, <1>4, <1>5, <1>6, <1>7 DEF Types, Disks
<1>9. \A o \in OrderIds : o >= nextId => o \notin ids
  <2>1. \A t \in Tickers : \A o \in Held(product[t]) : o \in Nat /\ o < nextId
    BY HeldIs
  <2>2. nextId \in Nat
    BY <1>2, ConfigurationAssumption DEF Types
  <2> QED BY <2>1, <2>2 DEF ids
<1>10. Asked'
  BY <1>1, <1>3, <1>4, <1>9 DEF AgreeInv, Asked
<1> QED BY <1>3, <1>8, <1>10 DEF AgreeInv

\* The rest of the run: a refusal, the files, an exception, the end.
LEMMA AgreeOthers ==
  ASSUME AgreeInv, Refused \/ MissingRow \/ Publish \/ Raise \/ UNCHANGED vars
  PROVE  AgreeInv'
<1>1. UNCHANGED <<input, plan, heap, pushed, nextId, product, ledger, traded>>
  BY DEF Refused, MissingRow, Publish, Raise, vars, runVars
<1>2. phase \in Phases /\ disk \in Disks
  BY DEF AgreeInv, Types, Disks
<1>3. phase' \in Phases
  BY <1>2 DEF Refused, MissingRow, Publish, Write, PublishOutput, PublishTelemetry, CloseOracles,
       Raise, vars, Phases
<1>4. disk' \in Disks
  <2>1. \A v \in {"absent", "partial", "final"} :
          [disk EXCEPT !.output = v] \in Disks /\ [disk EXCEPT !.telemetry = v] \in Disks
    BY <1>2 DEF Disks
  <2>2. Removed \in Disks
    BY DEF Removed, Disks
  <2> QED BY <1>2, <2>1, <2>2 DEF Refused, MissingRow, Publish, Write, PublishOutput,
       PublishTelemetry, CloseOracles, Raise, vars, runVars
<1> QED BY <1>1, <1>3, <1>4, AgreeSame

LEMMA AgreeNext ==
  ASSUME AgreeInv, [Next]_vars
  PROVE  AgreeInv'
BY AgreeAccepted, AgreeRound, AgreeTerminal, AgreeOthers DEF Next, Step, Finished

LEMMA AgreeAlways == Spec => []AgreeInv
<1>1. Init => AgreeInv
  BY AgreeInit
<1>2. AgreeInv /\ [Next]_vars => AgreeInv'
  BY AgreeNext
<1> QED BY <1>1, <1>2, PTL DEF Spec

LEMMA AgreeMeans ==
  ASSUME AgreeInv
  PROVE  OraclesAgree
<1> SUFFICES ASSUME NEW t \in Tickers
             PROVE  LET run == product[t]
                        same(f, g) == /\ DOMAIN f = DOMAIN g
                                      /\ \A o \in DOMAIN f : f[o].side = g[o].side /\ f[o].remaining = g[o].quantity
                    IN /\ ~run.risk.error
                       /\ same(run.pending, run.risk.pending)
                       /\ same(run.live, run.risk.live)
                       /\ run.risk.clients = DOMAIN run.pending
  BY DEF OraclesAgree
<1>1. Agrees(product[t])
  BY DEF AgreeInv
<1> QED BY <1>1 DEF Agrees, AtRest, Mirrors

\* However the latencies order the decisions, acknowledgements, fills,
\* expiries and segments of all the products, the coordinator and each
\* product's risk oracle hold the same orders, and no call is answered by an
\* error.
THEOREM OraclesNeverDisagree == Spec => []OraclesAgree
<1>1. AgreeInv => OraclesAgree
  BY AgreeMeans
<1> QED BY <1>1, AgreeAlways, PTL

-----------------------------------------------------------------------------
(* 7. Every order ends once. *)

\* What a round does to the segments of the products.
Turns(a) ==
  IF a.kind = "segment"
    THEN /\ product'[Market(a)].segment = Row(a).segment
         /\ \A t \in Tickers \ {Market(a)} : product'[t] = product[t]
         /\ product'[Market(a)].seen = Mine(a).seen \/ Held(product'[Market(a)]) = {}
  ELSE /\ \A t \in Tickers : product'[t].segment = product[t].segment /\ (product[t].seen => product'[t].seen)
       /\ a.kind = "feature" /\ InSegment(a) => product'[Market(a)].seen

LEMMA TurnsOne ==
  ASSUME AgreeInv, NEW a \in heap, a.kind # "segment", NEW n, Becomes(a, n),
         n.segment = Mine(a).segment, Mine(a).seen => n.seen, a.kind = "feature" => n.seen
  PROVE  Turns(a)
<1>1. Market(a) \in Tickers /\ DOMAIN product = Tickers
  BY TakenIs DEF Types
<1>2. /\ product'[Market(a)] = n
      /\ \A t \in Tickers \ {Market(a)} : product'[t] = product[t]
  BY <1>1 DEF Becomes
<1> QED BY <1>2 DEF Turns, Mine

LEMMA TurnsNone ==
  ASSUME NEW a, a.kind # "segment", product' = product, a.kind = "feature" => ~InSegment(a)
  PROVE  Turns(a)
BY DEF Turns

LEMMA RoundTurns ==
  ASSUME AgreeInv, NEW a \in heap, Round(a)
  PROVE  Turns(a)
<1> DEFINE m == Mine(a)
           o == a.order
<1>1. /\ Market(a) \in Tickers /\ Agrees(m) /\ DOMAIN m = {"segment", "seen", "next", "pending", "live", "risk"}
      /\ DOMAIN product = Tickers
  BY TakenIs DEF IsRuntime, Types
<1>2. CASE Segment(a)
  <2> DEFINE ended == [Emptied(m) EXCEPT !.segment = Row(a).segment, !.seen = FALSE, !.next = -1]
             entered == [m EXCEPT !.segment = Row(a).segment]
  <2>1. a.kind = "segment"
    BY <1>2 DEF Segment, Pop
  <2>2. Agrees(Emptied(m)) /\ Held(Emptied(m)) = {}
    BY <1>1, AgreesEmptied
  <2>3. ended.segment = Row(a).segment /\ Held(ended) = {}
    <3>1. DOMAIN Emptied(m) = {"segment", "seen", "next", "pending", "live", "risk"}
      BY <2>2 DEF Agrees, IsRuntime
    <3>2. /\ ended.segment = Row(a).segment /\ ended.pending = Emptied(m).pending /\ ended.live = Emptied(m).live
      BY <3>1
    <3> QED BY <2>2, <3>2 DEF Held
  <2>4. entered.segment = Row(a).segment /\ entered.seen = m.seen
    BY <1>1
  <2>5. Becomes(a, ended) \/ Becomes(a, entered)
    BY <1>2 DEF Segment
  <2> HIDE DEF ended, entered
  <2>6. PICK n \in {ended, entered} : Becomes(a, n)
    BY <2>5
  <2>7. n.segment = Row(a).segment /\ (n.seen = m.seen \/ Held(n) = {})
    BY <2>3, <2>4
  <2>8. product'[Market(a)] = n /\ \A t \in Tickers \ {Market(a)} : product'[t] = product[t]
    BY <1>1, <2>6 DEF Becomes
  <2> QED BY <2>1, <2>7, <2>8 DEF Turns
<1>3. CASE Feature(a)
  <2> DEFINE n == [m EXCEPT !.seen = TRUE, !.next = IF a.time >= m.next THEN a.time + Policy(a).interval ELSE m.next]
  <2>1. Becomes(a, n) /\ a.kind = "feature"
    BY <1>3 DEF Feature, Pop
  <2>2. n.segment = m.segment /\ n.seen
    BY <1>1
  <2> HIDE DEF n
  <2> QED BY <2>1, <2>2, TurnsOne
<1>4. CASE Raises(a) \/ StaleAction(a) \/ Trade(a) \/ Decision(a) \/ Command(a)
  <2>1. product' = product /\ a.kind # "segment"
    BY <1>4 DEF Raises, CrossesSegment, FractionalFill, InexactCommand, Fails, StaleAction, Trade,
         Decision, Command, Pop
  <2>2. a.kind = "feature" => ~InSegment(a)
    BY <1>4 DEF Raises, CrossesSegment, FractionalFill, InexactCommand, Fails, StaleAction, Trade,
         Decision, Command, Pop
  <2> QED BY <2>1, <2>2, TurnsNone
<1>5. CASE Fill(a)
  <2> DEFINE q == Smallest(m.live[o].remaining, a.quantity)
             left == m.live[o].remaining - q
             n == [m EXCEPT !.risk = Filled(m.risk, o, m.live[o].side, q),
                            !.live = IF left = 0 THEN Without(m.live, {o}) ELSE [m.live EXCEPT ![o].remaining = left]]
  <2>1. (Becomes(a, m) \/ Becomes(a, n)) /\ a.kind = "fill"
    BY <1>5 DEF Fill, Fillable, Pop
  <2>2. n.segment = m.segment /\ n.seen = m.seen
    BY <1>1
  <2> HIDE DEF n
  <2> QED BY <2>1, <2>2, TurnsOne
<1>6. CASE Risk(a)
  <2> DEFINE n == [m EXCEPT !.risk = Approved(m.risk, o, a.side, a.quantity), !.pending = With(m.pending, o, Order(a))]
  <2>1. (Becomes(a, m) \/ Becomes(a, n)) /\ a.kind = "risk"
    BY <1>6 DEF Risk, Pop
  <2>2. n.segment = m.segment /\ n.seen = m.seen
    BY <1>1
  <2> HIDE DEF n
  <2> QED BY <2>1, <2>2, TurnsOne
<1> DEFINE rejected == [m EXCEPT !.pending = Without(m.pending, {o}), !.risk = Rejected(m.risk, {o})]
           cancelled == [m EXCEPT !.live = Without(m.live, {o}), !.risk = Cancelled(m.risk, {o})]
           live == [m EXCEPT !.pending = Without(m.pending, {o}), !.live = With(m.live, o, m.pending[o]),
                             !.risk = Acknowledged(m.risk, o, m.pending[o].side, m.pending[o].remaining)]
<1>7. /\ rejected.segment = m.segment /\ rejected.seen = m.seen
      /\ cancelled.segment = m.segment /\ cancelled.seen = m.seen
      /\ live.segment = m.segment /\ live.seen = m.seen
  BY <1>1
<1>8. CASE Ack(a)
  <2>1. (Becomes(a, m) \/ Becomes(a, rejected) \/ Becomes(a, live)) /\ a.kind = "ack"
    BY <1>8 DEF Ack, Pop
  <2> HIDE DEF rejected, live, cancelled
  <2> QED BY <1>7, <2>1, TurnsOne
<1>9. CASE Cancel(a)
  <2>1. (Becomes(a, m) \/ Becomes(a, rejected) \/ Becomes(a, cancelled)) /\ a.kind = "cancel"
    BY <1>9 DEF Cancel, Pop
  <2> HIDE DEF rejected, live, cancelled
  <2> QED BY <1>7, <2>1, TurnsOne
<1> QED BY <1>2, <1>3, <1>4, <1>5, <1>6, <1>8, <1>9 DEF Round, Raises

LEMMA OpenedRound ==
  ASSUME AgreeInv, Opened, NEW a \in heap, Round(a)
  PROVE  Opened'
<1>1. /\ \A b \in heap' : b \in heap \ {a} \/ Spawned(a, b)
      /\ heap \ {a} \subseteq heap'
  BY HeapAfter
<1>2. Moves(a) /\ Turns(a)
  BY RoundMoves, RoundTurns
<1>3. input' = input /\ \A b : Row(b)' = Row(b) /\ Market(b)' = Market(b)
  BY <1>2 DEF Moves, Row, Market
<1>4. \A b \in heap : Market(b) \in Tickers /\ ActionOk(b)
  BY TakenIs
<1>5. \A b : Spawned(a, b) => /\ b.kind \in Derived /\ Row(b) = Row(a) /\ Market(b) = Market(a)
                              /\ InSegment(a) /\ a.kind # "segment" /\ b.kind # "segment"
                              /\ a.kind \in Derived \/ a.kind = "feature" \/ (a.kind = "trade" /\ Held(Mine(a)) # {})
  BY DEF Spawned, Row, Market, Derived
<1>6. \A b \in heap : b.kind = "segment" =>
        /\ product[Market(b)].segment # Row(b).segment
        /\ \A c \in heap : c.kind \in Derived => ~SameBook(Row(b), Row(c))
        /\ \A c \in heap : c.kind = "segment" /\ c.causal = b.causal => c = b
  BY DEF Opened
<1>7. \A b, c \in heap : b.kind = "segment" /\ c.kind = "segment" /\ SameBook(Row(b), Row(c)) => b = c
  <2>1. \A b \in heap : b.kind = "segment" => b.causal \in DOMAIN input /\ IsBoundary(input[b.causal])
    BY <1>4 DEF ActionOk
  <2>2. \A i, j \in DOMAIN input :
          IsBoundary(input[i]) /\ IsBoundary(input[j]) /\ SameBook(input[i], input[j]) => i = j
    BY InputsAssumption DEF AgreeInv, Types
  <2> QED BY <1>6, <2>1, <2>2 DEF Row
<1>8. ASSUME NEW b \in heap \ {a}, b.kind = "segment"
      PROVE  product'[Market(b)].segment # Row(b).segment
  <2>1. CASE a.kind = "segment" /\ Market(b) = Market(a)
    <3>1. Row(b).segment # Row(a).segment
      BY <1>7, <1>8, <2>1 DEF SameBook, Market
    <3> QED BY <1>2, <2>1, <3>1 DEF Turns
  <2>2. CASE ~(a.kind = "segment" /\ Market(b) = Market(a))
    <3>1. product'[Market(b)].segment = product[Market(b)].segment
      BY <1>2, <1>4, <2>2 DEF Turns
    <3> QED BY <1>6, <1>8, <3>1
  <2> QED BY <2>1, <2>2
<1>9. ASSUME NEW b \in heap', b.kind = "segment", NEW c \in heap', c.kind \in Derived
      PROVE  ~SameBook(Row(b), Row(c))
  <2>1. b \in heap \ {a}
    BY <1>1, <1>5, <1>9
  <2>2. CASE c \in heap
    BY <1>6, <1>9, <2>1, <2>2
  <2>3. CASE Spawned(a, c)
    <3>1. Row(c) = Row(a) /\ Row(a).segment = product[Row(a).ticker].segment
      BY <1>5, <2>3 DEF InSegment, Mine, Market
    <3> QED BY <1>6, <1>9, <2>1, <3>1 DEF SameBook, Market
  <2> QED BY <1>1, <2>2, <2>3
<1>10. \A b \in heap' : b.kind = "segment" =>
        /\ product'[Market(b)].segment # Row(b).segment
        /\ \A c \in heap' : c.kind \in Derived => ~SameBook(Row(b), Row(c))
        /\ \A c \in heap' : c.kind = "segment" /\ c.causal = b.causal => c = b
  <2>1. \A b \in heap' : b.kind = "segment" => b \in heap \ {a}
    BY <1>1, <1>5
  <2> QED BY <1>6, <1>8, <1>9, <2>1
<1>11. ASSUME NEW b \in heap', b.kind \in Derived, Row(b).segment = product'[Market(b)].segment
       PROVE  product'[Market(b)].seen
  <2>1. CASE b \in heap
    <3>1. Market(b) \in Tickers
      BY <1>4, <2>1
    <3>2. CASE a.kind = "segment"
      <4>1. Market(b) # Market(a)
        <5>1. ~SameBook(Row(a), Row(b))
          BY <1>6, <1>11, <2>1, <3>2
        <5> QED BY <1>2, <1>11, <3>2, <5>1 DEF Turns, SameBook, Market
      <4>2. product'[Market(b)] = product[Market(b)]
        BY <1>2, <3>1, <3>2, <4>1 DEF Turns
      <4> QED BY <1>11, <2>1, <4>2 DEF Opened, InSegment, Mine
    <3>3. CASE a.kind # "segment"
      <4>1. /\ product'[Market(b)].segment = product[Market(b)].segment
            /\ product[Market(b)].seen => product'[Market(b)].seen
        BY <1>2, <3>1, <3>3 DEF Turns
      <4> QED BY <1>11, <2>1, <4>1 DEF Opened, InSegment, Mine
    <3> QED BY <3>2, <3>3
  <2>2. CASE Spawned(a, b)
    <3>1. /\ Market(b) = Market(a) /\ Market(a) \in Tickers /\ a.kind # "segment" /\ InSegment(a)
          /\ a.kind \in Derived \/ a.kind = "feature" \/ (a.kind = "trade" /\ Held(Mine(a)) # {})
      BY <1>4, <1>5, <2>2
    <3>2. a.kind = "feature" \/ product[Market(a)].seen
      BY <3>1 DEF Opened, Mine
    <3> QED BY <1>2, <3>1, <3>2 DEF Turns
  <2> QED BY <1>1, <2>1, <2>2
<1>12. ASSUME NEW t \in Tickers
       PROVE  product'[t].seen \/ Held(product'[t]) = {}
  <2>1. product[t].seen \/ Held(product[t]) = {}
    BY DEF Opened
  <2>2. a.kind = "risk" /\ InSegment(a) => product[Market(a)].seen
    BY DEF Opened, Mine, Derived
  <2>3. CASE a.kind = "segment"
    <3>1. Held(product'[t]) \subseteq Held(product[t])
      BY <1>2, <2>3 DEF Moves
    <3>2. product'[t].seen = product[t].seen \/ Held(product'[t]) = {}
      BY <1>2, <2>3 DEF Turns, Mine
    <3> QED BY <2>1, <3>1, <3>2
  <2>4. CASE a.kind # "segment"
    <3>1. product[t].seen => product'[t].seen
      BY <1>2, <2>4 DEF Turns
    <3>2. ~product[t].seen => Held(product'[t]) = {}
      BY <1>2, <2>1, <2>2 DEF Moves
    <3> QED BY <3>1, <3>2
  <2> QED BY <2>3, <2>4
<1>13. \A b \in heap' : b.kind \in Derived /\ InSegment(b)' => product'[Market(b)].seen
  BY <1>3, <1>11 DEF InSegment, Mine
<1> QED BY <1>3, <1>10, <1>12, <1>13 DEF Opened, Mine

\* What happens to one order that keeps being held, and to one that does not.
SameEntry(e, f) == e.quantity = f.quantity /\ e.admitted = f.admitted /\ e.filled = f.filled

\* The orders of ids end; what is left of the others stays.
Settles(ids) ==
  /\ nextId' = nextId
  /\ ids \subseteq UNION {Held(product[t]) : t \in Tickers}
  /\ \A t \in Tickers :
       /\ Held(product'[t]) = Held(product[t]) \ ids
       /\ \A o \in Held(product'[t]) : RemainingOf(product'[t], o) = RemainingOf(product[t], o)
  /\ \A o \in OrderIds :
       /\ SameEntry(ledger'[o], ledger[o])
       /\ ledger'[o].endings = ledger[o].endings + (IF o \in ids THEN 1 ELSE 0)
       /\ ledger[o].admitted \/ ledger'[o].acks = ledger[o].acks

\* An order that a product holds and that is not filled whole yet.
LEMMA HeldEntry ==
  ASSUME AgreeInv, Accounted, NEW t \in Tickers, NEW o \in Held(product[t])
  PROVE  /\ o \in OrderIds /\ ledger[o].admitted /\ ledger[o].quantity = Quantity
         /\ ledger[o].endings = 0 /\ ledger[o].filled + RemainingOf(product[t], o) = Quantity
         /\ RemainingOf(product[t], o) \in Nat \ {0} /\ ledger[o].filled \in Nat /\ ledger[o].filled < Quantity
         /\ \A u \in Tickers : o \in Held(product[u]) => u = t
<1>1. o \in OrderIds /\ o < nextId /\ ledger[o].admitted
  BY DEF AgreeInv, Asked
<1>2. RemainingOf(product[t], o) \in Nat \ {0}
  BY HeldIs DEF RemainingOf, Held
<1>3. ledger[o].filled \in Nat
  BY <1>1, EntryIs DEF AgreeInv
<1>4. ledger[o].quantity = Quantity /\ ledger[o].endings = 0 /\ ledger[o].filled + RemainingOf(product[t], o) = Quantity
  BY <1>1 DEF Accounted
<1>5. \A u \in Tickers : o \in Held(product[u]) => u = t
  BY DEF Accounted
<1>6. ledger[o].filled < Quantity
  BY <1>2, <1>3, <1>4, ConfigurationAssumption
<1> QED BY <1>1, <1>2, <1>3, <1>4, <1>5, <1>6

LEMMA SettledAccounted ==
  ASSUME AgreeInv, Accounted, NEW ids, Settles(ids)
  PROVE  Accounted'
<1>1. \A o \in OrderIds :
        /\ SameEntry(ledger'[o], ledger[o])
        /\ ledger'[o].endings = ledger[o].endings + (IF o \in ids THEN 1 ELSE 0)
        /\ ledger[o].admitted \/ ledger'[o].acks = ledger[o].acks
  BY DEF Settles
<1>2. \A o \in OrderIds : ledger[o].endings \in Nat
  BY EntryIs DEF AgreeInv
<1>3. \A o \in ids : \E t \in Tickers : o \in Held(product[t])
  BY DEF Settles
<1>4. \A o \in OrderIds : ~ledger[o].admitted => o \notin ids
  BY <1>3, HeldEntry
<1>5. \A o \in OrderIds : o < nextId' => ledger'[o].quantity = Quantity /\ ledger'[o].filled <= Quantity
  BY <1>1 DEF Accounted, Settles, SameEntry
<1>6. \A o \in OrderIds : ~ledger'[o].admitted => Untouched(ledger'[o])
  BY <1>1, <1>2, <1>4 DEF Accounted, SameEntry, Untouched
<1>7. ASSUME NEW t \in Tickers, NEW o \in Held(product'[t])
      PROVE  /\ ledger'[o].endings = 0 /\ ledger'[o].filled + RemainingOf(product'[t], o) = Quantity
             /\ \A u \in Tickers : o \in Held(product'[u]) => t = u
  <2>1. o \in Held(product[t]) /\ o \notin ids /\ RemainingOf(product'[t], o) = RemainingOf(product[t], o)
    BY DEF Settles
  <2>2. /\ o \in OrderIds /\ ledger[o].endings = 0 /\ ledger[o].filled + RemainingOf(product[t], o) = Quantity
        /\ \A u \in Tickers : o \in Held(product[u]) => t = u
    BY <2>1, HeldEntry
  <2>3. \A u \in Tickers : o \in Held(product'[u]) => o \in Held(product[u])
    BY DEF Settles
  <2> QED BY <1>1, <2>1, <2>2, <2>3 DEF SameEntry
<1>8. ASSUME NEW o \in OrderIds, ledger'[o].admitted, \A t \in Tickers : o \notin Held(product'[t])
      PROVE  Closed(ledger'[o])
  <2>1. SameEntry(ledger'[o], ledger[o]) /\ ledger[o].admitted
    BY <1>1, <1>8 DEF SameEntry
  <2>2. CASE o \in ids
    <3>1. PICK t \in Tickers : o \in Held(product[t])
      BY <1>3, <2>2
    <3>2. ledger[o].quantity = Quantity /\ ledger[o].endings = 0 /\ ledger[o].filled \in Nat /\ ledger[o].filled < Quantity
      BY <3>1, HeldEntry
    <3>3. Quantity \in Nat
      BY ConfigurationAssumption
    <3> QED BY <1>1, <2>1, <2>2, <3>2, <3>3 DEF SameEntry, Closed
  <2>3. CASE o \notin ids
    <3>1. \A t \in Tickers : o \notin Held(product[t])
      BY <1>8, <2>3 DEF Settles
    <3>2. Closed(ledger[o])
      BY <2>1, <3>1 DEF Accounted
    <3>3. ledger'[o].endings = ledger[o].endings
      BY <1>1, <1>2, <2>3
    <3> QED BY <2>1, <3>2, <3>3 DEF SameEntry, Closed
  <2> QED BY <2>2, <2>3
<1> QED BY <1>5, <1>6, <1>7, <1>8 DEF Accounted

\* One product's orders end, or none.
LEMMA SettlesOne ==
  ASSUME AgreeInv, NEW a, Market(a) \in Tickers, NEW n, Agrees(n), Becomes(a, n), NEW ids,
         ids \subseteq Held(Mine(a)), Held(n) = Held(Mine(a)) \ ids,
         \A o \in Held(n) : RemainingOf(n, o) = RemainingOf(Mine(a), o),
         nextId' = nextId,
         \A t \in Tickers \ {Market(a)} : Held(product[t]) \cap ids = {},
         \A o \in OrderIds :
           /\ SameEntry(ledger'[o], ledger[o])
           /\ ledger'[o].endings = ledger[o].endings + (IF o \in ids THEN 1 ELSE 0)
           /\ ledger[o].admitted \/ ledger'[o].acks = ledger[o].acks
  PROVE  Settles(ids)
<1>1. /\ product'[Market(a)] = n
      /\ \A t \in Tickers \ {Market(a)} : product'[t] = product[t]
  BY BecomesOf
<1>2. ASSUME NEW t \in Tickers
      PROVE  /\ Held(product'[t]) = Held(product[t]) \ ids
             /\ \A o \in Held(product'[t]) : RemainingOf(product'[t], o) = RemainingOf(product[t], o)
  <2>1. CASE t = Market(a)
    BY <1>1, <2>1 DEF Mine
  <2>2. CASE t # Market(a)
    BY <1>1, <2>2
  <2> QED BY <2>1, <2>2
<1>3. ids \subseteq UNION {Held(product[t]) : t \in Tickers}
  BY DEF Mine
<1> QED BY <1>2, <1>3 DEF Settles

LEMMA SettlesNone ==
  ASSUME AgreeInv, product' = product, ledger' = ledger, nextId' = nextId
  PROVE  Settles({})
<1>1. \A o \in OrderIds : ledger[o].endings \in Nat
  BY EntryIs DEF AgreeInv
<1> QED BY <1>1 DEF Settles, SameEntry

LEMMA OneHolder ==
  ASSUME AgreeInv, Accounted, NEW a, Market(a) \in Tickers, NEW ids, ids \subseteq Held(Mine(a))
  PROVE  \A t \in Tickers \ {Market(a)} : Held(product[t]) \cap ids = {}
BY DEF Accounted, Mine

LEMMA EndedSettles ==
  ASSUME Types, NEW ids, ledger' = Ended(ledger, ids)
  PROVE  \A o \in OrderIds :
           /\ SameEntry(ledger'[o], ledger[o])
           /\ ledger'[o].endings = ledger[o].endings + (IF o \in ids THEN 1 ELSE 0)
           /\ ledger[o].admitted \/ ledger'[o].acks = ledger[o].acks
BY EndedIs DEF SameEntry

LEMMA KeptSettles ==
  ASSUME Types, ledger' = ledger
  PROVE  \A o \in OrderIds :
           /\ SameEntry(ledger'[o], ledger[o])
           /\ ledger'[o].endings = ledger[o].endings + (IF o \in {} THEN 1 ELSE 0)
           /\ ledger[o].admitted \/ ledger'[o].acks = ledger[o].acks
BY EntryIs DEF SameEntry

LEMMA SegmentSettles ==
  ASSUME AgreeInv, Accounted, Opened, NEW a \in heap, Segment(a)
  PROVE  \E ids : Settles(ids)
<1> DEFINE m == Mine(a)
           changes == m.segment \notin {None, Row(a).segment}
           ended == [Emptied(m) EXCEPT !.segment = Row(a).segment, !.seen = FALSE, !.next = -1]
           entered == [m EXCEPT !.segment = Row(a).segment]
<1>1. /\ Market(a) \in Tickers /\ Agrees(m) /\ IsRuntime(m) /\ Types
  BY TakenIs
<1>2. nextId' = nextId
  BY DEF Segment
<1>3. CASE changes
  <2>1. Becomes(a, ended) /\ ledger' = IF m.seen THEN Ended(ledger, Held(m)) ELSE ledger
    BY <1>3 DEF Segment
  <2>2. /\ Agrees(Emptied(m)) /\ Held(Emptied(m)) = {} /\ IsRuntime(Emptied(m))
    BY <1>1, AgreesEmptied DEF Agrees
  <2>3. /\ IsRuntime(ended) /\ ended.pending = Emptied(m).pending /\ ended.live = Emptied(m).live
        /\ ended.risk = Emptied(m).risk
    BY <2>2 DEF IsRuntime
  <2> HIDE DEF ended
  <2>4. Agrees(ended) /\ Held(ended) = {}
    BY <2>2, <2>3, AgreesElsewhere DEF Held
  <2>5. m.seen \/ Held(m) = {}
    BY <1>1 DEF Opened, Mine
  <2> HIDE DEF m
  <2>6. \A o \in OrderIds :
          /\ SameEntry(ledger'[o], ledger[o])
          /\ ledger'[o].endings = ledger[o].endings + (IF o \in Held(m) THEN 1 ELSE 0)
          /\ ledger[o].admitted \/ ledger'[o].acks = ledger[o].acks
    <3>1. CASE m.seen
      BY <1>1, <2>1, <3>1, EndedSettles
    <3>2. CASE ~m.seen
      BY <1>1, <2>1, <2>5, <3>2, KeptSettles
    <3> QED BY <3>1, <3>2
  <2>7. \A t \in Tickers \ {Market(a)} : Held(product[t]) \cap Held(m) = {}
    BY <1>1, OneHolder DEF m
  <2>8. Settles(Held(m))
    BY <1>1, <1>2, <2>1, <2>4, <2>6, <2>7, SettlesOne DEF m
  <2> QED BY <2>8
<1>4. CASE ~changes
  <2>1. Becomes(a, entered) /\ ledger' = ledger
    BY <1>4 DEF Segment
  <2>2. /\ IsRuntime(entered) /\ entered.pending = m.pending /\ entered.live = m.live /\ entered.risk = m.risk
    BY <1>1 DEF IsRuntime
  <2> HIDE DEF entered, m
  <2>3. Agrees(entered) /\ Held(entered) = Held(m) /\ \A o \in Held(m) : RemainingOf(entered, o) = RemainingOf(m, o)
    BY <1>1, <2>2, AgreesElsewhere DEF Held, RemainingOf
  <2>4. Settles({})
    BY <1>1, <1>2, <2>1, <2>3, KeptSettles, SettlesOne DEF m
  <2> QED BY <2>4
<1> QED BY <1>3, <1>4

LEMMA FeatureSettles ==
  ASSUME AgreeInv, NEW a \in heap, Feature(a)
  PROVE  Settles({})
<1> DEFINE m == Mine(a)
           next == IF a.time >= m.next THEN a.time + Policy(a).interval ELSE m.next
           n == [m EXCEPT !.seen = TRUE, !.next = next]
<1>1. Market(a) \in Tickers /\ Agrees(m) /\ IsRuntime(m) /\ Types
  BY TakenIs
<1>2. Becomes(a, n) /\ nextId' = nextId /\ ledger' = ledger
  BY DEF Feature
<1>3. /\ IsRuntime(n) /\ n.pending = m.pending /\ n.live = m.live /\ n.risk = m.risk
  BY <1>1 DEF IsRuntime
<1> HIDE DEF n, m
<1>4. Agrees(n) /\ Held(n) = Held(m) /\ \A o \in Held(m) : RemainingOf(n, o) = RemainingOf(m, o)
  BY <1>1, <1>3, AgreesElsewhere DEF Held, RemainingOf
<1> QED BY <1>1, <1>2, <1>4, KeptSettles, SettlesOne DEF m

LEMMA CancelSettles ==
  ASSUME AgreeInv, Accounted, NEW a \in heap, Cancel(a)
  PROVE  \E ids : Settles(ids)
<1> DEFINE m == Mine(a)
           o == a.order
           rejected == [m EXCEPT !.pending = Without(m.pending, {o}), !.risk = Rejected(m.risk, {o})]
           cancelled == [m EXCEPT !.live = Without(m.live, {o}), !.risk = Cancelled(m.risk, {o})]
<1>1. /\ Market(a) \in Tickers /\ Agrees(m) /\ IsRuntime(m) /\ Types
  BY TakenIs
<1>2. /\ nextId' = nextId /\ ledger' = IF o \in Held(m) THEN Ended(ledger, {o}) ELSE ledger
  BY DEF Cancel
<1>3. \/ o \in DOMAIN m.pending /\ Becomes(a, rejected)
      \/ o \in DOMAIN m.live /\ Becomes(a, cancelled)
      \/ o \notin Held(m) /\ Becomes(a, m)
  BY DEF Cancel, Held
<1>4. /\ IsRuntime(rejected) /\ rejected.pending = Without(m.pending, {o}) /\ rejected.live = m.live
      /\ rejected.risk = Rejected(m.risk, {o})
  BY <1>1 DEF IsRuntime
<1>5. /\ IsRuntime(cancelled) /\ cancelled.pending = m.pending /\ cancelled.live = Without(m.live, {o})
      /\ cancelled.risk = Cancelled(m.risk, {o})
  BY <1>1 DEF IsRuntime
<1>6. DOMAIN m.pending \cap DOMAIN m.live = {}
  BY <1>1 DEF Agrees
<1> HIDE DEF m, rejected, cancelled, o
<1>7. CASE o \notin Held(m) /\ Becomes(a, m)
  <2>1. ledger' = ledger
    BY <1>2, <1>7
  <2>2. Settles({})
    BY <1>1, <1>2, <1>7, <2>1, KeptSettles, SettlesOne DEF m
  <2> QED BY <2>2
<1>8. ASSUME o \in Held(m), NEW n, Becomes(a, n), Agrees(n), Held(n) = Held(m) \ {o},
             \A c \in Held(n) : RemainingOf(n, c) = RemainingOf(m, c)
      PROVE  Settles({o})
  <2>1. ledger' = Ended(ledger, {o})
    BY <1>2, <1>8
  <2>2. \A t \in Tickers \ {Market(a)} : Held(product[t]) \cap {o} = {}
    BY <1>1, <1>8, OneHolder DEF m
  <2>3. {o} \subseteq Held(m)
    BY <1>8
  <2> QED BY <1>1, <1>2, <1>8, <2>1, <2>2, <2>3, EndedSettles, SettlesOne DEF m
<1>9. CASE o \in DOMAIN m.pending /\ Becomes(a, rejected)
  <2>1. Agrees(rejected)
    BY <1>1, <1>4, <1>9, AgreesRejected
  <2>2. /\ o \in Held(m) /\ Held(rejected) = Held(m) \ {o}
        /\ \A c \in Held(rejected) : RemainingOf(rejected, c) = RemainingOf(m, c)
    BY <1>4, <1>6, <1>9 DEF Held, RemainingOf, Without
  <2> QED BY <1>8, <1>9, <2>1, <2>2
<1>10. CASE o \in DOMAIN m.live /\ Becomes(a, cancelled)
  <2>1. Agrees(cancelled)
    BY <1>1, <1>5, AgreesCancelled
  <2>2. /\ o \in Held(m) /\ Held(cancelled) = Held(m) \ {o}
        /\ \A c \in Held(cancelled) : RemainingOf(cancelled, c) = RemainingOf(m, c)
    BY <1>5, <1>6, <1>10 DEF Held, RemainingOf, Without
  <2> QED BY <1>8, <1>10, <2>1, <2>2
<1> QED BY <1>3, <1>7, <1>9, <1>10

LEMMA AckSettles ==
  ASSUME AgreeInv, Accounted, NEW a \in heap, Ack(a)
  PROVE  \E ids : Settles(ids)
<1> DEFINE m == Mine(a)
           o == a.order
           d == m.pending[o]
           expires == a.time + Policy(a).lifetime
           rejected == [m EXCEPT !.pending = Without(m.pending, {o}), !.risk = Rejected(m.risk, {o})]
           live == [m EXCEPT !.pending = Without(m.pending, {o}), !.live = With(m.live, o, d),
                             !.risk = Acknowledged(m.risk, o, d.side, d.remaining)]
<1>1. /\ Market(a) \in Tickers /\ Agrees(m) /\ IsRuntime(m) /\ Types
  BY TakenIs
<1>2. nextId' = nextId /\ ledger \in [OrderIds -> EntryRecord]
  BY <1>1 DEF Ack, Types
<1>3. DOMAIN m.pending \cap DOMAIN m.live = {}
  BY <1>1 DEF Agrees
<1>4. CASE o \notin DOMAIN m.pending
  <2>1. Becomes(a, m) /\ ledger' = ledger
    BY <1>4 DEF Ack
  <2> HIDE DEF m
  <2>2. Settles({})
    BY <1>1, <1>2, <2>1, KeptSettles, SettlesOne DEF m
  <2> QED BY <2>2
<1>5. CASE o \in DOMAIN m.pending
  <2>1. \/ Becomes(a, rejected) /\ ledger' = Ended(ledger, {o})
        \/ Becomes(a, live) /\ ledger' = [ledger EXCEPT ![o].acks = ledger[o].acks + 1, ![o].expires = expires]
    BY <1>5 DEF Ack
  <2>2. o \in Held(m)
    BY <1>5 DEF Held
  <2>3. /\ IsRuntime(rejected) /\ rejected.pending = Without(m.pending, {o}) /\ rejected.live = m.live
        /\ rejected.risk = Rejected(m.risk, {o})
    BY <1>1 DEF IsRuntime
  <2>4. /\ IsRuntime(live) /\ live.pending = Without(m.pending, {o}) /\ live.live = With(m.live, o, d)
        /\ live.risk = Acknowledged(m.risk, o, d.side, d.remaining)
    BY <1>1 DEF IsRuntime
  <2>5. o \in OrderIds /\ ledger[o].admitted
    BY <1>1, <2>2, HeldEntry DEF m, Mine
  <2> HIDE DEF m, rejected, live, expires, o
  <2>6. CASE Becomes(a, rejected) /\ ledger' = Ended(ledger, {o})
    <3>1. Agrees(rejected)
      BY <1>1, <1>5, <2>3, AgreesRejected
    <3>2. /\ {o} \subseteq Held(m) /\ Held(rejected) = Held(m) \ {o}
          /\ \A c \in Held(rejected) : RemainingOf(rejected, c) = RemainingOf(m, c)
      BY <1>3, <1>5, <2>2, <2>3 DEF Held, RemainingOf, Without
    <3>3. \A t \in Tickers \ {Market(a)} : Held(product[t]) \cap {o} = {}
      BY <1>1, <3>2, OneHolder DEF m
    <3>4. Settles({o})
      BY <1>1, <1>2, <2>6, <3>1, <3>2, <3>3, EndedSettles, SettlesOne DEF m
    <3> QED BY <3>4
  <2>7. CASE /\ Becomes(a, live)
             /\ ledger' = [ledger EXCEPT ![o].acks = ledger[o].acks + 1, ![o].expires = expires]
    <3>1. Agrees(live)
      BY <1>1, <1>5, <2>4, AgreesAcknowledged
    <3>2. /\ Held(live) = Held(m)
          /\ \A c \in Held(live) : RemainingOf(live, c) = RemainingOf(m, c)
      BY <1>3, <1>5, <2>4 DEF Held, RemainingOf, With, Without
    <3> DEFINE e == [ledger[o] EXCEPT !.acks = ledger[o].acks + 1, !.expires = expires]
    <3>3. ledger' = [ledger EXCEPT ![o] = e]
      BY <1>2, <2>5, <2>7
    <3>4. SameEntry(e, ledger[o]) /\ e.endings = ledger[o].endings /\ ledger[o].endings \in Nat
      BY <1>1, <2>5, EntryIs DEF SameEntry
    <3> HIDE DEF e
    <3>5. \A c \in OrderIds :
            /\ SameEntry(ledger'[c], ledger[c])
            /\ ledger'[c].endings = ledger[c].endings + (IF c \in {} THEN 1 ELSE 0)
            /\ ledger[c].admitted \/ ledger'[c].acks = ledger[c].acks
      <4>1. ledger'[o] = e /\ \A c \in OrderIds \ {o} : ledger'[c] = ledger[c]
        BY <1>2, <2>5, <3>3
      <4>2. \A c \in OrderIds : SameEntry(ledger[c], ledger[c]) /\ ledger[c].endings \in Nat
        BY <1>1, EntryIs DEF SameEntry
      <4> QED BY <2>5, <3>4, <4>1, <4>2
    <3>6. Settles({})
      BY <1>1, <1>2, <2>7, <3>1, <3>2, <3>5, SettlesOne DEF m
    <3> QED BY <3>6
  <2> QED BY <2>1, <2>6, <2>7
<1> QED BY <1>4, <1>5

LEMMA OthersSettle ==
  ASSUME AgreeInv, NEW a \in heap, Trade(a) \/ Decision(a) \/ StaleAction(a) \/ Raises(a)
  PROVE  Settles({})
<1>1. product' = product /\ ledger' = ledger /\ nextId' = nextId
  BY DEF Trade, Decision, StaleAction, Raises, CrossesSegment, FractionalFill, InexactCommand, Fails
<1> QED BY <1>1, SettlesNone

LEMMA CommandAccounted ==
  ASSUME AgreeInv, Accounted, NEW a \in heap, Command(a)
  PROVE  Accounted'
<1> DEFINE e == [ledger[nextId] EXCEPT !.quantity = Quantity, !.causal = a.causal]
<1>1. /\ Types /\ nextId' = nextId + 1 /\ product' = product /\ nextId \in OrderIds /\ nextId \in Nat
      /\ ledger' = [ledger EXCEPT ![nextId] = e] /\ ledger \in [OrderIds -> EntryRecord]
  <2>1. ledger' = [ledger EXCEPT ![nextId].quantity = Quantity, ![nextId].causal = a.causal]
    BY DEF Command
  <2> QED BY <2>1, TakenIs DEF Command, Types
<1>2. ledger[nextId] = Entry
  BY <1>1 DEF AgreeInv, Asked
<1>3. e.quantity = Quantity /\ e.filled = 0 /\ ~e.admitted /\ Untouched(e)
  BY <1>2 DEF Entry, Untouched
<1> HIDE DEF e
<1>4. ledger'[nextId] = e /\ \A o \in OrderIds \ {nextId} : ledger'[o] = ledger[o]
  BY <1>1
<1>5. \A t \in Tickers : nextId \notin Held(product[t])
  BY <1>1, HeldIs
<1>6. OrderIds \subseteq Nat /\ Quantity \in Nat
  BY ConfigurationAssumption DEF OrderIds
<1>7. \A o \in OrderIds : o < nextId' => ledger'[o].quantity = Quantity /\ ledger'[o].filled <= Quantity
  <2> SUFFICES ASSUME NEW o \in OrderIds, o < nextId'
               PROVE  ledger'[o].quantity = Quantity /\ ledger'[o].filled <= Quantity
    OBVIOUS
  <2>1. CASE o = nextId
    BY <1>3, <1>4, <1>6, <2>1
  <2>2. CASE o # nextId
    <3>1. o < nextId
      BY <1>1, <1>6, <2>2
    <3> QED BY <1>4, <2>2, <3>1 DEF Accounted
  <2> QED BY <2>1, <2>2
<1>8. \A o \in OrderIds : ~ledger'[o].admitted => Untouched(ledger'[o])
  BY <1>3, <1>4 DEF Accounted
<1>9. ASSUME NEW t \in Tickers, NEW o \in Held(product'[t])
      PROVE  /\ ledger'[o].endings = 0 /\ ledger'[o].filled + RemainingOf(product'[t], o) = Quantity
             /\ \A u \in Tickers : o \in Held(product'[u]) => t = u
  <2>1. o \in Held(product[t]) /\ o # nextId
    BY <1>1, <1>5
  <2>2. /\ o \in OrderIds /\ ledger[o].endings = 0 /\ ledger[o].filled + RemainingOf(product[t], o) = Quantity
        /\ \A u \in Tickers : o \in Held(product[u]) => t = u
    BY <2>1, HeldEntry
  <2> QED BY <1>1, <1>4, <2>1, <2>2
<1>10. \A o \in OrderIds : ledger'[o].admitted /\ (\A t \in Tickers : o \notin Held(product'[t])) => Closed(ledger'[o])
  BY <1>1, <1>3, <1>4 DEF Accounted
<1> QED BY <1>7, <1>8, <1>9, <1>10 DEF Accounted

LEMMA RiskAccounted ==
  ASSUME AgreeInv, Accounted, NEW a \in heap, Risk(a)
  PROVE  Accounted'
<1> DEFINE m == Mine(a)
           o == a.order
           d == Order(a)
           n == [m EXCEPT !.risk = Approved(m.risk, o, a.side, a.quantity), !.pending = With(m.pending, o, d)]
           e == [ledger[o] EXCEPT !.admitted = TRUE]
<1>1. /\ Market(a) \in Tickers /\ Agrees(m) /\ IsRuntime(m) /\ Types /\ nextId \in Nat
      /\ o \in Nat /\ o < nextId
  BY TakenIs
<1>2. nextId' = nextId /\ a.kind = "risk" /\ ledger \in [OrderIds -> EntryRecord]
  BY <1>1 DEF Risk, Pop, Types
<1>3. CASE Becomes(a, m) /\ ledger' = ledger
  <2> HIDE DEF m
  <2>1. Settles({})
    BY <1>1, <1>2, <1>3, KeptSettles, SettlesOne DEF m
  <2> QED BY <2>1, SettledAccounted
<1>4. CASE Becomes(a, n) /\ ledger' = [ledger EXCEPT ![o].admitted = TRUE]
  <2>1. o \in OrderIds /\ a.quantity = Quantity /\ ~ledger[o].admitted
    BY <1>2 DEF AgreeInv, Asked
  <2>2. \A t \in Tickers : o \notin Held(product[t])
    BY <2>1 DEF AgreeInv, Asked
  <2>3. d.remaining = Quantity /\ d.side = a.side /\ IsOrder(d)
    BY <2>1, ConfigurationAssumption DEF Order, IsOrder
  <2>4. /\ IsRuntime(n) /\ n.pending = With(m.pending, o, d) /\ n.live = m.live
        /\ n.risk = Approved(m.risk, o, a.side, a.quantity)
    BY <1>1 DEF IsRuntime
  <2>5. Untouched(ledger[o]) /\ ledger[o].quantity = Quantity
    BY <1>1, <2>1 DEF Accounted
  <2>6. ledger' = [ledger EXCEPT ![o] = e]
    BY <1>4
  <2>7. e.quantity = Quantity /\ e.admitted /\ e.filled = 0 /\ e.endings = 0
    BY <1>1, <2>1, <2>5, EntryIs DEF Untouched
  <2> HIDE DEF m, n, o, d, e
  <2>8. Agrees(n)
    BY <1>1, <2>1, <2>2, <2>3, <2>4, AgreesApproved DEF m, Mine
  <2>9. /\ Held(n) = Held(m) \union {o} /\ RemainingOf(n, o) = Quantity
        /\ \A c \in Held(m) : c # o => RemainingOf(n, c) = RemainingOf(m, c)
    BY <2>3, <2>4 DEF Held, RemainingOf, With
  <2>10. /\ product'[Market(a)] = n
         /\ \A t \in Tickers \ {Market(a)} : product'[t] = product[t]
    BY <1>1, <1>4, <2>8, BecomesOf
  <2>11. ledger'[o] = e /\ \A c \in OrderIds \ {o} : ledger'[c] = ledger[c]
    BY <1>2, <2>1, <2>6
  <2>12. ASSUME NEW t \in Tickers
         PROVE  /\ \A c \in Held(product'[t]) : c \in Held(product[t]) \/ (c = o /\ t = Market(a))
                /\ \A c \in Held(product[t]) : c \in Held(product'[t]) /\ RemainingOf(product'[t], c) = RemainingOf(product[t], c)
    <3>1. CASE t = Market(a)
      <4>1. product[t] = m
        BY <3>1 DEF m, Mine
      <4> QED BY <2>2, <2>9, <2>10, <3>1, <4>1
    <3>2. CASE t # Market(a)
      BY <2>10, <3>2
    <3> QED BY <3>1, <3>2
  <2>13. RemainingOf(product'[Market(a)], o) = Quantity /\ o \in Held(product'[Market(a)])
    BY <2>9, <2>10
  <2>14. Quantity \in Nat
    BY ConfigurationAssumption
  <2>15. \A c \in OrderIds : c < nextId' => ledger'[c].quantity = Quantity /\ ledger'[c].filled <= Quantity
    BY <1>2, <2>7, <2>11, <2>14 DEF Accounted
  <2>16. \A c \in OrderIds : ~ledger'[c].admitted => Untouched(ledger'[c])
    BY <2>7, <2>11 DEF Accounted
  <2>17. ASSUME NEW t \in Tickers, NEW c \in Held(product'[t])
         PROVE  /\ ledger'[c].endings = 0 /\ ledger'[c].filled + RemainingOf(product'[t], c) = Quantity
                /\ \A u \in Tickers : c \in Held(product'[u]) => t = u
    <3>1. CASE c = o
      <4>1. t = Market(a) /\ \A u \in Tickers : c \in Held(product'[u]) => u = Market(a)
        BY <2>2, <2>12, <3>1
      <4> QED BY <2>7, <2>11, <2>13, <2>14, <3>1, <4>1
    <3>2. CASE c # o
      <4>1. c \in Held(product[t]) /\ RemainingOf(product'[t], c) = RemainingOf(product[t], c)
        BY <2>12, <3>2
      <4>2. /\ c \in OrderIds /\ ledger[c].endings = 0 /\ ledger[c].filled + RemainingOf(product[t], c) = Quantity
            /\ \A u \in Tickers : c \in Held(product[u]) => t = u
        BY <4>1, HeldEntry
      <4> QED BY <2>11, <2>12, <3>2, <4>1, <4>2
    <3> QED BY <3>1, <3>2
  <2>18. ASSUME NEW c \in OrderIds, ledger'[c].admitted, \A t \in Tickers : c \notin Held(product'[t])
         PROVE  Closed(ledger'[c])
    <3>1. c # o
      BY <1>1, <2>13, <2>18
    <3>2. \A t \in Tickers : c \notin Held(product[t])
      BY <2>12, <2>18
    <3> QED BY <2>11, <2>18, <3>1, <3>2 DEF Accounted
  <2> QED BY <2>15, <2>16, <2>17, <2>18 DEF Accounted
<1> QED BY <1>3, <1>4 DEF Risk

LEMMA FillAccounted ==
  ASSUME AgreeInv, Accounted, NEW a \in heap, Fill(a)
  PROVE  Accounted'
<1> DEFINE m == Mine(a)
           o == a.order
           q == Smallest(m.live[o].remaining, a.quantity)
           left == m.live[o].remaining - q
           live == IF left = 0 THEN Without(m.live, {o}) ELSE [m.live EXCEPT ![o].remaining = left]
           n == [m EXCEPT !.risk = Filled(m.risk, o, m.live[o].side, q), !.live = live]
           idle == o \notin DOMAIN m.live \/ m.live[o].segment # m.segment \/ q <= 0
           e == [ledger[o] EXCEPT !.filled = ledger[o].filled + q]
<1>1. /\ Market(a) \in Tickers /\ Agrees(m) /\ IsRuntime(m) /\ Types /\ a.quantity \in Nat
  BY TakenIs
<1>2. nextId' = nextId /\ ledger \in [OrderIds -> EntryRecord]
  BY <1>1 DEF Fill, Fillable, Types
<1>3. CASE idle
  <2>1. Becomes(a, m) /\ ledger' = ledger
    BY <1>3 DEF Fill, Fillable
  <2> HIDE DEF m
  <2>2. Settles({})
    BY <1>1, <1>2, <2>1, KeptSettles, SettlesOne DEF m
  <2> QED BY <2>2, SettledAccounted
<1>4. CASE ~idle
  <2>1. Becomes(a, n) /\ ledger' = [ledger EXCEPT ![o] = e]
    BY <1>4 DEF Fill, Fillable
  <2>2. o \in DOMAIN m.live /\ m.live[o].remaining \in Nat /\ DOMAIN m.live[o] = {"side", "price", "remaining", "segment", "causal"}
    BY <1>1, <1>4 DEF Agrees, IsOrder
  <2>3. q \in Nat \ {0} /\ q <= m.live[o].remaining
    <3>1. ~(q <= 0)
      BY <1>4
    <3> QED BY <1>1, <2>2, <3>1 DEF Smallest
  <2>4. o \in Held(m) /\ o \notin DOMAIN m.pending
    BY <1>1, <2>2 DEF Held, Agrees
  <2>5. IsRuntime(n) /\ n.pending = m.pending /\ n.live = live /\ n.risk = Filled(m.risk, o, m.live[o].side, q)
    BY <1>1 DEF IsRuntime
  <2>6. /\ o \in OrderIds /\ ledger[o].admitted /\ ledger[o].endings = 0 /\ ledger[o].quantity = Quantity
        /\ ledger[o].filled + RemainingOf(m, o) = Quantity /\ ledger[o].filled \in Nat
        /\ \A u \in Tickers : o \in Held(product[u]) => u = Market(a)
    BY <1>1, <2>4, HeldEntry DEF Mine
  <2>7. RemainingOf(m, o) = m.live[o].remaining
    BY <2>4 DEF RemainingOf
  <2>8. e.quantity = Quantity /\ e.admitted /\ e.endings = 0 /\ e.filled = ledger[o].filled + q
    BY <1>1, <2>6, EntryIs
  <2>9. ledger'[o] = e /\ \A c \in OrderIds \ {o} : ledger'[c] = ledger[c]
    BY <1>2, <2>1, <2>6
  <2>10. /\ left = 0 => live = Without(m.live, {o})
         /\ left # 0 => /\ DOMAIN live = DOMAIN m.live /\ live[o].remaining = left
                        /\ \A c \in DOMAIN m.live \ {o} : live[c] = m.live[c]
    BY <2>2
  <2>11. left = m.live[o].remaining - q /\ left \in Nat
    BY <2>2, <2>3
  <2> HIDE DEF m, n, q, idle, o, e, left
  <2>12. Agrees(n)
    BY <1>1, <2>2, <2>3, <2>5, AgreesFilled DEF left
  <2> HIDE DEF live
  <2>13. /\ Held(n) = IF left = 0 THEN Held(m) \ {o} ELSE Held(m)
         /\ left # 0 => RemainingOf(n, o) = left
         /\ \A c \in Held(n) \ {o} : RemainingOf(n, c) = RemainingOf(m, c)
    <3>1. CASE left = 0
      BY <2>4, <2>5, <2>10, <3>1 DEF Held, RemainingOf, Without
    <3>2. CASE left # 0
      BY <2>4, <2>5, <2>10, <3>2 DEF Held, RemainingOf
    <3> QED BY <3>1, <3>2
  <2>14. /\ product'[Market(a)] = n
         /\ \A t \in Tickers \ {Market(a)} : product'[t] = product[t]
    BY <1>1, <2>1, <2>12, BecomesOf
  <2>15. product[Market(a)] = m
    BY DEF m, Mine
  <2>16. Quantity \in Nat
    BY ConfigurationAssumption
  <2>17. e.filled \in Nat /\ e.filled <= Quantity /\ (left = 0 => e.filled = Quantity) /\ (left # 0 => e.filled + left = Quantity)
         /\ e.filled # 0
    BY <2>2, <2>3, <2>6, <2>7, <2>8, <2>11, <2>16
  <2>18. \A c \in OrderIds : c < nextId' => ledger'[c].quantity = Quantity /\ ledger'[c].filled <= Quantity
    BY <1>2, <2>8, <2>9, <2>17 DEF Accounted
  <2>19. \A c \in OrderIds : ~ledger'[c].admitted => Untouched(ledger'[c])
    BY <2>8, <2>9 DEF Accounted
  <2>20. ASSUME NEW t \in Tickers
         PROVE  /\ Held(product'[t]) \subseteq Held(product[t])
                /\ \A c \in Held(product[t]) \ {o} : c \in Held(product'[t]) /\ RemainingOf(product'[t], c) = RemainingOf(product[t], c)
    <3>1. CASE t = Market(a)
      BY <2>13, <2>14, <2>15, <3>1
    <3>2. CASE t # Market(a)
      BY <2>14, <3>2
    <3> QED BY <3>1, <3>2
  <2>21. ASSUME NEW t \in Tickers, NEW c \in Held(product'[t])
         PROVE  /\ ledger'[c].endings = 0 /\ ledger'[c].filled + RemainingOf(product'[t], c) = Quantity
                /\ \A u \in Tickers : c \in Held(product'[u]) => t = u
    <3>1. c \in Held(product[t]) /\ \A u \in Tickers : c \in Held(product'[u]) => c \in Held(product[u])
      BY <2>20
    <3>2. \A u \in Tickers : c \in Held(product'[u]) => t = u
      BY <3>1, HeldEntry
    <3>3. CASE c = o
      <4>1. t = Market(a)
        BY <2>6, <3>1, <3>3
      <4>2. left # 0 /\ RemainingOf(product'[t], c) = left
        BY <2>13, <2>14, <3>3, <4>1
      <4> QED BY <2>8, <2>9, <2>17, <3>2, <3>3, <4>2
    <3>4. CASE c # o
      <4>1. c \in OrderIds /\ ledger[c].endings = 0 /\ ledger[c].filled + RemainingOf(product[t], c) = Quantity
        BY <3>1, HeldEntry
      <4> QED BY <2>9, <2>20, <3>1, <3>2, <3>4, <4>1
    <3> QED BY <3>3, <3>4
  <2>22. ASSUME NEW c \in OrderIds, ledger'[c].admitted, \A t \in Tickers : c \notin Held(product'[t])
         PROVE  Closed(ledger'[c])
    <3>1. CASE c = o
      <4>1. left = 0
        BY <1>1, <2>4, <2>13, <2>14, <2>22, <3>1
      <4> QED BY <2>8, <2>9, <2>17, <3>1, <4>1 DEF Closed
    <3>2. CASE c # o
      <4>1. \A t \in Tickers : c \notin Held(product[t])
        BY <2>20, <2>22, <3>2
      <4> QED BY <2>9, <2>22, <3>2, <4>1 DEF Accounted
    <3> QED BY <3>1, <3>2
  <2> QED BY <2>18, <2>19, <2>21, <2>22 DEF Accounted
<1> QED BY <1>3, <1>4

LEMMA AccountedRound ==
  ASSUME AgreeInv, Accounted, Opened, NEW a \in heap, Round(a)
  PROVE  Accounted'
<1>1. CASE \E ids : Settles(ids)
  BY <1>1, SettledAccounted
<1> QED BY <1>1, SegmentSettles, OthersSettle, FeatureSettles, CancelSettles, AckSettles, CommandAccounted,
           RiskAccounted, FillAccounted DEF Round, Raises

LEMMA TerminalSettles ==
  ASSUME AgreeInv, Terminal
  PROVE  Settles(UNION {Held(product[t]) : t \in Tickers})
<1> DEFINE ids == UNION {Held(product[t]) : t \in Tickers}
<1>1. /\ nextId' = nextId /\ ledger' = Ended(ledger, ids)
      /\ product' = [t \in Tickers |-> Emptied(product[t])]
  BY DEF Terminal
<1>2. Types /\ \A t \in Tickers : Agrees(product[t])
  BY DEF AgreeInv
<1>3. \A t \in Tickers : Held(product'[t]) = {}
  BY <1>1, <1>2, AgreesEmptied
<1>4. \A t \in Tickers : Held(product[t]) \ ids = {}
  OBVIOUS
<1> HIDE DEF ids
<1>5. \A o \in OrderIds :
        /\ SameEntry(ledger'[o], ledger[o])
        /\ ledger'[o].endings = ledger[o].endings + (IF o \in ids THEN 1 ELSE 0)
        /\ ledger[o].admitted \/ ledger'[o].acks = ledger[o].acks
  BY <1>1, <1>2, EndedSettles
<1>6. Settles(ids)
  BY <1>1, <1>3, <1>4, <1>5 DEF Settles, ids
<1> QED BY <1>6 DEF ids

-----------------------------------------------------------------------------
(* 8. No trade is overspent. *)

LEMMA ComingIsFinite ==
  ASSUME NEW h, IsFiniteSet(h), NEW i
  PROVE  IsFiniteSet(Coming(h, i)) /\ Cardinality(Coming(h, i)) \in Nat
<1>1. IsFiniteSet(1..Quantity)
  BY ConfigurationAssumption, FS_Interval
<1>2. IsFiniteSet(h \X (1..Quantity))
  BY <1>1, FS_Product
<1>3. Coming(h, i) \in SUBSET (h \X (1..Quantity))
  BY DEF Coming
<1> QED BY <1>2, <1>3, FS_Subset, FS_CardinalityType

\* Fewer fills on their way, fewer lots.
LEMMA ComingLess ==
  ASSUME NEW h, NEW g, IsFiniteSet(g), NEW i, \A b \in h : b.kind = "fill" /\ b.causal = i => b \in g
  PROVE  /\ Cardinality(Coming(h, i)) \in Nat
         /\ Cardinality(Coming(h, i)) <= Cardinality(Coming(g, i))
<1>1. Coming(h, i) \in SUBSET Coming(g, i)
  BY DEF Coming
<1>2. IsFiniteSet(Coming(g, i))
  BY ComingIsFinite
<1> QED BY <1>1, <1>2, FS_Subset, FS_CardinalityType

LEMMA FirstNumbers ==
  ASSUME NEW n \in Nat
  PROVE  IsFiniteSet(1..n) /\ Cardinality(1..n) = n
BY FS_Interval

\* So many lots of one thing.
LEMMA LotsOf ==
  ASSUME NEW x, NEW n \in Nat
  PROVE  IsFiniteSet({x} \X (1..n)) /\ Cardinality({x} \X (1..n)) = n
<1>1. IsFiniteSet({x}) /\ Cardinality({x}) = 1
  BY FS_Singleton
<1>2. IsFiniteSet(1..n) /\ Cardinality(1..n) = n
  BY FirstNumbers
<1>3. /\ IsFiniteSet({x} \X (1..n))
      /\ Cardinality({x} \X (1..n)) = Cardinality({x}) * Cardinality(1..n)
  BY <1>1, <1>2, FS_Product, Zenon
<1>4. 1 * n = n
  OBVIOUS
<1> QED BY <1>1, <1>2, <1>3, <1>4

\* A fill that arrives leaves that many lots fewer.
LEMMA ComingWithout ==
  ASSUME NEW h, IsFiniteSet(h), NEW a \in h, a.kind = "fill", a.quantity \in Nat, a.quantity <= Quantity
  PROVE  Cardinality(Coming(h, a.causal)) = Cardinality(Coming(h \ {a}, a.causal)) + a.quantity
<1> DEFINE rest == Coming(h \ {a}, a.causal)
           mine == {a} \X (1..a.quantity)
<1>1. Coming(h, a.causal) = rest \union mine
  <2>1. 1..a.quantity \subseteq 1..Quantity
    BY ConfigurationAssumption
  <2> QED BY <2>1 DEF Coming
<1>2. rest \cap mine = {}
  BY DEF Coming
<1>3. IsFiniteSet(mine) /\ Cardinality(mine) = a.quantity
  BY LotsOf
<1>4. IsFiniteSet(h \ {a})
  BY FS_RemoveElement
<1>5. IsFiniteSet(rest) /\ Cardinality(rest) \in Nat
  BY <1>4, ComingIsFinite
<1> HIDE DEF rest, mine
<1>6. /\ Cardinality(rest \union mine) = Cardinality(rest) + Cardinality(mine) - Cardinality(rest \cap mine)
      /\ Cardinality(rest \cap mine) = 0
  BY <1>2, <1>3, <1>5, FS_Union, FS_EmptySet
<1>7. Cardinality(Coming(h, a.causal)) = Cardinality(rest) + a.quantity
  BY <1>1, <1>3, <1>5, <1>6
<1> QED BY <1>7 DEF rest

\* The lots of an order come after those of the orders before it.
LEMMA AheadOf ==
  ASSUME NEW live, NEW ids, IsFiniteSet(ids), ids \subseteq Nat,
         NEW o \in ids, NEW p \in ids, o < p,
         live[o].remaining \in Nat, live[o].remaining <= Quantity
  PROVE  Cardinality(Ahead(live, ids, o)) + live[o].remaining <= Cardinality(Ahead(live, ids, p))
<1> DEFINE before == Ahead(live, ids, o)
           mine == {o} \X (1..live[o].remaining)
           after == Ahead(live, ids, p)
<1>1. 1..live[o].remaining \subseteq 1..Quantity
  BY ConfigurationAssumption
<1>2. before \subseteq after
  <2> SUFFICES ASSUME NEW lot \in before
               PROVE  lot \in after
    OBVIOUS
  <2>1. lot \in ids \X (1..Quantity) /\ lot[1] < o /\ lot[2] <= live[lot[1]].remaining
    BY DEF Ahead
  <2>2. lot[1] < p
    <3>1. lot[1] \in Nat /\ o \in Nat /\ p \in Nat
      BY <2>1
    <3> QED BY <2>1, <3>1
  <2> QED BY <2>1, <2>2 DEF Ahead
<1>3. mine \subseteq after
  BY <1>1 DEF Ahead
<1>4. before \cap mine = {}
  <2>1. o \in Nat
    OBVIOUS
  <2>2. ASSUME NEW lot \in before
        PROVE  lot[1] \in Nat /\ lot[1] < o
    <3>1. lot \in ids \X (1..Quantity) /\ lot[1] < o
      BY DEF Ahead
    <3> HIDE DEF before
    <3> QED BY <3>1
  <2>3. \A lot \in mine : lot[1] = o
    OBVIOUS
  <2> HIDE DEF before, mine
  <2> QED BY <2>1, <2>2, <2>3
<1>5. /\ IsFiniteSet(before) /\ Cardinality(before) \in Nat
      /\ IsFiniteSet(after) /\ Cardinality(after) \in Nat
  BY AheadIsFinite
<1>6. IsFiniteSet(mine) /\ Cardinality(mine) = live[o].remaining
  BY LotsOf
<1> HIDE DEF before, mine, after
<1>7. /\ Cardinality(before \union mine) = Cardinality(before) + Cardinality(mine) - Cardinality(before \cap mine)
      /\ Cardinality(before \cap mine) = 0
  BY <1>4, <1>5, <1>6, FS_Union, FS_EmptySet
<1>8. Cardinality(before \union mine) <= Cardinality(after)
  BY <1>2, <1>3, <1>5, FS_Subset
<1>9. Cardinality(before) + live[o].remaining <= Cardinality(after)
  BY <1>5, <1>6, <1>7, <1>8
<1> QED BY <1>9 DEF before, after

\* A fill that a trade of this quantity gave to a live order.
Given(live, price, quantity, fraction, b) ==
  /\ b.order \in Served(live, price, quantity, fraction)
  /\ b.quantity \in Nat /\ b.quantity <= live[b.order].remaining
  /\ b.quantity <= Left(live, price, quantity, b.order)

\* What the orders are given of a trade is no more than the trade.
LEMMA GivenFits ==
  ASSUME NEW live, IsFiniteSet(DOMAIN live), DOMAIN live \subseteq Nat,
         \A o \in DOMAIN live : live[o].remaining \in Nat /\ live[o].remaining <= Quantity,
         NEW price, NEW quantity \in Nat, NEW fraction,
         NEW L,
         \A lot \in L : /\ lot = <<lot[1], lot[2]>> /\ Given(live, price, quantity, fraction, lot[1])
                        /\ lot[2] \in 1..lot[1].quantity,
         \A x, y \in L : x[1].order = y[1].order => x[1] = y[1]
  PROVE  Cardinality(L) <= quantity
<1> DEFINE ids == Touched(live, price)
           ahead(o) == Cardinality(Ahead(live, ids, o))
           g == [lot \in L |-> ahead(lot[1].order) + lot[2]]
<1>1. ids \subseteq DOMAIN live /\ ids \subseteq Nat /\ IsFiniteSet(ids)
  <2>1. ids \in SUBSET DOMAIN live
    BY DEF Touched
  <2> QED BY <2>1, FS_Subset
<1>2. \A o \in ids : ahead(o) \in Nat
  BY <1>1, AheadIsFinite
<1>3. \A o, p \in ids : o < p => ahead(o) + live[o].remaining <= ahead(p)
  BY <1>1, AheadOf
<1>4. ASSUME NEW lot \in L
      PROVE  /\ lot[1].order \in ids /\ lot[2] \in Nat \ {0} /\ lot[2] <= live[lot[1].order].remaining
             /\ ahead(lot[1].order) + lot[2] <= quantity
  <2>1. Given(live, price, quantity, fraction, lot[1]) /\ lot[2] \in 1..lot[1].quantity
    OBVIOUS
  <2>2. lot[1].order \in ids
    BY <2>1 DEF Given, Served
  <2>3. live[lot[1].order].remaining \in Nat /\ ahead(lot[1].order) \in Nat
    BY <1>1, <1>2, <2>2
  <2>4. Left(live, price, quantity, lot[1].order) = quantity - ahead(lot[1].order)
    BY DEF Left
  <2> HIDE DEF ahead, ids
  <2> QED BY <2>1, <2>2, <2>3, <2>4 DEF Given
<1> HIDE DEF ahead, ids
<1>5. g \in [L -> 1..quantity]
  BY <1>2, <1>4
<1>6. ASSUME NEW x \in L, NEW y \in L, g[x] = g[y]
      PROVE  x = y
  <2> DEFINE o == x[1].order
             p == y[1].order
  <2>1. /\ o \in ids /\ p \in ids /\ o \in Nat /\ p \in Nat
        /\ live[o].remaining \in Nat /\ live[p].remaining \in Nat
        /\ x[2] \in Nat \ {0} /\ y[2] \in Nat \ {0}
        /\ x[2] <= live[o].remaining /\ y[2] <= live[p].remaining
        /\ ahead(o) \in Nat /\ ahead(p) \in Nat /\ ahead(o) + x[2] = ahead(p) + y[2]
    BY <1>1, <1>2, <1>4, <1>6
  <2>2. /\ o < p => ahead(o) + live[o].remaining <= ahead(p)
        /\ p < o => ahead(p) + live[p].remaining <= ahead(o)
    BY <1>3, <2>1
  <2> HIDE DEF o, p
  <2>3. o = p
    BY <2>1, <2>2
  <2>4. x[1] = y[1] /\ x[2] = y[2]
    BY <2>1, <2>3 DEF o, p
  <2>5. x = <<x[1], x[2]>> /\ y = <<y[1], y[2]>>
    OBVIOUS
  <2> QED BY <2>4, <2>5, Zenon
<1>7. IsFiniteSet(1..quantity) /\ Cardinality(1..quantity) = quantity
  BY FirstNumbers
<1> HIDE DEF g
<1>8. g \in Injection(L, 1..quantity)
  BY <1>5, <1>6 DEF Injection, IsInjective
<1> QED BY <1>7, <1>8, FS_Injection

\* The fills a trade pushes.
LEMMA TradeGives ==
  ASSUME AgreeInv, NEW a \in heap, Trade(a)
  PROVE  \E P : /\ heap' = (heap \ {a}) \union P
                /\ \A b \in P : b.causal = a.causal /\ Given(Mine(a).live, Row(a).price, Row(a).quantity, Row(a).fraction, b)
                /\ \A b, c \in P : b.order = c.order => b = c
<1> DEFINE m == Mine(a)
           time == a.time + Policy(a).fill
           S == Served(m.live, Row(a).price, Row(a).quantity, Row(a).fraction)
           f == FillOf(m.live, Row(a).price, Row(a).quantity, Row(a).fraction, time, a.causal)
           move == [o \in S |-> [f[o] EXCEPT !.ordinal = pushed + f[o].ordinal]]
           P == {move[o] : o \in S}
<1>1. \/ heap' = (heap \ {a}) \union P
      \/ heap' = (heap \ {a}) \union {}
  <2>1. Push(a, {}) \/ Push(a, {f[o] : o \in S})
    BY FillsListed DEF Trade
  <2>2. Pushed({f[o] : o \in S}, pushed) = P /\ Pushed({}, pushed) = {}
    BY DEF Pushed
  <2> HIDE DEF P, S, f
  <2> QED BY <2>1, <2>2 DEF Push
<1>2. a.causal \in DOMAIN input /\ Market(a) \in Tickers /\ Types
  BY TakenIs
<1>3. /\ Row(a).quantity \in Nat
      /\ IsFiniteSet(DOMAIN m.live) /\ DOMAIN m.live \subseteq Nat
      /\ \A o \in DOMAIN m.live : m.live[o].remaining \in Nat \ {0}
  <2>1. DOMAIN m.live \subseteq Held(m) /\ Held(m) \subseteq Nat
    BY <1>2, HeldIs DEF Mine
  <2> QED BY <1>2, <2>1, PolicyIs, HeldIs DEF Mine
<1> HIDE DEF S, f, time, m
<1>4. ServesWell(m.live, Row(a).price, Row(a).quantity, Row(a).fraction, time, a.causal, S, f)
  BY <1>3, FillOfIs, Zenon DEF S, f
<1>5. ASSUME NEW o \in S
      PROVE  /\ move[o].order = o /\ move[o].causal = a.causal /\ Given(m.live, Row(a).price, Row(a).quantity, Row(a).fraction, move[o])
  <2>1. /\ DOMAIN f[o] = ActionFields /\ f[o].causal = a.causal /\ f[o].order = o
        /\ f[o].quantity \in Nat /\ f[o].quantity <= m.live[o].remaining
        /\ f[o].quantity <= Left(m.live, Row(a).price, Row(a).quantity, o)
    BY <1>4 DEF ServesWell
  <2>2. move[o].order = o /\ move[o].causal = a.causal /\ move[o].quantity = f[o].quantity
    BY <2>1 DEF ActionFields
  <2> HIDE DEF move
  <2>3. move[o].quantity \in Nat
    BY <2>1, <2>2
  <2> QED BY <2>1, <2>2, <2>3 DEF Given, S
<1> HIDE DEF move
<1>6. /\ \A b \in P : b.causal = a.causal /\ Given(m.live, Row(a).price, Row(a).quantity, Row(a).fraction, b)
      /\ \A b, c \in P : b.order = c.order => b = c
  BY <1>5
<1> HIDE DEF P
<1>7. PICK Q \in {P, {}} : heap' = (heap \ {a}) \union Q
  BY <1>1
<1>8. /\ \A b \in Q : b.causal = a.causal /\ Given(m.live, Row(a).price, Row(a).quantity, Row(a).fraction, b)
      /\ \A b, c \in Q : b.order = c.order => b = c
  BY <1>6
<1> QED BY <1>7, <1>8 DEF m

\* A round that is no trade in its segment pushes no fill.
LEMMA NoNewFill ==
  ASSUME AgreeInv, NEW a \in heap, Round(a), ~Trade(a), NEW b \in heap', b.kind = "fill"
  PROVE  b \in heap \ {a}
<1>1. b \in heap \ {a} \/ (a.kind = "trade" /\ InSegment(a))
  BY HeapAfter DEF Spawned
<1>2. a.kind = "trade" /\ InSegment(a) => Trade(a)
  BY DEF Round, Segment, Raises, CrossesSegment, FractionalFill, InexactCommand, Fails,
       StaleAction, Feature, Fill, Fillable, Decision, Command, Risk, Ack, Cancel, Pop
<1> QED BY <1>1, <1>2

\* What a fill takes of its trade.
LEMMA FillTakes ==
  ASSUME AgreeInv, NEW a \in heap, Round(a)
  PROVE  \/ traded' = traded
         \/ /\ a.kind = "fill" /\ Fill(a)
            /\ \E q \in Nat : q <= a.quantity /\ traded' = [traded EXCEPT ![a.causal] = traded[a.causal] + q]
<1>1. CASE Fill(a)
  <2> DEFINE m == Mine(a)
             o == a.order
             q == Smallest(m.live[o].remaining, a.quantity)
  <2>1. Agrees(m) /\ a.quantity \in Nat /\ a.kind = "fill"
    BY <1>1, TakenIs DEF Fill, Fillable, Pop
  <2>2. \/ traded' = traded
        \/ o \in DOMAIN m.live /\ ~(q <= 0) /\ traded' = [traded EXCEPT ![a.causal] = traded[a.causal] + q]
    BY <1>1 DEF Fill, Fillable
  <2>3. o \in DOMAIN m.live => m.live[o].remaining \in Nat
    BY <2>1 DEF Agrees, IsOrder
  <2>4. o \in DOMAIN m.live => q \in Nat /\ q <= a.quantity
    BY <2>1, <2>3 DEF Smallest
  <2> HIDE DEF q, m, o
  <2> QED BY <1>1, <2>1, <2>2, <2>4
<1>2. CASE ~Fill(a)
  BY <1>2 DEF Round, Segment, Raises, CrossesSegment, FractionalFill, InexactCommand, Fails,
       StaleAction, Feature, Trade, Decision, Command, Risk, Ack, Cancel
<1> QED BY <1>1, <1>2

LEMMA SpentRound ==
  ASSUME AgreeInv, Accounted, Spent, NEW a \in heap, Round(a)
  PROVE  Spent'
<1>1. /\ IsFiniteSet(heap') /\ IsFiniteSet(heap) /\ input' = input
      /\ \A b \in heap' : b \in heap \ {a} \/ Spawned(a, b)
      /\ traded \in [DOMAIN input -> Nat]
  BY HeapAfter, RoundMoves DEF AgreeInv, Types, Moves
<1>2. \A i \in DOMAIN input : input[i].quantity \in Nat /\ traded[i] \in Nat
  BY <1>1, InputsAssumption DEF AgreeInv, Types
<1>3. \A b \in heap : b.causal \in DOMAIN input /\ b.quantity \in Nat
  BY TakenIs
<1>4. \A i \in DOMAIN input : traded[i] + Cardinality(Coming(heap, i)) <= input[i].quantity
  BY DEF Spent
<1>5. \A b \in heap : b.kind = "trade" =>
        /\ traded[b.causal] = 0
        /\ \A c \in heap : c.kind = "fill" => c.causal # b.causal
        /\ \A c \in heap : c.kind = "trade" /\ c.causal = b.causal => c = b
  BY DEF Spent
<1>6. \A b \in heap : b.kind = "fill" => b.quantity <= Quantity
  BY DEF Spent
<1>7. \A i \in DOMAIN input : Cardinality(Coming(heap, i)) \in Nat /\ Cardinality(Coming(heap', i)) \in Nat
  BY <1>1, ComingIsFinite
<1>8. /\ \A i \in DOMAIN input : traded'[i] + Cardinality(Coming(heap', i)) <= input[i].quantity
      /\ \A b \in heap' : b.kind = "fill" => b.quantity <= Quantity
  <2>1. CASE ~Trade(a)
    <3>1. \A b \in heap' : b.kind = "fill" => b \in heap \ {a}
      BY <2>1, NoNewFill
    <3>2. \A i : Cardinality(Coming(heap', i)) <= Cardinality(Coming(heap, i))
      BY <1>1, <3>1, ComingLess
    <3>3. CASE traded' = traded
      BY <1>2, <1>4, <1>6, <1>7, <3>1, <3>2, <3>3
    <3>4. ASSUME a.kind = "fill", NEW q \in Nat, q <= a.quantity,
                 traded' = [traded EXCEPT ![a.causal] = traded[a.causal] + q],
                 NEW i \in DOMAIN input
          PROVE  traded'[i] + Cardinality(Coming(heap', i)) <= input[i].quantity
      <4>1. CASE i = a.causal
        <5>1. Cardinality(Coming(heap, i)) = Cardinality(Coming(heap \ {a}, i)) + a.quantity
          BY <1>1, <1>3, <1>6, <3>4, <4>1, ComingWithout
        <5>2. IsFiniteSet(heap \ {a})
          BY <1>1, FS_RemoveElement
        <5>3. /\ Cardinality(Coming(heap', i)) <= Cardinality(Coming(heap \ {a}, i))
              /\ Cardinality(Coming(heap \ {a}, i)) \in Nat
          BY <3>1, <5>2, ComingLess, ComingIsFinite
        <5>4. traded'[i] = traded[i] + q
          BY <1>1, <3>4, <4>1
        <5>5. a.quantity \in Nat /\ traded[i] \in Nat /\ input[i].quantity \in Nat
          BY <1>2, <1>3
        <5>6. traded[i] + Cardinality(Coming(heap, i)) <= input[i].quantity
          BY <1>4
        <5> QED BY <1>7, <3>4, <5>1, <5>3, <5>4, <5>5, <5>6
      <4>2. CASE i # a.causal
        <5>1. traded'[i] = traded[i]
          BY <1>1, <3>4, <4>2
        <5> QED BY <1>2, <1>4, <1>7, <3>2, <5>1
      <4> QED BY <4>1, <4>2
    <3> QED BY <1>6, <3>1, <3>3, <3>4, FillTakes
  <2>2. CASE Trade(a)
    <3>1. traded' = traded /\ a.kind = "trade"
      BY <2>2 DEF Trade, Pop
    <3>2. PICK P : /\ heap' = (heap \ {a}) \union P
                   /\ \A b \in P : b.causal = a.causal /\ Given(Mine(a).live, Row(a).price, Row(a).quantity, Row(a).fraction, b)
                   /\ \A b, c \in P : b.order = c.order => b = c
      BY <2>2, TradeGives
    <3> DEFINE m == Mine(a)
    <3>3. /\ IsFiniteSet(DOMAIN m.live) /\ DOMAIN m.live \subseteq Nat
          /\ \A o \in DOMAIN m.live : m.live[o].remaining \in Nat /\ m.live[o].remaining <= Quantity
      <4>1. /\ IsFiniteSet(DOMAIN m.live) /\ DOMAIN m.live \subseteq Held(m) /\ Held(m) \subseteq Nat
            /\ \A o \in DOMAIN m.live : m.live[o].remaining \in Nat
        BY TakenIs, HeldIs DEF Mine
      <4>2. ASSUME NEW o \in DOMAIN m.live
            PROVE  m.live[o].remaining <= Quantity
        <5>1. o \in Held(m) /\ o \notin DOMAIN m.pending
          BY TakenIs DEF Held, Agrees
        <5>2. /\ RemainingOf(m, o) \in Nat \ {0} /\ ledger[o].filled \in Nat
              /\ ledger[o].filled + RemainingOf(m, o) = Quantity
          BY <5>1, TakenIs, HeldEntry DEF Mine
        <5>3. Quantity \in Nat /\ RemainingOf(m, o) = m.live[o].remaining
          BY <5>1, ConfigurationAssumption DEF RemainingOf
        <5> QED BY <5>2, <5>3
      <4> QED BY <4>1, <4>2
    <3>4. \A b \in P : b.quantity <= Quantity
      <4> SUFFICES ASSUME NEW b \in P PROVE b.quantity <= Quantity
        OBVIOUS
      <4>1. Given(m.live, Row(a).price, Row(a).quantity, Row(a).fraction, b)
        BY <3>2
      <4>2. b.order \in DOMAIN m.live /\ b.quantity \in Nat /\ b.quantity <= m.live[b.order].remaining
        BY <4>1 DEF Given, Served, Touched
      <4>3. Quantity \in Nat
        BY ConfigurationAssumption
      <4> HIDE DEF m
      <4> QED BY <3>3, <4>2, <4>3
    <3>5. ASSUME NEW i \in DOMAIN input
          PROVE  traded'[i] + Cardinality(Coming(heap', i)) <= input[i].quantity
      <4>1. CASE i = a.causal
        <5> DEFINE L == Coming(heap', i)
        <5>1. \A lot \in L : /\ lot = <<lot[1], lot[2]>> /\ lot[1] \in heap' /\ lot[1].kind = "fill"
                             /\ lot[1].causal = i /\ lot[2] \in 1..Quantity /\ lot[2] <= lot[1].quantity
          BY DEF Coming
        <5>2. \A b \in heap' : b.kind = "fill" /\ b.causal = i => b \in P
          BY <1>5, <3>1, <3>2, <4>1
        <5> HIDE DEF L, m
        <5>3. \A lot \in L : lot[1] \in P
          BY <5>1, <5>2
        <5>4. \A lot \in L : Given(m.live, Row(a).price, Row(a).quantity, Row(a).fraction, lot[1])
          BY <3>2, <5>3 DEF m
        <5>5. \A lot \in L : lot[2] \in 1..lot[1].quantity
          <6>1. \A lot \in L : lot[1].quantity \in Nat
            BY <5>4 DEF Given
          <6> QED BY <5>1, <6>1
        <5>6. \A x, y \in L : x[1].order = y[1].order => x[1] = y[1]
          BY <3>2, <5>3
        <5>7. Row(a).quantity \in Nat /\ Row(a) = input[i]
          BY <1>2, <1>3, <4>1 DEF Row
        <5>8. \A lot \in L : /\ lot = <<lot[1], lot[2]>> /\ Given(m.live, Row(a).price, Row(a).quantity, Row(a).fraction, lot[1])
                             /\ lot[2] \in 1..lot[1].quantity
          BY <5>1, <5>4, <5>5
        <5>9. Cardinality(L) <= Row(a).quantity
          BY <3>3, <5>6, <5>7, <5>8, GivenFits
        <5>10. traded'[i] = 0 /\ Cardinality(L) \in Nat
          BY <1>5, <1>7, <3>1, <4>1 DEF L
        <5> QED BY <5>7, <5>9, <5>10 DEF L
      <4>2. CASE i # a.causal
        <5>1. \A b \in heap' : b.kind = "fill" /\ b.causal = i => b \in heap
          BY <3>2, <4>2
        <5>2. Cardinality(Coming(heap', i)) <= Cardinality(Coming(heap, i))
          BY <1>1, <5>1, ComingLess
        <5> QED BY <1>2, <1>4, <1>7, <3>1, <5>2
      <4> QED BY <4>1, <4>2
    <3> QED BY <1>6, <3>2, <3>4, <3>5
  <2> QED BY <2>1, <2>2
<1>9. ASSUME NEW b \in heap', b.kind = "trade"
      PROVE  /\ traded'[b.causal] = 0
             /\ \A c \in heap' : c.kind = "fill" => c.causal # b.causal
             /\ \A c \in heap' : c.kind = "trade" /\ c.causal = b.causal => c = b
  <2>1. \A c \in heap' : c.kind = "trade" => c \in heap \ {a}
    BY <1>1 DEF Spawned, Derived
  <2>2. b \in heap \ {a}
    BY <1>9, <2>1
  <2>3. traded'[b.causal] = 0
    <3>1. a.kind = "fill" => a.causal # b.causal
      BY <1>5, <1>9, <2>2
    <3>2. traded[b.causal] = 0 /\ b.causal \in DOMAIN input
      BY <1>3, <1>5, <1>9, <2>2
    <3> QED BY <1>1, <3>1, <3>2, FillTakes
  <2>4. ASSUME NEW c \in heap', c.kind = "fill"
        PROVE  c.causal # b.causal
    <3>1. CASE c \in heap
      BY <1>5, <1>9, <2>2, <2>4, <3>1
    <3>2. CASE Spawned(a, c)
      <4>1. c.causal = a.causal /\ a.kind = "trade"
        BY <2>4, <3>2 DEF Spawned
      <4> QED BY <1>5, <1>9, <2>2, <4>1
    <3> QED BY <1>1, <3>1, <3>2
  <2> QED BY <1>5, <1>9, <2>1, <2>2, <2>3, <2>4
<1> QED BY <1>1, <1>8, <1>9 DEF Spent

-----------------------------------------------------------------------------
(* 9. The account of the orders. *)

LEMMA OrdersInit ==
  ASSUME Init
  PROVE  OrdersInv
<1>1. AgreeInv
  BY AgreeInit
<1>2. /\ product = [t \in Tickers |-> Runtime] /\ Held(Runtime) = {} /\ heap = {}
      /\ ledger = [o \in OrderIds |-> Entry] /\ traded = [i \in DOMAIN input |-> 0] /\ nextId = 1
  BY DEF Init, Held, Runtime, NoOrders
<1>3. \A o \in OrderIds : ~(o < nextId)
  BY <1>2, ConfigurationAssumption DEF OrderIds
<1>4. Entry.admitted = FALSE /\ Untouched(Entry)
  BY DEF Entry, Untouched
<1>5. Accounted
  BY <1>2, <1>3, <1>4 DEF Accounted
<1>6. Opened
  BY <1>2 DEF Opened
<1>7. Spent
  <2>1. \A i \in DOMAIN input : input[i].quantity \in Nat
    BY <1>1, InputsAssumption DEF AgreeInv, Types
  <2>2. \A i : Coming(heap, i) = {}
    BY <1>2 DEF Coming
  <2>3. Cardinality({}) = 0
    BY FS_EmptySet
  <2> QED BY <1>2, <2>1, <2>2, <2>3 DEF Spent
<1>8. Unstarted
  BY <1>2 DEF Unstarted
<1> QED BY <1>1, <1>5, <1>6, <1>7, <1>8 DEF OrdersInv

LEMMA OrdersAccepted ==
  ASSUME OrdersInv, Accepted
  PROVE  OrdersInv'
<1>1. /\ input' = input /\ plan' = plan /\ nextId' = nextId /\ product' = product /\ ledger' = ledger
      /\ traded' = traded /\ heap' = Scheduled /\ phase = "preflight" /\ phase' = "running"
  BY DEF Accepted
<1>2. AgreeInv /\ AgreeInv' /\ Types
  BY AgreeAccepted DEF OrdersInv, AgreeInv
<1>3. /\ \A b \in heap' : b.kind \in {"segment", "feature", "trade"} /\ b.causal \in DOMAIN input
      /\ \A b, c \in heap' : c.kind = b.kind /\ c.causal = b.causal => c = b
  BY <1>1, <1>2, ScheduledIs DEF Types
<1>4. /\ product = [t \in Tickers |-> Runtime] /\ \A i \in DOMAIN input : traded[i] = 0
  BY <1>1 DEF OrdersInv, Unstarted
<1>5. Runtime.segment = None /\ Held(Runtime) = {}
  BY DEF Runtime, Held, NoOrders
<1>6. Accounted'
  BY <1>1 DEF OrdersInv, Accounted
<1>7. Opened'
  <2>1. \A b \in heap' : Market(b) \in Tickers /\ Row(b).segment # None
    BY <1>2, <1>3, PolicyIs
  <2>2. \A b : Row(b)' = Row(b) /\ Market(b)' = Market(b) /\ Mine(b)' = Mine(b) /\ InSegment(b)' = InSegment(b)
    BY <1>1 DEF Row, Market, Mine, InSegment
  <2>3. \A b \in heap' : b.kind = "segment" => product[Market(b)].segment # Row(b).segment
    BY <1>4, <1>5, <2>1
  <2>4. \A b \in heap' : b.kind \notin Derived
    BY <1>3 DEF Derived
  <2>5. \A t \in Tickers : Held(product[t]) = {}
    BY <1>4, <1>5
  <2> QED BY <1>1, <1>3, <2>2, <2>3, <2>4, <2>5 DEF Opened
<1>8. Spent'
  <2>1. \A i \in DOMAIN input : input[i].quantity \in Nat
    BY <1>2, InputsAssumption DEF Types
  <2>2. \A b \in heap' : b.kind # "fill"
    BY <1>3
  <2>3. \A i : Coming(heap', i) = {}
    BY <2>2 DEF Coming
  <2>4. Cardinality({}) = 0
    BY FS_EmptySet
  <2>5. \A i \in DOMAIN input : traded'[i] + Cardinality(Coming(heap', i)) <= input[i].quantity
    <3> SUFFICES ASSUME NEW i \in DOMAIN input
                 PROVE  traded'[i] + Cardinality(Coming(heap', i)) <= input[i].quantity
      OBVIOUS
    <3>1. traded'[i] = 0 /\ input[i].quantity \in Nat
      BY <1>1, <1>4, <2>1
    <3>2. Cardinality(Coming(heap', i)) = 0
      BY <2>3, <2>4
    <3> QED BY <3>1, <3>2
  <2> QED BY <1>1, <1>3, <1>4, <2>2, <2>5 DEF Spent
<1>9. Unstarted'
  BY <1>1 DEF Unstarted
<1> QED BY <1>2, <1>6, <1>7, <1>8, <1>9 DEF OrdersInv

LEMMA OrdersRound ==
  ASSUME OrdersInv, NEW a \in heap, Round(a)
  PROVE  OrdersInv'
<1>1. AgreeInv' /\ Accounted' /\ Opened' /\ Spent'
  BY AgreeRound, AccountedRound, OpenedRound, SpentRound DEF OrdersInv
<1>2. phase' # "preflight"
  BY DEF Round, Segment, Raises, CrossesSegment, FractionalFill, InexactCommand, Fails,
       StaleAction, Feature, Trade, Fill, Fillable, Decision, Command, Risk, Ack, Cancel, Becomes
<1> QED BY <1>1, <1>2 DEF OrdersInv, Unstarted

LEMMA OrdersTerminal ==
  ASSUME OrdersInv, Terminal
  PROVE  OrdersInv'
<1>1. AgreeInv /\ AgreeInv' /\ Accounted /\ Opened
  BY AgreeTerminal DEF OrdersInv
<1>2. Accounted'
  BY <1>1, TerminalSettles, SettledAccounted
<1>3. /\ input' = input /\ heap' = heap /\ traded' = traded /\ phase' # "preflight"
      /\ product' = [t \in Tickers |-> Emptied(product[t])]
  BY DEF Terminal
<1>4. \A t \in Tickers : /\ Held(product'[t]) = {} /\ product'[t].segment = product[t].segment
                         /\ product'[t].seen = product[t].seen
  BY <1>1, <1>3, AgreesEmptied DEF AgreeInv
<1>5. Opened'
  <2>1. \A b \in heap : Market(b) \in Tickers
    BY <1>1, TakenIs
  <2>2. \A b : Row(b)' = Row(b) /\ Market(b)' = Market(b)
    BY <1>3 DEF Row, Market
  <2>3. \A b \in heap : (InSegment(b)' <=> InSegment(b)) /\ Mine(b)'.seen = Mine(b).seen
    BY <1>4, <2>1, <2>2 DEF InSegment, Mine
  <2>4. \A b \in heap : b.kind = "segment" =>
          /\ product'[Market(b)].segment # Row(b).segment
          /\ \A c \in heap : c.kind \in Derived => ~SameBook(Row(b), Row(c))
          /\ \A c \in heap : c.kind = "segment" /\ c.causal = b.causal => c = b
    BY <1>1, <1>4, <2>1 DEF Opened
  <2>5. \A b \in heap : b.kind \in Derived /\ InSegment(b)' => Mine(b)'.seen
    BY <1>1, <2>3 DEF Opened
  <2> QED BY <1>3, <1>4, <2>2, <2>4, <2>5 DEF Opened
<1>6. Spent'
  BY <1>3 DEF OrdersInv, Spent
<1> QED BY <1>1, <1>2, <1>3, <1>5, <1>6 DEF OrdersInv, Unstarted

LEMMA OrdersOthers ==
  ASSUME OrdersInv, Refused \/ MissingRow \/ Publish \/ Raise \/ UNCHANGED vars
  PROVE  OrdersInv'
<1>1. UNCHANGED <<input, plan, heap, pushed, nextId, product, ledger, traded>>
  BY DEF Refused, MissingRow, Publish, Raise, vars, runVars
<1>2. AgreeInv' /\ Accounted /\ Opened /\ Spent /\ Unstarted
  BY AgreeOthers DEF OrdersInv
<1>3. Accounted'
  BY <1>1, <1>2 DEF Accounted
<1>4. Opened'
  BY <1>1, <1>2 DEF Opened, InSegment, Mine, Market, Row
<1>5. Spent'
  BY <1>1, <1>2 DEF Spent
<1>6. phase' = "preflight" => phase = "preflight"
  BY DEF Refused, MissingRow, Publish, Write, PublishOutput, PublishTelemetry, CloseOracles, Raise, vars
<1>7. Unstarted'
  BY <1>1, <1>2, <1>6 DEF Unstarted
<1> QED BY <1>2, <1>3, <1>4, <1>5, <1>7 DEF OrdersInv

LEMMA OrdersAlways == Spec => []OrdersInv
<1>1. Init => OrdersInv
  BY OrdersInit
<1>2. OrdersInv /\ [Next]_vars => OrdersInv'
  BY OrdersAccepted, OrdersRound, OrdersTerminal, OrdersOthers DEF Next, Step, Finished
<1> QED BY <1>1, <1>2, PTL DEF Spec

LEMMA OrdersMean ==
  ASSUME OrdersInv
  PROVE  OrdersAreAccounted
<1>1. AgreeInv /\ Types /\ Asked /\ Accounted /\ Spent
  BY DEF OrdersInv, AgreeInv
<1>2. OrderIds = 1..MaxOrders /\ MaxOrders \in Nat /\ nextId \in 1..(MaxOrders + 1)
  BY <1>1, ConfigurationAssumption DEF OrderIds, Types
<1>3. TypeOK
  <2>1. \A a \in heap : a.causal \in DOMAIN input /\ a.time >= 0 /\ a.order < nextId /\ a.ordinal \in 1..pushed
    BY <1>1 DEF Types, ActionOk
  <2>2. \A t \in Tickers : \A o \in Held(product[t]) : o < nextId
    BY <1>1 DEF Asked
  <2> QED BY <1>1, <2>1, <2>2 DEF TypeOK, Types, Phases
<1>4. ASSUME NEW o \in 1..(nextId - 1)
      PROVE  LET held == \E t \in Tickers : o \in Held(product[t])
                 whole == ledger[o].filled = ledger[o].quantity
             IN IF ledger[o].admitted
                  THEN /\ ledger[o].endings + (IF held THEN 1 ELSE 0) + (IF whole THEN 1 ELSE 0) = 1
                       /\ ledger[o].filled <= ledger[o].quantity
                ELSE ~held /\ ledger[o].acks = 0 /\ ledger[o].filled = 0 /\ ledger[o].endings = 0
  <2> DEFINE held == \E t \in Tickers : o \in Held(product[t])
  <2>1. o \in OrderIds /\ o < nextId
    BY <1>2
  <2>2. ledger[o].quantity = Quantity /\ ledger[o].filled <= Quantity
    BY <1>1, <2>1 DEF Accounted
  <2>3. CASE ~ledger[o].admitted
    <3>1. ~held
      BY <1>1, <2>3 DEF Asked
    <3>2. Untouched(ledger[o])
      BY <1>1, <2>1, <2>3 DEF Accounted
    <3> QED BY <2>3, <3>1, <3>2 DEF Untouched
  <2>4. CASE ledger[o].admitted /\ held
    <3>1. ledger[o].endings = 0 /\ ledger[o].filled < Quantity /\ ledger[o].filled \in Nat /\ Quantity \in Nat
      BY <1>1, <2>4, HeldEntry, ConfigurationAssumption
    <3>2. ledger[o].filled # ledger[o].quantity
      BY <2>2, <3>1
    <3> HIDE DEF held
    <3>3. ledger[o].endings + (IF held THEN 1 ELSE 0) + (IF ledger[o].filled = ledger[o].quantity THEN 1 ELSE 0) = 1
      BY <2>4, <3>1, <3>2
    <3> QED BY <2>2, <2>4, <3>3 DEF held
  <2>5. CASE ledger[o].admitted /\ ~held
    <3>1. Closed(ledger[o])
      BY <1>1, <2>1, <2>5 DEF Accounted
    <3>2. ledger[o].endings \in Nat
      BY <1>1, <2>1, EntryIs
    <3> HIDE DEF held
    <3>3. ledger[o].endings + (IF held THEN 1 ELSE 0) + (IF ledger[o].filled = ledger[o].quantity THEN 1 ELSE 0) = 1
      BY <2>5, <3>1, <3>2 DEF Closed
    <3> QED BY <2>2, <2>5, <3>3 DEF held
  <2> QED BY <2>3, <2>4, <2>5
<1>5. EveryOrderEndsOnce
  BY <1>4 DEF EveryOrderEndsOnce
<1>6. TradesAreNotOverspent
  <2>1. IsFiniteSet(heap) /\ traded \in [DOMAIN input -> Nat]
    BY <1>1 DEF Types
  <2>2. \A i \in DOMAIN input : input[i].quantity \in Nat
    BY <1>1, InputsAssumption DEF Types
  <2>3. \A i \in DOMAIN input : Cardinality(Coming(heap, i)) \in Nat
    BY <2>1, ComingIsFinite
  <2> QED BY <1>1, <2>1, <2>2, <2>3 DEF Spent, TradesAreNotOverspent
<1> QED BY <1>3, <1>5, <1>6 DEF OrdersAreAccounted

\* Every order the oracle approved ends exactly once, filled whole or
\* cancelled or rejected once, whichever of the replacement, the expiry, the
\* new segment, the horizon and the fills comes first, and one it refused
\* leaves no trace; and no trade fills more than it traded, whatever its fills
\* find on arrival.
THEOREM OrdersAreAlwaysAccounted == Spec => []OrdersAreAccounted
<1>1. OrdersInv => OrdersAreAccounted
  BY OrdersMean
<1> QED BY <1>1, OrdersAlways, PTL

-----------------------------------------------------------------------------
(* 10. What the command leaves behind. *)

\* A round ends the run only where it crosses a segment.
LEMMA RoundPhase ==
  ASSUME AgreeInv, NEW a \in heap, Round(a)
  PROVE  Raises(a) \/ (phase' = phase /\ disk' = disk)
<1>1. Moves(a) /\ Market(a) \in Tickers /\ DOMAIN product = Tickers
  BY RoundMoves, TakenIs DEF Types
<1>2. ~product'[Market(a)].risk.error
  BY <1>1 DEF Moves, Agrees, AtRest
<1>3. ASSUME NEW n, Becomes(a, n)
      PROVE  phase' = phase /\ disk' = disk
  <2>1. product'[Market(a)] = n
    BY <1>1, <1>3 DEF Becomes
  <2> QED BY <1>2, <1>3, <2>1 DEF Becomes
<1>4. CASE StaleAction(a) \/ Trade(a) \/ Decision(a) \/ Command(a)
  BY <1>4 DEF StaleAction, Trade, Decision, Command
<1>5. CASE Segment(a) \/ Feature(a)
  BY <1>3, <1>5 DEF Segment, Feature
<1>6. CASE Fill(a) \/ Risk(a)
  BY <1>3, <1>6 DEF Fill, Fillable, Risk
<1>7. CASE Ack(a) \/ Cancel(a)
  BY <1>3, <1>7 DEF Ack, Cancel
<1> QED BY <1>4, <1>5, <1>6, <1>7 DEF Round, Raises

LEMMA SegmentsAre ==
  ASSUME Types, NEW t
  PROVE  IsFiniteSet(Segments(t))
<1> DEFINE ids == {j \in DOMAIN input : input[j].ticker = t}
           f == [i \in ids |-> input[i].segment]
<1>1. DOMAIN input = 1..Len(input) /\ Len(input) \in Nat
  BY InputsAssumption DEF Types
<1>2. IsFiniteSet(DOMAIN input)
  BY <1>1, FS_Interval
<1>3. IsFiniteSet(ids)
  BY <1>2, FS_Subset
<1>4. f \in Surjection(ids, Segments(t))
  BY DEF Surjection, Segments
<1> HIDE DEF ids, f
<1> QED BY <1>3, <1>4, FS_Surjection

LEMMA TwoElements ==
  ASSUME NEW x, NEW y, x # y
  PROVE  Cardinality({x, y}) = 2
<1>1. IsFiniteSet({x}) /\ Cardinality({x}) = 1 /\ y \notin {x}
  BY FS_Singleton
<1>2. Cardinality({x} \union {y}) = Cardinality({x}) + 1
  BY <1>1, FS_AddElement
<1>3. {x} \union {y} = {x, y}
  OBVIOUS
<1> QED BY <1>1, <1>2, <1>3

\* A row or trade that is not of the segment its product is in comes after
\* another segment of the product: the boundary of its own was popped before.
LEMMA CrossingsAreSegments ==
  ASSUME AgreeInv, Begun, NEW a \in heap, phase = "running", Earliest(a), CrossesSegment(a)
  PROVE  Cardinality(Segments(Market(a))) > 1
<1> DEFINE t == Market(a)
           mine == product[t].segment
<1>1. /\ ActionOk(a) /\ Types /\ t \in Tickers /\ a.causal \in DOMAIN input /\ a.time \in Nat
  BY TakenIs
<1>2. a.kind \in {"feature", "trade"} /\ mine # Row(a).segment
  BY DEF Raises, CrossesSegment, FractionalFill, InexactCommand, Fails, Pop, InSegment, Mine
<1>3. IsMarketEvent(Row(a)) /\ a.time >= Row(a).time
  BY <1>1, <1>2 DEF ActionOk, Begun, Row
<1>4. PICK j \in DOMAIN input : j < a.causal /\ IsBoundary(input[j]) /\ SameBook(input[j], Row(a))
  BY <1>1, <1>3, InputsAssumption DEF Types, IsMarketEvent, Row
<1>5. mine # None
  <2> SUFFICES ASSUME mine = None PROVE FALSE
    OBVIOUS
  <2>1. input[j].ticker = t
    BY <1>4 DEF SameBook, Market
  <2>2. PICK b \in heap : b.kind = "segment" /\ b.causal = j /\ b.time = input[j].time
    BY <1>4, <2>1 DEF Begun
  <2>3. Precedes(Key(a), Key(b))
    BY <1>2, <2>2 DEF Earliest
  <2>4. input[j].time <= Row(a).time /\ input[j].time \in Nat /\ Row(a).time \in Nat
    <3>1. \A i, k \in DOMAIN input : i < k => input[i].time <= input[k].time
      BY DEF Begun, Preflight
    <3>2. \A i \in DOMAIN input : input[i].time \in Nat
      BY <1>1, InputsAssumption DEF Types
    <3> QED BY <1>1, <1>4, <3>1, <3>2 DEF Row
  <2>5. j \in Nat /\ a.causal \in Nat
    BY <1>1, InputsAssumption DEF Types
  <2>6. a.time < b.time \/ (a.time = b.time /\ a.causal < b.causal) \/ (a.time = b.time /\ a.causal = b.causal)
    BY <2>3 DEF Precedes, Key
  <2> QED BY <1>1, <1>3, <1>4, <2>2, <2>4, <2>5, <2>6
<1>6. mine \in Segments(t)
  BY <1>1, <1>5 DEF Begun
<1>7. Row(a).segment \in Segments(t)
  BY <1>1 DEF Segments, Row, Market
<1>8. IsFiniteSet(Segments(t))
  BY <1>1, SegmentsAre
<1> HIDE DEF mine, t
<1>9. Cardinality({mine, Row(a).segment}) = 2
  BY <1>2, TwoElements DEF mine, t
<1>10. {mine, Row(a).segment} \in SUBSET Segments(t)
  BY <1>6, <1>7
<1>11. Cardinality({mine, Row(a).segment}) <= Cardinality(Segments(t)) /\ Cardinality(Segments(t)) \in Nat
  BY <1>8, <1>10, FS_Subset, FS_CardinalityType
<1>12. Cardinality(Segments(t)) > 1
  BY <1>9, <1>11
<1> QED BY <1>12 DEF t

\* A round that raises does so for what the input and the plan are.
LEMMA RaisingIsOfTheInput ==
  ASSUME AgreeInv, Begun, Exact, NEW a \in heap, phase = "running", Earliest(a), Raises(a)
  PROVE  MayRaise
<1>1. Market(a) \in Tickers /\ a.causal \in DOMAIN input /\ ActionOk(a)
  BY TakenIs
<1>2. CASE CrossesSegment(a)
  BY <1>1, <1>2, CrossingsAreSegments DEF MayRaise
<1>3. CASE FractionalFill(a)
  <2>1. FractionalTrade(a.causal)
    BY <1>3 DEF FractionalFill, Fractional, Pop, Exact
  <2> QED BY <1>1, <2>1 DEF MayRaise
<1>4. CASE InexactCommand(a)
  <2>1. /\ a.kind = "command" /\ ~Representable(a)
        /\ Quotable(Row(a), Policy(a).spread) /\ a.price \in {Row(a).bid, Row(a).ask}
    BY <1>4 DEF InexactCommand, Pop, Exact
  <2>2. IsMarketEvent(input[a.causal])
    BY <1>1, <2>1 DEF ActionOk
  <2>3. InexactQuote(input[a.causal], plan[input[a.causal].ticker])
    BY <2>1, <2>2 DEF InexactQuote, Representable, Row, Policy, Market
  <2> QED BY <1>1, <2>3 DEF MayRaise
<1> QED BY <1>2, <1>3, <1>4 DEF Raises

\* What the input and the plan are does not change.
LEMMA MayRaiseKept ==
  ASSUME input' = input, plan' = plan
  PROVE  MayRaise' = MayRaise
BY DEF MayRaise, Segments, HasRow, InexactQuote, FractionalTrade, Trades

LEMMA OutcomeInit ==
  ASSUME Init
  PROVE  OutcomeInv
<1>1. AgreeInv
  BY AgreeInit
<1>2. Begun
  BY DEF Init, Begun, Runtime
<1>3. Published /\ Exact
  BY DEF Init, Published, Late, Exact
<1> QED BY <1>1, <1>2, <1>3 DEF OutcomeInv

\* Every boundary is scheduled at its own time.
LEMMA BoundariesScheduled ==
  ASSUME NEW i \in DOMAIN input, IsBoundary(input[i])
  PROVE  \E b \in Scheduled : b.kind = "segment" /\ b.causal = i /\ b.time = input[i].time
<1> DEFINE b == Action("segment", input[i].time, i)
           c == [b EXCEPT !.ordinal = PushedBefore(i) + b.ordinal]
<1>1. OfRecord(i) = {b}
  <2>1. i \notin Trades
    BY DEF Trades, IsMarketEvent, IsBoundary
  <2> QED BY <2>1 DEF OfRecord
<1>2. c.kind = "segment" /\ c.causal = i /\ c.time = input[i].time
  BY DEF Action
<1> HIDE DEF b
<1>3. c \in Pushed(OfRecord(i), PushedBefore(i))
  BY <1>1 DEF Pushed
<1> HIDE DEF c
<1>4. c \in Scheduled
  BY <1>3 DEF Scheduled
<1> QED BY <1>2, <1>4

LEMMA OutcomeAccepted ==
  ASSUME OutcomeInv, Accepted
  PROVE  OutcomeInv'
<1>1. /\ input' = input /\ plan' = plan /\ product' = product /\ faulty' = faulty /\ phase = "preflight"
      /\ phase' = "running" /\ heap' = Scheduled /\ Preflight(input) /\ disk' = [disk EXCEPT !.output = "partial"]
  BY DEF Accepted
<1>2. AgreeInv' /\ Types /\ Begun /\ Published
  BY AgreeAccepted DEF OutcomeInv, AgreeInv
<1>3. \A b \in heap' : b.kind \in {"feature", "trade"} => b.time >= input[b.causal].time
  <2>1. \A b \in heap' : b.kind \in {"feature", "trade"} => b.causal \in DOMAIN input /\ b.time = Visible(b.causal)
    BY <1>1, <1>2, ScheduledIs DEF Types
  <2>2. \A i \in DOMAIN input : input[i].time \in Nat /\ input[i].ticker \in Tickers
    BY <1>2, InputsAssumption DEF Types
  <2>3. \A i \in DOMAIN input : plan[input[i].ticker].marketData \in Nat
    BY <1>2, <2>2, ConfigurationAssumption DEF Types
  <2> QED BY <2>1, <2>2, <2>3 DEF Visible
<1>4. Begun'
  <2>1. \A i \in DOMAIN input : IsBoundary(input[i]) =>
          \E b \in heap' : b.kind = "segment" /\ b.causal = i /\ b.time = input[i].time
    BY <1>1, BoundariesScheduled
  <2>2. \A t : Segments(t)' = Segments(t)
    BY <1>1 DEF Segments
  <2>3. Preflight(input)'
    BY <1>1
  <2> QED BY <1>1, <1>2, <1>3, <2>1, <2>2, <2>3 DEF Begun
<1>5. Published'
  <2>1. disk'.output = "partial" /\ disk'.telemetry = disk.telemetry
    BY <1>1, <1>2 DEF Types
  <2> QED BY <1>1, <1>2, <2>1 DEF Published, Late
<1>6. Exact'
  <2>1. \A b \in heap' : b.kind \in {"segment", "feature", "trade"}
    BY <1>1, <1>2, ScheduledIs DEF Types
  <2> QED BY <2>1 DEF Exact
<1> QED BY <1>2, <1>4, <1>5, <1>6 DEF OutcomeInv

LEMMA OutcomeRound ==
  ASSUME OutcomeInv, NEW a \in heap, Round(a)
  PROVE  OutcomeInv'
<1>1. AgreeInv /\ AgreeInv' /\ Begun /\ Exact /\ Published /\ Moves(a) /\ Turns(a)
  BY AgreeRound, RoundMoves, RoundTurns DEF OutcomeInv
<1>2. /\ input' = input /\ phase = "running" /\ faulty' = faulty /\ Earliest(a)
  BY <1>1 DEF Moves, Round, Segment, Raises, CrossesSegment, FractionalFill, InexactCommand, Fails,
       StaleAction, Feature, Trade, Fill, Fillable, Decision, Command, Risk, Ack,
              Cancel, Pop
<1>3. Raises(a) \/ (phase' = phase /\ disk' = disk)
  BY <1>1, RoundPhase
<1>4. /\ Market(a) \in Tickers /\ a.causal \in DOMAIN input /\ Types /\ Row(a).segment # None
  BY <1>1, TakenIs, PolicyIs
<1>5. /\ \A b \in heap' : b \in heap \ {a} \/ Spawned(a, b)
      /\ heap \ {a} \subseteq heap'
  BY <1>1, HeapAfter
<1>6. /\ \A t \in Tickers : product[t].segment # None => product'[t].segment # None
      /\ a.kind = "segment" => product'[Market(a)].segment # None
      /\ \A t \in Tickers : product'[t].segment \in Segments(t) \union {None}
  <2>1. Row(a).segment \in Segments(Market(a))
    BY <1>4 DEF Segments, Row, Market
  <2>2. \A t \in Tickers : \/ product'[t].segment = product[t].segment
                           \/ a.kind = "segment" /\ t = Market(a) /\ product'[t].segment = Row(a).segment
    BY <1>1 DEF Turns
  <2>3. a.kind = "segment" => product'[Market(a)].segment = Row(a).segment
    BY <1>1 DEF Turns
  <2> QED BY <1>1, <1>4, <2>1, <2>2, <2>3 DEF Begun
<1>7. Begun'
  <2>1. \A t : Segments(t)' = Segments(t)
    BY <1>2 DEF Segments
  <2>2. Preflight(input)'
    BY <1>1, <1>2 DEF Begun
  <2>3. ASSUME NEW i \in DOMAIN input, IsBoundary(input[i])
        PROVE  \/ product'[input[i].ticker].segment # None
               \/ \E b \in heap' : b.kind = "segment" /\ b.causal = i /\ b.time = input[i].time
    <3>1. input[i].ticker \in Tickers
      BY <1>4, InputsAssumption DEF Types
    <3>2. CASE product[input[i].ticker].segment # None
      BY <1>6, <3>1, <3>2
    <3>3. CASE \E b \in heap : b.kind = "segment" /\ b.causal = i /\ b.time = input[i].time
      <4>1. PICK b \in heap : b.kind = "segment" /\ b.causal = i /\ b.time = input[i].time
        BY <3>3
      <4>2. CASE b = a
        BY <1>6, <4>1, <4>2 DEF Market, Row
      <4>3. CASE b # a
        BY <1>5, <4>1, <4>3
      <4> QED BY <4>2, <4>3
    <3> QED BY <1>1, <1>2, <2>3, <3>2, <3>3 DEF Begun
  <2>4. \A b \in heap' : b.kind \in {"feature", "trade"} => b.time >= input[b.causal].time
    BY <1>1, <1>5 DEF Begun, Spawned, Derived
  <2> QED BY <1>2, <1>6, <2>1, <2>2, <2>3, <2>4 DEF Begun
<1>8. Published'
  <2>1. disk.output # "final" /\ disk.telemetry = "absent"
    BY <1>1, <1>2 DEF Published
  <2>2. CASE phase' = phase /\ disk' = disk
    BY <1>2, <2>1, <2>2 DEF Published, Late
  <2>3. CASE Raises(a)
    <3>1. phase' = "raised" /\ disk' = [disk EXCEPT !.output = "absent"]
      BY <2>3 DEF Raises, CrossesSegment, FractionalFill, InexactCommand, Fails
    <3>2. disk'.output = "absent" /\ disk'.telemetry = "absent"
      BY <1>4, <2>1, <3>1 DEF Types
    <3>3. MayRaise'
      BY <1>1, <1>2, <2>3, RaisingIsOfTheInput, MayRaiseKept DEF Moves
    <3> QED BY <3>1, <3>2, <3>3 DEF Published, Late
  <2> QED BY <1>3, <2>2, <2>3
<1>9. Exact'
  <2>1. ASSUME NEW b
        PROVE  /\ Row(b)' = Row(b) /\ Policy(b)' = Policy(b)
               /\ FractionalTrade(b.causal)' = FractionalTrade(b.causal)
    BY <1>1 DEF Moves, Row, Policy, Market, FractionalTrade, Trades
  <2>2. ASSUME NEW b \in heap', ~(b \in heap \ {a})
        PROVE  /\ b.kind = "command" => Quotable(Row(b), Policy(b).spread) /\ b.price \in {Row(b).bid, Row(b).ask}
               /\ b.kind = "fill" /\ b.fraction => FractionalTrade(b.causal)
    BY <1>5, <2>2 DEF Spawned, Row, Policy, Market
  <2>3. ASSUME NEW b \in heap', b.kind = "command"
        PROVE  Quotable(Row(b), Policy(b).spread)' /\ b.price \in {Row(b).bid, Row(b).ask}'
    <3>1. Quotable(Row(b), Policy(b).spread) /\ b.price \in {Row(b).bid, Row(b).ask}
      BY <1>1, <2>2, <2>3 DEF Exact
    <3> QED BY <2>1, <3>1 DEF Quotable
  <2>4. ASSUME NEW b \in heap', b.kind = "fill", b.fraction
        PROVE  FractionalTrade(b.causal)'
    BY <1>1, <2>1, <2>2, <2>4 DEF Exact
  <2> QED BY <2>3, <2>4 DEF Exact
<1> QED BY <1>1, <1>7, <1>8, <1>9 DEF OutcomeInv

LEMMA OutcomeTerminal ==
  ASSUME OutcomeInv, Terminal
  PROVE  OutcomeInv'
<1>1. AgreeInv /\ AgreeInv' /\ Begun /\ Exact /\ Published
  BY AgreeTerminal DEF OutcomeInv
<1>2. /\ input' = input /\ plan' = plan /\ heap' = heap /\ faulty' = faulty /\ phase = "running" /\ NothingLeft
      /\ product' = [t \in Tickers |-> Emptied(product[t])]
  BY DEF Terminal, AtHorizon
<1>3. \A t \in Tickers : /\ Held(product'[t]) = {} /\ product'[t].segment = product[t].segment
                         /\ ~Emptied(product[t]).risk.error
  BY <1>1, <1>2, AgreesEmptied DEF AgreeInv, Agrees, AtRest
<1>4. phase' = "writing" /\ disk' = disk
  BY <1>3 DEF Terminal
<1>5. Begun'
  <2>1. \A t : Segments(t)' = Segments(t)
    BY <1>2 DEF Segments
  <2>2. Preflight(input)'
    BY <1>1, <1>2 DEF Begun
  <2>3. \A i \in DOMAIN input : input[i].ticker \in Tickers
    BY <1>1, InputsAssumption DEF AgreeInv, Types
  <2> QED BY <1>1, <1>2, <1>3, <2>1, <2>2, <2>3 DEF Begun
<1>6. NothingLeft'
  BY <1>2 DEF NothingLeft, Horizon
<1>7. Published'
  BY <1>1, <1>2, <1>3, <1>4, <1>6 DEF Published, Late, Whole
<1>8. Exact'
  BY <1>1, <1>2 DEF Exact, Row, Policy, Market, FractionalTrade, Trades, Quotable
<1> QED BY <1>1, <1>5, <1>7, <1>8 DEF OutcomeInv

LEMMA OutcomeOthers ==
  ASSUME OutcomeInv, Refused \/ MissingRow \/ Publish \/ Raise \/ UNCHANGED vars
  PROVE  OutcomeInv'
<1>1. input' = input /\ plan' = plan /\ heap' = heap /\ product' = product
  BY DEF Refused, MissingRow, Publish, Raise, vars, runVars
<1>2. AgreeInv /\ AgreeInv' /\ Begun /\ Exact /\ Published
  BY AgreeOthers DEF OutcomeInv
<1>3. (\A t : Segments(t)' = Segments(t)) /\ MayRaise' = MayRaise
  BY <1>1, MayRaiseKept DEF Segments
<1>4. phase' \in {"preflight", "refused"} \/ (phase \notin {"preflight", "refused"})
  BY DEF Refused, MissingRow, AtHorizon, Publish, Write, PublishOutput, PublishTelemetry,
       CloseOracles, Raise, vars
<1>5. Begun'
  <2>1. Preflight(input)' = Preflight(input)
    BY <1>1
  <2> QED BY <1>1, <1>2, <1>3, <1>4, <2>1 DEF Begun
<1>6. Whole' = Whole
  BY <1>1 DEF Whole, NothingLeft, Horizon
<1>7. disk \in Disks /\ phase \in Phases
  BY <1>2 DEF AgreeInv, Types, Disks
<1>8. Published'
  <2>1. CASE Refused \/ UNCHANGED vars
    <3>1. disk' = disk /\ faulty' = faulty /\ (phase' = phase \/ (phase = "preflight" /\ phase' = "refused"))
      BY <2>1 DEF Refused, vars, runVars
    <3> QED BY <1>2, <1>3, <1>6, <3>1 DEF Published, Late
  <2>2. CASE Publish
    <3>1. faulty' = faulty
      BY <2>2 DEF Publish
    <3>2. phase \in Late /\ phase' \in Late
      BY <2>2 DEF Publish, Write, PublishOutput, PublishTelemetry, CloseOracles, Late
    <3> QED BY <1>2, <1>6, <3>1, <3>2 DEF Published, Late
  <2>3. CASE Raise
    <3>1. phase' = "raised" /\ faulty' = TRUE /\ disk' = Removed
      BY <2>3 DEF Raise
    <3>2. /\ disk'.output = "final" => disk.output = "final"
          /\ disk'.output # "partial" /\ disk'.telemetry # "partial"
      BY <3>1 DEF Removed
    <3> QED BY <1>2, <1>6, <3>1, <3>2 DEF Published, Late
  <2>4. CASE MissingRow
    <3>1. /\ phase' = "raised" /\ faulty' = faulty /\ disk' = [disk EXCEPT !.output = "absent"]
          /\ phase = "running" /\ MayRaise
      BY <2>4 DEF MissingRow, AtHorizon, MayRaise
    <3>2. disk.output # "final" /\ disk.telemetry = "absent"
      BY <1>2, <3>1 DEF Published
    <3>3. disk'.output = "absent" /\ disk'.telemetry = "absent"
      BY <1>7, <3>1, <3>2 DEF Disks
    <3> QED BY <1>3, <3>1, <3>3 DEF Published, Late
  <2> QED BY <2>1, <2>2, <2>3, <2>4
<1>9. Exact'
  BY <1>1, <1>2 DEF Exact, Row, Policy, Market, FractionalTrade, Trades, Quotable
<1> QED BY <1>2, <1>5, <1>8, <1>9 DEF OutcomeInv

LEMMA OutcomeAlways == Spec => []OutcomeInv
<1>1. Init => OutcomeInv
  BY OutcomeInit
<1>2. OutcomeInv /\ [Next]_vars => OutcomeInv'
  BY OutcomeAccepted, OutcomeRound, OutcomeTerminal, OutcomeOthers DEF Next, Step, Finished
<1> QED BY <1>1, <1>2, PTL DEF Spec

\* A final output is the output of a whole run with every order ended, a
\* failure leaves nothing partial behind, and a run raises by itself only for
\* what its input and plan are: two segments of a product (the boundary of one
\* segment is popped before the first of its rows, whatever the latencies), a
\* product without a row, a quote that is not whole or not in cents, or a trade
\* of a fraction of a contract under the fill model.
THEOREM OutcomeIsAlwaysRight == Spec => []OutcomeIsRight
<1>1. OutcomeInv => OutcomeIsRight
  BY DEF OutcomeInv, Published, Whole, OutcomeIsRight, PublishedIsWhole, RaisesForItsInput
<1> QED BY <1>1, OutcomeAlways, PTL

-----------------------------------------------------------------------------
(* 11. Actions are causal. *)

\* Whatever waits comes after what was taken.
InOrder ==
  /\ \A b \in heap : Precedes(last, Key(b))
  /\ phase = "preflight" => last = <<-1, 0, 0, 0>>

\* Nothing is done about a row before it is visible.
Timely ==
  /\ \A a \in heap : a.kind # "segment" => Visible(a.causal) <= a.time
  /\ \A a \in heap : a.kind = "trade" => a.time = Visible(a.causal)

\* An order comes from the row that its actions name, one of the product's
\* current segment.
Sourced ==
  /\ \A a \in heap : a.kind \in {"risk", "ack"} => a.order \in OrderIds /\ ledger[a.order].causal = a.causal
  /\ \A t \in Tickers : \A o \in Held(product[t]) :
       LET i == ledger[o].causal
       IN i \in DOMAIN input /\ input[i].ticker = t /\ input[i].segment = product[t].segment

\* Trade a is a later record than the order's, seen once it was acknowledged.
Sees(a, o) ==
  /\ ledger[o].causal < a.causal
  /\ ledger[o].expires - Policy(a).lifetime <= Visible(a.causal)

\* A live order was acknowledged, its expiry waits, and a trade that still
\* waits sees it.
Answered ==
  \A t \in Tickers :
    /\ \A o \in DOMAIN product[t].pending : ledger[o].acks = 0
    /\ \A o \in DOMAIN product[t].live :
         /\ ledger[o].acks = 1
         /\ \E c \in heap :
              c.kind = "cancel" /\ c.order = o /\ c.time = ledger[o].expires /\ c.causal = ledger[o].causal
         /\ \A b \in heap : b.kind = "trade" /\ Market(b) = t => Sees(b, o)

FillsSee ==
  \A b \in heap : b.kind = "fill" => b.order \in OrderIds /\ ledger[b.order].acks = 1 /\ Sees(b, b.order)

CausalInv == InOrder /\ Timely /\ Sourced /\ Answered /\ FillsSee

\* An action b that taking action a pushes comes after a, and is about what a
\* is about.
Later(a, b) ==
  /\ b.causal = a.causal /\ b.kind \in Derived /\ a.time <= b.time
  /\ a.kind # "segment" /\ Stage[a.kind] < Stage[b.kind]
  /\ b.kind = "fill" => a.kind = "trade" /\ b.order \in DOMAIN Mine(a).live
  /\ b.kind = "risk" => a.kind = "command" /\ Command(a) /\ b.order = nextId /\ nextId \in OrderIds
  /\ b.kind = "ack" => a.kind = "risk" /\ b.order = a.order

\* The heap after action a: what was there but for a, and later actions.
HeapIsLater(a) == \A b \in heap' : b \in heap \ {a} \/ Later(a, b)

LEMMA Stages ==
  /\ Stage["feature"] < Stage["decision"] /\ Stage["trade"] < Stage["fill"]
  /\ Stage["decision"] < Stage["cancel"] /\ Stage["decision"] < Stage["command"]
  /\ Stage["command"] < Stage["risk"] /\ Stage["risk"] < Stage["ack"] /\ Stage["ack"] < Stage["cancel"]
BY DEF Stage

LEMMA PushedLater ==
  ASSUME NEW a, NEW N, Push(a, N), \A b \in N : DOMAIN b = ActionFields /\ Later(a, b)
  PROVE  HeapIsLater(a)
<1>1. heap' = (heap \ {a}) \union {[b EXCEPT !.ordinal = pushed + b.ordinal] : b \in N}
  BY DEF Push, Pushed
<1>2. ASSUME NEW b \in N
      PROVE  Later(a, [b EXCEPT !.ordinal = pushed + b.ordinal])
  <2> DEFINE c == [b EXCEPT !.ordinal = pushed + b.ordinal]
  <2>1. DOMAIN b = ActionFields /\ Later(a, b)
    BY <1>2
  <2>2. c.kind = b.kind /\ c.time = b.time /\ c.causal = b.causal /\ c.order = b.order
    BY <2>1 DEF ActionFields
  <2> HIDE DEF c
  <2>3. Later(a, c)
    BY <2>1, <2>2 DEF Later
  <2> QED BY <2>3 DEF c
<1> QED BY <1>1, <1>2 DEF HeapIsLater

LEMMA NothingLater ==
  ASSUME NEW a, Push(a, {})
  PROVE  HeapIsLater(a)
BY PushedLater

LEMMA FeatureLater ==
  ASSUME AgreeInv, NEW a \in heap, Feature(a)
  PROVE  HeapIsLater(a)
<1> DEFINE b == Action("decision", a.time + Policy(a).decision, a.causal)
<1>1. (Push(a, {}) \/ Push(a, {b})) /\ a.kind = "feature"
  BY DEF Feature, Pop
<1>2. a.time \in Nat /\ Policy(a).decision \in Nat
  BY TakenIs, PolicyIs
<1>3. /\ DOMAIN b = ActionFields /\ b.kind = "decision" /\ b.time = a.time + Policy(a).decision /\ b.causal = a.causal
  BY DEF Action, ActionFields
<1> HIDE DEF b
<1>4. a.time <= b.time
  BY <1>2, <1>3
<1>5. Later(a, b)
  BY <1>1, <1>3, <1>4, Stages DEF Later, Derived
<1> QED BY <1>1, <1>3, <1>5, PushedLater, NothingLater

LEMMA CommandLater ==
  ASSUME AgreeInv, NEW a \in heap, Command(a)
  PROVE  HeapIsLater(a)
<1> DEFINE b == [Action("risk", a.time, a.causal) EXCEPT
                   !.order = nextId, !.side = a.side, !.price = a.price, !.quantity = Quantity]
<1>1. Push(a, {b}) /\ a.kind = "command" /\ nextId \in OrderIds
  BY DEF Command, Pop
<1>2. a.time \in Nat
  BY TakenIs
<1>3. /\ DOMAIN b = ActionFields /\ b.kind = "risk" /\ b.time = a.time /\ b.causal = a.causal /\ b.order = nextId
  BY DEF Action, ActionFields
<1> HIDE DEF b
<1>4. a.time <= b.time
  BY <1>2, <1>3
<1>5. Later(a, b)
  BY <1>1, <1>3, <1>4, Stages DEF Later, Derived
<1> QED BY <1>1, <1>3, <1>5, PushedLater

LEMMA RiskLater ==
  ASSUME AgreeInv, NEW a \in heap, Risk(a)
  PROVE  HeapIsLater(a)
<1> DEFINE b == [Action("ack", a.time + Policy(a).acknowledgement, a.causal) EXCEPT !.order = a.order]
<1>1. (Push(a, {}) \/ Push(a, {b})) /\ a.kind = "risk"
  BY DEF Risk, Pop
<1>2. a.time \in Nat /\ Policy(a).acknowledgement \in Nat
  BY TakenIs, PolicyIs
<1>3. /\ DOMAIN b = ActionFields /\ b.kind = "ack" /\ b.causal = a.causal /\ b.order = a.order
      /\ b.time = a.time + Policy(a).acknowledgement
  BY DEF Action, ActionFields
<1> HIDE DEF b
<1>4. a.time <= b.time
  BY <1>2, <1>3
<1>5. Later(a, b)
  BY <1>1, <1>3, <1>4, Stages DEF Later, Derived
<1> QED BY <1>1, <1>3, <1>5, PushedLater, NothingLater

LEMMA AckLater ==
  ASSUME AgreeInv, NEW a \in heap, Ack(a)
  PROVE  HeapIsLater(a)
<1> DEFINE b == [Action("cancel", a.time + Policy(a).lifetime, a.causal) EXCEPT
                   !.order = a.order, !.reason = "logical_expiry"]
<1>1. (Push(a, {}) \/ Push(a, {b})) /\ a.kind = "ack"
  BY DEF Ack, Pop
<1>2. a.time \in Nat /\ Policy(a).lifetime \in Nat
  BY TakenIs, PolicyIs
<1>3. /\ DOMAIN b = ActionFields /\ b.kind = "cancel" /\ b.causal = a.causal
      /\ b.time = a.time + Policy(a).lifetime
  BY DEF Action, ActionFields
<1> HIDE DEF b
<1>4. a.time <= b.time
  BY <1>2, <1>3
<1>5. Later(a, b)
  BY <1>1, <1>3, <1>4, Stages DEF Later, Derived
<1> QED BY <1>1, <1>3, <1>5, PushedLater, NothingLater

LEMMA TradeLater ==
  ASSUME AgreeInv, NEW a \in heap, Trade(a)
  PROVE  HeapIsLater(a)
<1> DEFINE m == Mine(a)
           time == a.time + Policy(a).fill
           S == Served(m.live, Row(a).price, Row(a).quantity, Row(a).fraction)
           f == FillOf(m.live, Row(a).price, Row(a).quantity, Row(a).fraction, time, a.causal)
           N == {f[o] : o \in S}
<1>1. (Push(a, {}) \/ Push(a, N)) /\ a.kind = "trade"
  BY FillsListed DEF Trade, Pop
<1>2. a.time \in Nat /\ Policy(a).fill \in Nat
  BY TakenIs, PolicyIs
<1>3. a.time <= time
  BY <1>2
<1>4. S \subseteq DOMAIN m.live
  BY DEF Served, Touched
<1>5. ASSUME NEW o \in S
      PROVE  /\ DOMAIN f[o] = ActionFields /\ f[o].kind = "fill" /\ f[o].causal = a.causal
             /\ f[o].time = time /\ f[o].order = o
  BY <1>5 DEF FillOf, Action, ActionFields
<1> HIDE DEF f, S, m, time
<1>6. \A o \in S : Later(a, f[o])
  BY <1>1, <1>3, <1>4, <1>5, Stages DEF Later, Derived, m
<1>7. \A b \in N : DOMAIN b = ActionFields /\ Later(a, b)
  BY <1>5, <1>6
<1> HIDE DEF N
<1> QED BY <1>1, <1>7, PushedLater, NothingLater

LEMMA DecisionLater ==
  ASSUME AgreeInv, NEW a \in heap, Decision(a)
  PROVE  HeapIsLater(a)
<1> DEFINE H == Held(Mine(a))
           f == CancelOf(a)
           buy == CommandOf(a, 1, "Buy", Row(a).bid)
           sell == CommandOf(a, 2, "Sell", Row(a).ask)
           N == {f[o] : o \in H} \union {buy, sell}
<1>1. (Push(a, {}) \/ Push(a, N)) /\ a.kind = "decision"
  BY DecisionListed DEF Decision, Pop
<1>2. a.time \in Nat /\ Policy(a).cancellation \in Nat /\ Policy(a).order \in Nat
  BY TakenIs, PolicyIs
<1>3. ASSUME NEW o \in H
      PROVE  /\ DOMAIN f[o] = ActionFields /\ f[o].kind = "cancel" /\ f[o].causal = a.causal
             /\ f[o].time = a.time + Policy(a).cancellation
  BY <1>3 DEF CancelOf, Action, ActionFields
<1>4. \A b \in {buy, sell} : /\ DOMAIN b = ActionFields /\ b.kind = "command" /\ b.causal = a.causal
                             /\ b.time = a.time + Policy(a).order
  BY DEF CommandOf, Action, ActionFields
<1>5. a.time <= a.time + Policy(a).cancellation /\ a.time <= a.time + Policy(a).order
  BY <1>2
<1> HIDE DEF f, buy, sell, H
<1>6. \A b \in {buy, sell} : Later(a, b)
  BY <1>1, <1>4, <1>5, Stages DEF Later, Derived
<1>7. \A o \in H : Later(a, f[o])
  BY <1>1, <1>3, <1>5, Stages DEF Later, Derived
<1>8. \A b \in N : DOMAIN b = ActionFields /\ Later(a, b)
  BY <1>3, <1>4, <1>6, <1>7
<1> HIDE DEF N
<1> QED BY <1>1, <1>8, PushedLater, NothingLater

LEMMA RoundLater ==
  ASSUME AgreeInv, NEW a \in heap, Round(a)
  PROVE  HeapIsLater(a)
<1>1. CASE Segment(a) \/ Raises(a) \/ StaleAction(a) \/ Fill(a) \/ Cancel(a)
  BY <1>1, NothingLater DEF Segment, Raises, CrossesSegment, FractionalFill, InexactCommand, Fails,
       StaleAction, Fill, Fillable, Cancel
<1> QED BY <1>1, FeatureLater, TradeLater, DecisionLater, CommandLater, RiskLater, AckLater DEF Round, Raises

\* The records of an order that causality is about.
SameDates(e, f) == e.causal = f.causal /\ e.acks = f.acks /\ e.expires = f.expires

\* The acknowledgement of a pending order, which leaves its expiry behind.
Acknowledges(a) ==
  /\ a.kind = "ack" /\ a.order \in DOMAIN Mine(a).pending /\ a.order \notin DOMAIN product'[Market(a)].pending
  /\ ledger'[a.order].causal = ledger[a.order].causal
  /\ ledger'[a.order].acks = ledger[a.order].acks + 1
  /\ ledger'[a.order].expires = a.time + Policy(a).lifetime
  /\ \E c \in heap' :
       c.kind = "cancel" /\ c.order = a.order /\ c.time = a.time + Policy(a).lifetime /\ c.causal = a.causal

\* What a round does to the orders and their records.
Answers(a) ==
  /\ \A t \in Tickers :
       /\ \A o \in DOMAIN product'[t].pending :
            \/ o \in DOMAIN product[t].pending
            \/ a.kind = "risk" /\ InSegment(a) /\ t = Market(a) /\ o = a.order
       /\ \A o \in DOMAIN product'[t].live :
            \/ o \in DOMAIN product[t].live
            \/ t = Market(a) /\ o = a.order /\ Acknowledges(a)
       /\ Held(product'[t]) # {} => product'[t].segment = product[t].segment
  /\ \A o \in OrderIds :
       \/ SameDates(ledger'[o], ledger[o])
       \/ a.kind = "command" /\ o = nextId
       \/ o = a.order /\ Acknowledges(a)
  /\ a.kind = "cancel" /\ InSegment(a) => a.order \notin Held(product'[Market(a)])
  /\ Command(a) => ledger'[nextId].causal = a.causal

LEMMA ProductAt ==
  ASSUME Types, NEW a, Market(a) \in Tickers, NEW n, Becomes(a, n)
  PROVE  product'[Market(a)] = n /\ \A t \in Tickers \ {Market(a)} : product'[t] = product[t]
BY DEF Types, Becomes

LEMMA EndedDates ==
  ASSUME Types, NEW ids
  PROVE  \A o \in OrderIds : SameDates(Ended(ledger, ids)[o], ledger[o])
<1> SUFFICES ASSUME NEW o \in OrderIds
             PROVE  SameDates(Ended(ledger, ids)[o], ledger[o])
  OBVIOUS
<1>1. DOMAIN ledger[o] = {"quantity", "admitted", "acks", "filled", "endings", "expires", "causal"}
  BY EntryIs
<1>2. Ended(ledger, ids)[o] = IF o \in ids THEN [ledger[o] EXCEPT !.endings = ledger[o].endings + 1] ELSE ledger[o]
  BY DEF Ended
<1> QED BY <1>1, <1>2 DEF SameDates

LEMMA AnswersNone ==
  ASSUME NEW a, product' = product, ledger' = ledger, ~Command(a), a.kind = "cancel" => ~InSegment(a)
  PROVE  Answers(a)
BY DEF Answers, SameDates

\* No order becomes pending or live.
LEMMA AnswersOne ==
  ASSUME Types, NEW a, Market(a) \in Tickers, NEW n, Becomes(a, n), a.kind # "command",
         DOMAIN n.pending \subseteq DOMAIN Mine(a).pending, DOMAIN n.live \subseteq DOMAIN Mine(a).live,
         Held(n) # {} => n.segment = Mine(a).segment,
         a.kind = "cancel" => a.order \notin Held(n),
         \A o \in OrderIds : SameDates(ledger'[o], ledger[o])
  PROVE  Answers(a)
<1>1. product'[Market(a)] = n /\ \A t \in Tickers \ {Market(a)} : product'[t] = product[t]
  BY ProductAt
<1>2. Mine(a) = product[Market(a)]
  BY DEF Mine
<1>3. ~Command(a)
  BY DEF Command, Pop
<1> QED BY <1>1, <1>2, <1>3 DEF Answers

LEMMA SegmentAnswers ==
  ASSUME AgreeInv, Sourced, NEW a \in heap, Segment(a)
  PROVE  Answers(a)
<1> DEFINE m == Mine(a)
           ended == [Emptied(m) EXCEPT !.segment = Row(a).segment, !.seen = FALSE, !.next = -1]
           entered == [m EXCEPT !.segment = Row(a).segment]
<1>1. /\ Market(a) \in Tickers /\ Agrees(m) /\ IsRuntime(m) /\ Types
      /\ Held(m) \subseteq OrderIds /\ a.kind = "segment"
  BY TakenIs DEF Segment, Pop
<1>2. \A o \in OrderIds : SameDates(ledger'[o], ledger[o])
  <2>1. ledger' = Ended(ledger, Held(m)) \/ ledger' = ledger
    BY DEF Segment
  <2> QED BY <1>1, <2>1, EndedDates DEF SameDates
<1>3. CASE m.segment \notin {None, Row(a).segment}
  <2>1. Becomes(a, ended)
    BY <1>3 DEF Segment
  <2>2. IsRuntime(Emptied(m)) /\ Held(Emptied(m)) = {}
    BY <1>1, AgreesEmptied DEF Agrees
  <2>3. ended.pending = Emptied(m).pending /\ ended.live = Emptied(m).live
    BY <2>2 DEF IsRuntime
  <2> HIDE DEF ended, m
  <2>4. Held(ended) = {} /\ DOMAIN ended.pending = {} /\ DOMAIN ended.live = {}
    BY <2>2, <2>3 DEF Held
  <2> QED BY <1>1, <1>2, <2>1, <2>4, AnswersOne
<1>4. CASE m.segment \in {None, Row(a).segment}
  <2>1. Becomes(a, entered)
    BY <1>4 DEF Segment
  <2>2. entered.pending = m.pending /\ entered.live = m.live /\ entered.segment = Row(a).segment
    BY <1>1 DEF IsRuntime
  <2>3. m.segment = None => Held(m) = {}
    <3>1. \A i \in DOMAIN input : input[i].segment # None
      BY <1>1, InputsAssumption DEF Types
    <3> QED BY <1>1, <3>1 DEF Sourced, Mine
  <2> HIDE DEF entered, m
  <2>4. Held(entered) = Held(m)
    BY <2>2 DEF Held
  <2>5. Held(entered) # {} => entered.segment = m.segment
    BY <1>4, <2>2, <2>3, <2>4
  <2> QED BY <1>1, <1>2, <2>1, <2>2, <2>5, AnswersOne DEF m
<1> QED BY <1>3, <1>4

LEMMA FeatureAnswers ==
  ASSUME AgreeInv, NEW a \in heap, Feature(a)
  PROVE  Answers(a)
<1> DEFINE m == Mine(a)
           next == IF a.time >= m.next THEN a.time + Policy(a).interval ELSE m.next
           n == [m EXCEPT !.seen = TRUE, !.next = next]
<1>1. Market(a) \in Tickers /\ IsRuntime(m) /\ Types /\ a.kind = "feature" /\ ledger' = ledger
  BY TakenIs DEF Feature, Pop
<1>2. Becomes(a, n)
  BY DEF Feature
<1>3. n.pending = m.pending /\ n.live = m.live /\ n.segment = m.segment
  BY <1>1 DEF IsRuntime
<1>4. \A o \in OrderIds : SameDates(ledger'[o], ledger[o])
  BY <1>1 DEF SameDates
<1> HIDE DEF n, m
<1> QED BY <1>1, <1>2, <1>3, <1>4, AnswersOne DEF m

LEMMA OthersAnswer ==
  ASSUME NEW a \in heap, Trade(a) \/ Decision(a) \/ StaleAction(a) \/ Raises(a)
  PROVE  Answers(a)
<1>1. product' = product /\ ledger' = ledger
  BY DEF Trade, Decision, StaleAction, Raises, CrossesSegment, FractionalFill, InexactCommand, Fails
<1>2. ~Command(a) /\ (a.kind = "cancel" => ~InSegment(a))
  BY DEF Trade, Decision, StaleAction, Raises, CrossesSegment, FractionalFill, InexactCommand,
       Fails, Command, Pop
<1> QED BY <1>1, <1>2, AnswersNone

LEMMA FillAnswers ==
  ASSUME AgreeInv, NEW a \in heap, Fill(a)
  PROVE  Answers(a)
<1> DEFINE m == Mine(a)
           o == a.order
           q == Smallest(m.live[o].remaining, a.quantity)
           left == m.live[o].remaining - q
           live == IF left = 0 THEN Without(m.live, {o}) ELSE [m.live EXCEPT ![o].remaining = left]
           n == [m EXCEPT !.risk = Filled(m.risk, o, m.live[o].side, q), !.live = live]
           idle == o \notin DOMAIN m.live \/ m.live[o].segment # m.segment \/ q <= 0
<1>1. /\ Market(a) \in Tickers /\ IsRuntime(m) /\ Types /\ a.kind = "fill"
      /\ ledger \in [OrderIds -> EntryRecord]
  BY TakenIs DEF Fill, Fillable, Pop, Types
<1>2. CASE idle
  <2>1. Becomes(a, m) /\ ledger' = ledger
    BY <1>2 DEF Fill, Fillable
  <2>2. \A c \in OrderIds : SameDates(ledger'[c], ledger[c])
    BY <2>1 DEF SameDates
  <2> HIDE DEF m
  <2> QED BY <1>1, <2>1, <2>2, AnswersOne DEF m
<1>3. CASE ~idle
  <2>1. Becomes(a, n) /\ ledger' = [ledger EXCEPT ![o].filled = ledger[o].filled + q]
    BY <1>3 DEF Fill, Fillable
  <2>2. n.pending = m.pending /\ n.live = live /\ n.segment = m.segment
    BY <1>1 DEF IsRuntime
  <2>3. DOMAIN live \subseteq DOMAIN m.live
    BY DEF Without
  <2>4. \A c \in OrderIds : SameDates(ledger'[c], ledger[c])
    <3> SUFFICES ASSUME NEW c \in OrderIds
                 PROVE  SameDates(ledger'[c], ledger[c])
      OBVIOUS
    <3>1. DOMAIN ledger[c] = {"quantity", "admitted", "acks", "filled", "endings", "expires", "causal"}
      BY <1>1, EntryIs
    <3> HIDE DEF q, o
    <3> QED BY <1>1, <2>1, <3>1 DEF SameDates
  <2> HIDE DEF m, n, live
  <2> QED BY <1>1, <2>1, <2>2, <2>3, <2>4, AnswersOne DEF m
<1> QED BY <1>2, <1>3

LEMMA CancelAnswers ==
  ASSUME AgreeInv, NEW a \in heap, Cancel(a)
  PROVE  Answers(a)
<1> DEFINE m == Mine(a)
           o == a.order
           rejected == [m EXCEPT !.pending = Without(m.pending, {o}), !.risk = Rejected(m.risk, {o})]
           cancelled == [m EXCEPT !.live = Without(m.live, {o}), !.risk = Cancelled(m.risk, {o})]
<1>1. /\ Market(a) \in Tickers /\ Agrees(m) /\ IsRuntime(m) /\ Types /\ a.kind = "cancel"
      /\ DOMAIN m.pending \cap DOMAIN m.live = {}
  BY TakenIs DEF Cancel, Pop, Agrees
<1>2. \A c \in OrderIds : SameDates(ledger'[c], ledger[c])
  <2>1. ledger' = Ended(ledger, {o}) \/ ledger' = ledger
    BY DEF Cancel
  <2> QED BY <1>1, <2>1, EndedDates DEF SameDates
<1>3. \/ o \in DOMAIN m.pending /\ Becomes(a, rejected)
      \/ o \notin DOMAIN m.pending /\ Becomes(a, cancelled)
      \/ o \notin Held(m) /\ Becomes(a, m)
  BY <1>1 DEF Cancel, Held
<1>4. rejected.pending = Without(m.pending, {o}) /\ rejected.live = m.live /\ rejected.segment = m.segment
  BY <1>1 DEF IsRuntime
<1>5. cancelled.pending = m.pending /\ cancelled.live = Without(m.live, {o}) /\ cancelled.segment = m.segment
  BY <1>1 DEF IsRuntime
<1> HIDE DEF m, rejected, cancelled, o
<1>6. DOMAIN rejected.pending = DOMAIN m.pending \ {o} /\ DOMAIN cancelled.live = DOMAIN m.live \ {o}
  BY <1>4, <1>5 DEF Without
<1>7. o \in DOMAIN m.pending => o \notin Held(rejected)
  BY <1>1, <1>4, <1>6 DEF Held
<1>8. o \notin DOMAIN m.pending => o \notin Held(cancelled)
  BY <1>5, <1>6 DEF Held
<1>9. CASE o \in DOMAIN m.pending /\ Becomes(a, rejected)
  BY <1>1, <1>2, <1>4, <1>6, <1>7, <1>9, AnswersOne DEF m, o
<1>10. CASE o \notin DOMAIN m.pending /\ Becomes(a, cancelled)
  BY <1>1, <1>2, <1>5, <1>6, <1>8, <1>10, AnswersOne DEF m, o
<1>11. CASE o \notin Held(m) /\ Becomes(a, m)
  BY <1>1, <1>2, <1>11, AnswersOne DEF m, o
<1> QED BY <1>3, <1>9, <1>10, <1>11

LEMMA CommandAnswers ==
  ASSUME AgreeInv, NEW a \in heap, Command(a)
  PROVE  Answers(a)
<1> DEFINE e == [ledger[nextId] EXCEPT !.quantity = Quantity, !.causal = a.causal]
<1>1. a.kind = "command" /\ product' = product /\ nextId \in OrderIds /\ ledger \in [OrderIds -> EntryRecord]
  BY DEF Command, Pop, AgreeInv, Types
<1>2. ledger' = [ledger EXCEPT ![nextId] = e]
  <2>1. ledger' = [ledger EXCEPT ![nextId].quantity = Quantity, ![nextId].causal = a.causal]
    BY DEF Command
  <2> QED BY <1>1, <2>1
<1>3. e.causal = a.causal
  BY <1>1 DEF EntryRecord
<1> HIDE DEF e
<1>4. /\ ledger'[nextId].causal = a.causal
      /\ \A o \in OrderIds : o # nextId => ledger'[o] = ledger[o]
  BY <1>1, <1>2, <1>3
<1> QED BY <1>1, <1>4 DEF Answers, SameDates

LEMMA RiskAnswers ==
  ASSUME AgreeInv, NEW a \in heap, Risk(a)
  PROVE  Answers(a)
<1> DEFINE m == Mine(a)
           o == a.order
           n == [m EXCEPT !.risk = Approved(m.risk, o, a.side, a.quantity), !.pending = With(m.pending, o, Order(a))]
<1>1. /\ Market(a) \in Tickers /\ IsRuntime(m) /\ Types /\ a.kind = "risk" /\ InSegment(a)
      /\ ledger \in [OrderIds -> EntryRecord] /\ o \in OrderIds
  BY TakenIs DEF Risk, Pop, Types, AgreeInv, Asked
<1>2. \/ Becomes(a, m) /\ ledger' = ledger
      \/ Becomes(a, n) /\ ledger' = [ledger EXCEPT ![o].admitted = TRUE]
  BY DEF Risk
<1>3. \A c \in OrderIds : SameDates(ledger'[c], ledger[c])
  <2> SUFFICES ASSUME NEW c \in OrderIds
               PROVE  SameDates(ledger'[c], ledger[c])
    OBVIOUS
  <2>1. DOMAIN ledger[c] = {"quantity", "admitted", "acks", "filled", "endings", "expires", "causal"}
    BY <1>1, EntryIs
  <2>2. ledger' = ledger \/ ledger' = [ledger EXCEPT ![o].admitted = TRUE]
    BY <1>2
  <2> HIDE DEF o
  <2> QED BY <1>1, <2>1, <2>2 DEF SameDates
<1>4. n.pending = With(m.pending, o, Order(a)) /\ n.live = m.live /\ n.segment = m.segment
  BY <1>1 DEF IsRuntime
<1> HIDE DEF m, n, o
<1>5. CASE Becomes(a, m)
  BY <1>1, <1>3, <1>5, AnswersOne DEF m
<1>6. CASE Becomes(a, n)
  <2>1. product'[Market(a)] = n /\ \A t \in Tickers \ {Market(a)} : product'[t] = product[t]
    BY <1>1, <1>6, ProductAt
  <2>2. DOMAIN n.pending = DOMAIN m.pending \union {o}
    BY <1>4 DEF With
  <2>3. m = product[Market(a)]
    BY DEF m, Mine
  <2>4. ~Command(a)
    BY <1>1 DEF Command, Pop
  <2> QED BY <1>1, <1>3, <1>4, <2>1, <2>2, <2>3, <2>4 DEF Answers, o
<1> QED BY <1>2, <1>5, <1>6

LEMMA AckAnswers ==
  ASSUME AgreeInv, NEW a \in heap, Ack(a)
  PROVE  Answers(a)
<1> DEFINE m == Mine(a)
           o == a.order
           d == m.pending[o]
           expires == a.time + Policy(a).lifetime
           expiry == [Action("cancel", expires, a.causal) EXCEPT !.order = o, !.reason = "logical_expiry"]
           rejected == [m EXCEPT !.pending = Without(m.pending, {o}), !.risk = Rejected(m.risk, {o})]
           live == [m EXCEPT !.pending = Without(m.pending, {o}), !.live = With(m.live, o, d),
                             !.risk = Acknowledged(m.risk, o, d.side, d.remaining)]
<1>1. /\ Market(a) \in Tickers /\ IsRuntime(m) /\ Types /\ a.kind = "ack"
      /\ ledger \in [OrderIds -> EntryRecord] /\ Held(m) \subseteq OrderIds
  BY TakenIs DEF Ack, Pop, Types
<1>2. \/ Becomes(a, m) /\ ledger' = ledger
      \/ Becomes(a, rejected) /\ ledger' = Ended(ledger, {o})
      \/ /\ Becomes(a, live) /\ o \in DOMAIN m.pending /\ Push(a, {expiry})
         /\ ledger' = [ledger EXCEPT ![o].acks = ledger[o].acks + 1, ![o].expires = expires]
  BY DEF Ack
<1>3. rejected.pending = Without(m.pending, {o}) /\ rejected.live = m.live /\ rejected.segment = m.segment
  BY <1>1 DEF IsRuntime
<1>4. live.pending = Without(m.pending, {o}) /\ live.live = With(m.live, o, d) /\ live.segment = m.segment
  BY <1>1 DEF IsRuntime
<1>5. [expiry EXCEPT !.ordinal = pushed + expiry.ordinal] \in heap' \/ ~Push(a, {expiry})
  BY DEF Push, Pushed
<1>6. /\ DOMAIN expiry = ActionFields
      /\ expiry.kind = "cancel" /\ expiry.order = o /\ expiry.time = expires /\ expiry.causal = a.causal
  BY DEF Action, ActionFields
<1> HIDE DEF m, rejected, live, o, d, expires, expiry
<1>7. CASE Becomes(a, m) /\ ledger' = ledger
  <2>1. \A c \in OrderIds : SameDates(ledger'[c], ledger[c])
    BY <1>7 DEF SameDates
  <2> QED BY <1>1, <1>7, <2>1, AnswersOne DEF m
<1>8. CASE Becomes(a, rejected) /\ ledger' = Ended(ledger, {o})
  <2>1. \A c \in OrderIds : SameDates(ledger'[c], ledger[c])
    BY <1>1, <1>8, EndedDates
  <2>2. DOMAIN rejected.pending \subseteq DOMAIN m.pending
    BY <1>3 DEF Without
  <2> QED BY <1>1, <1>3, <1>8, <2>1, <2>2, AnswersOne DEF m
<1>9. CASE /\ Becomes(a, live) /\ o \in DOMAIN m.pending /\ Push(a, {expiry})
           /\ ledger' = [ledger EXCEPT ![o].acks = ledger[o].acks + 1, ![o].expires = expires]
  <2>1. product'[Market(a)] = live /\ \A t \in Tickers \ {Market(a)} : product'[t] = product[t]
    BY <1>1, <1>9, ProductAt
  <2>2. DOMAIN live.pending = DOMAIN m.pending \ {o} /\ DOMAIN live.live = DOMAIN m.live \union {o}
    BY <1>4 DEF With, Without
  <2>3. m = product[Market(a)]
    BY DEF m, Mine
  <2>4. \E c \in heap' : c.kind = "cancel" /\ c.order = o /\ c.time = expires /\ c.causal = a.causal
    BY <1>5, <1>6, <1>9 DEF ActionFields
  <2>5. o \in OrderIds
    BY <1>1, <1>9 DEF Held
  <2>6. /\ ledger'[o].causal = ledger[o].causal /\ ledger'[o].acks = ledger[o].acks + 1
        /\ ledger'[o].expires = expires
        /\ \A c \in OrderIds : c # o => ledger'[c] = ledger[c]
    <3>1. DOMAIN ledger[o] = {"quantity", "admitted", "acks", "filled", "endings", "expires", "causal"}
      BY <1>1, <2>5, EntryIs
    <3> QED BY <1>1, <1>9, <2>5, <3>1
  <2>7. Acknowledges(a)
    BY <1>1, <1>9, <2>1, <2>2, <2>4, <2>6 DEF Acknowledges, o, m, expires
  <2>8. ASSUME NEW t \in Tickers
        PROVE  /\ \A c \in DOMAIN product'[t].pending : c \in DOMAIN product[t].pending
               /\ \A c \in DOMAIN product'[t].live : c \in DOMAIN product[t].live \/ (t = Market(a) /\ c = a.order)
               /\ product'[t].segment = product[t].segment
    BY <1>4, <2>1, <2>2, <2>3 DEF o
  <2>9. \A c \in OrderIds : SameDates(ledger'[c], ledger[c]) \/ c = a.order
    BY <2>6 DEF SameDates, o
  <2>10. ~Command(a)
    BY <1>1 DEF Command, Pop
  <2> QED BY <1>1, <2>7, <2>8, <2>9, <2>10 DEF Answers
<1> QED BY <1>2, <1>7, <1>8, <1>9

LEMMA RoundAnswers ==
  ASSUME AgreeInv, Sourced, NEW a \in heap, Round(a)
  PROVE  Answers(a)
BY SegmentAnswers, FeatureAnswers, OthersAnswer, FillAnswers, CommandAnswers, RiskAnswers,
     AckAnswers, CancelAnswers
   DEF Round, Raises

\* When a row is visible.
LEMMA VisibleIs ==
  ASSUME Types, NEW a, a.causal \in DOMAIN input
  PROVE  Visible(a.causal) = Row(a).time + Policy(a).marketData /\ Visible(a.causal) \in Nat
<1>1. Visible(a.causal) = Row(a).time + Policy(a).marketData
  BY DEF Visible, Row, Policy, Market
<1> QED BY <1>1, PolicyIs

LEMMA InOrderRound ==
  ASSUME OrdersInv, NEW a \in heap, Round(a)
  PROVE  InOrder'
<1>1. AgreeInv /\ HeapIsLater(a) /\ Earliest(a)
  BY RoundLater DEF OrdersInv, Round
<1>2. last' = Key(a) /\ phase' # "preflight"
  BY DEF Round, Pop, Segment, Raises, CrossesSegment, FractionalFill, InexactCommand, Fails,
       StaleAction, Feature, Trade, Fill, Fillable, Decision, Command, Risk, Ack, Cancel, Becomes
<1>3. ASSUME NEW b \in heap'
      PROVE  Precedes(Key(a), Key(b))
  <2>1. CASE b \in heap \ {a}
    BY <1>1, <2>1 DEF Earliest
  <2>2. CASE Later(a, b)
    <3>1. b.causal = a.causal /\ a.time <= b.time /\ Stage[a.kind] < Stage[b.kind]
      BY <2>2 DEF Later
    <3>2. \A x \in heap' : x.time \in Nat
      BY <1>1, OrdersRound DEF OrdersInv, AgreeInv, Types, ActionOk
    <3>3. a.time \in Nat /\ b.time \in Nat
      BY <1>1, <3>2, TakenIs
    <3> QED BY <3>1, <3>3 DEF Precedes, Key
  <2> QED BY <1>1, <2>1, <2>2 DEF HeapIsLater
<1>4. \A b : Key(b)' = Key(b)
  BY DEF Key
<1> QED BY <1>2, <1>3, <1>4 DEF InOrder

\* What a round leaves alone.
LEMMA RoundKeeps ==
  ASSUME OrdersInv, NEW a \in heap, Round(a)
  PROVE  /\ input' = input /\ plan' = plan
         /\ \A i : Visible(i)' = Visible(i)
         /\ \A b : Market(b)' = Market(b) /\ Policy(b)' = Policy(b)
<1>1. input' = input /\ plan' = plan
  BY RoundMoves DEF OrdersInv, Moves
<1> QED BY <1>1 DEF Visible, Market, Policy, Row

LEMMA TimelyRound ==
  ASSUME OrdersInv, Timely, NEW a \in heap, Round(a)
  PROVE  Timely'
<1>1. AgreeInv /\ HeapIsLater(a) /\ \A i : Visible(i)' = Visible(i)
  BY RoundLater, RoundKeeps DEF OrdersInv
<1>2. \A b \in heap' : b.time \in Nat
  BY OrdersRound DEF OrdersInv, AgreeInv, Types, ActionOk
<1>3. a.time \in Nat /\ Visible(a.causal) \in Nat
  BY <1>1, TakenIs, VisibleIs
<1>4. ASSUME NEW b \in heap'
      PROVE  /\ b.kind # "segment" => Visible(b.causal) <= b.time
             /\ b.kind = "trade" => b.time = Visible(b.causal)
  <2>1. CASE b \in heap
    BY <2>1 DEF Timely
  <2>2. CASE Later(a, b)
    <3>1. b.kind # "trade" /\ a.kind # "segment" /\ b.causal = a.causal /\ a.time <= b.time
      BY <2>2 DEF Later, Derived
    <3>2. Visible(a.causal) <= a.time
      BY <3>1 DEF Timely
    <3> QED BY <1>2, <1>3, <3>1, <3>2
  <2> QED BY <1>1, <2>1, <2>2 DEF HeapIsLater
<1> QED BY <1>1, <1>4 DEF Timely

\* The records of an order that has a number, unless it is acknowledged.
LEMMA DatesKept ==
  ASSUME AgreeInv, NEW a \in heap, Answers(a), NEW o \in OrderIds, o < nextId
  PROVE  /\ ledger'[o].causal = ledger[o].causal
         /\ SameDates(ledger'[o], ledger[o]) \/ (o = a.order /\ Acknowledges(a))
<1>1. o # nextId
  BY TakenIs DEF OrderIds
<1>2. SameDates(ledger'[o], ledger[o]) \/ (o = a.order /\ Acknowledges(a))
  BY <1>1 DEF Answers
<1> QED BY <1>2 DEF SameDates, Acknowledges

LEMMA SourcedRound ==
  ASSUME OrdersInv, Sourced, NEW a \in heap, Round(a)
  PROVE  Sourced'
<1>1. AgreeInv /\ Types /\ HeapIsLater(a) /\ Answers(a) /\ input' = input
  BY RoundLater, RoundAnswers, RoundKeeps DEF OrdersInv, AgreeInv
<1>2. \A b \in heap' : b \in heap \ {a} \/ (Later(a, b) /\ InSegment(a))
  BY <1>1, HeapAfter DEF HeapIsLater, Spawned
<1>3. ASSUME NEW b \in heap', b.kind \in {"risk", "ack"}
      PROVE  b.order \in OrderIds /\ ledger'[b.order].causal = b.causal
  <2>1. CASE b \in heap
    <3>1. b.order \in OrderIds /\ ledger[b.order].causal = b.causal /\ b.order < nextId
      BY <1>1, <1>3, <2>1, TakenIs DEF Sourced
    <3> QED BY <1>1, <3>1, DatesKept
  <2>2. CASE Later(a, b) /\ InSegment(a) /\ b.kind = "risk"
    <3>1. Command(a) /\ b.order = nextId /\ nextId \in OrderIds /\ b.causal = a.causal
      BY <2>2 DEF Later
    <3> QED BY <1>1, <2>2, <3>1 DEF Answers
  <2>3. CASE Later(a, b) /\ b.kind = "ack"
    <3>1. a.kind = "risk" /\ b.order = a.order /\ b.causal = a.causal
      BY <2>3 DEF Later
    <3>2. a.order \in OrderIds /\ ledger[a.order].causal = a.causal /\ a.order < nextId
      BY <1>1, <3>1, TakenIs DEF Sourced
    <3> QED BY <1>1, <3>1, <3>2, DatesKept
  <2> QED BY <1>2, <1>3, <2>1, <2>2, <2>3
<1>4. ASSUME NEW t \in Tickers, NEW o \in Held(product'[t])
      PROVE  LET i == ledger'[o].causal
             IN i \in DOMAIN input /\ input[i].ticker = t /\ input[i].segment = product'[t].segment
  <2>1. product'[t].segment = product[t].segment
    BY <1>1 DEF Answers
  <2>2. CASE o \in Held(product[t])
    <3>1. o \in OrderIds /\ o < nextId
      BY <1>1, <2>2 DEF AgreeInv, Asked
    <3>2. ledger'[o].causal = ledger[o].causal
      BY <1>1, <3>1, DatesKept
    <3>3. ledger[o].causal \in DOMAIN input
          /\ input[ledger[o].causal].ticker = t /\ input[ledger[o].causal].segment = product[t].segment
      BY <2>2 DEF Sourced
    <3> QED BY <2>1, <3>2, <3>3
  <2>3. CASE o \notin Held(product[t])
    <3>1. a.kind = "risk" /\ InSegment(a) /\ t = Market(a) /\ o = a.order
      BY <1>1, <2>3 DEF Answers, Held, Acknowledges, Mine
    <3>2. o \in OrderIds /\ ledger[o].causal = a.causal /\ o < nextId /\ a.causal \in DOMAIN input
      BY <1>1, <3>1, TakenIs DEF Sourced
    <3>3. ledger'[o].causal = a.causal
      BY <1>1, <3>2, DatesKept
    <3>4. input[a.causal].ticker = t /\ input[a.causal].segment = product[t].segment
      BY <3>1 DEF InSegment, Market, Row, Mine
    <3> QED BY <2>1, <3>2, <3>3, <3>4
  <2> QED BY <2>2, <2>3
<1> QED BY <1>1, <1>3, <1>4 DEF Sourced

\* A trade that still waits when an order is acknowledged is later than the
\* row the order comes from: that row's actions came first.
LEMMA TradeIsLater ==
  ASSUME OrdersInv, Preflight(input), Timely, NEW a \in heap, a.kind = "ack", NEW b \in heap, b.kind = "trade",
         Market(b) = Market(a), Precedes(Key(a), Key(b))
  PROVE  a.causal < b.causal /\ a.time <= Visible(b.causal)
<1>1. Types /\ a.causal \in DOMAIN input /\ b.causal \in DOMAIN input /\ a.time \in Nat /\ b.time \in Nat
  BY TakenIs DEF OrdersInv
<1>2. DOMAIN input \subseteq Nat
  BY <1>1, InputsAssumption DEF Types
<1>3. b.time = Visible(b.causal) /\ Visible(a.causal) <= a.time
  BY DEF Timely
<1>4. /\ Visible(a.causal) = Row(a).time + Policy(a).marketData /\ Visible(b.causal) = Row(b).time + Policy(b).marketData
      /\ Policy(a) = Policy(b) /\ Policy(a).marketData \in Nat /\ Row(a).time \in Nat /\ Row(b).time \in Nat
  BY <1>1, VisibleIs, PolicyIs DEF Policy
<1>5. b.causal < a.causal => Row(b).time <= Row(a).time
  BY <1>1 DEF Preflight, Row
<1>6. /\ \/ a.time < b.time
         \/ a.time = b.time /\ a.causal < b.causal
         \/ a.time = b.time /\ a.causal = b.causal /\ Stage["ack"] < Stage["trade"]
         \/ a.time = b.time /\ a.causal = b.causal /\ Stage["ack"] = Stage["trade"]
      /\ a.time <= b.time
  <2>1. \/ a.time < b.time
        \/ a.time = b.time /\ a.causal < b.causal
        \/ a.time = b.time /\ a.causal = b.causal /\ Stage["ack"] < Stage["trade"]
        \/ a.time = b.time /\ a.causal = b.causal /\ Stage["ack"] = Stage["trade"]
    BY DEF Precedes, Key
  <2> QED BY <1>1, <2>1
<1>7. ~(Stage["ack"] < Stage["trade"]) /\ Stage["ack"] # Stage["trade"]
  BY DEF Stage
<1>8. a.time < b.time \/ (a.time = b.time /\ a.causal < b.causal)
  BY <1>6, <1>7
<1>9. a.causal # b.causal
  <2>1. CASE a.causal = b.causal
    <3>1. a.time < b.time /\ b.time = Visible(a.causal)
      BY <1>1, <1>2, <1>3, <1>8, <2>1
    <3> QED BY <1>1, <1>3, <3>1
  <2> QED BY <2>1
<1>10. ~(b.causal < a.causal)
  <2>1. CASE b.causal < a.causal
    <3>1. Visible(b.causal) <= Visible(a.causal)
      BY <1>4, <1>5, <2>1
    <3>2. a.time < b.time
      BY <1>1, <1>2, <1>8, <2>1
    <3>3. Visible(a.causal) \in Nat /\ Visible(b.causal) \in Nat
      BY <1>1, VisibleIs
    <3> QED BY <1>1, <1>3, <3>1, <3>2, <3>3
  <2> QED BY <2>1
<1> QED BY <1>1, <1>2, <1>3, <1>6, <1>9, <1>10

\* A pending order, and a live one, through a round.
LEMMA SeesKept ==
  ASSUME OrdersInv, NEW a \in heap, Round(a), NEW o, SameDates(ledger'[o], ledger[o]), NEW b, Sees(b, o)
  PROVE  Sees(b, o)'
<1>1. Visible(b.causal)' = Visible(b.causal) /\ Policy(b)' = Policy(b)
  BY RoundKeeps
<1> QED BY <1>1 DEF Sees, SameDates

LEMMA PendingAnswered ==
  ASSUME OrdersInv, Answered, NEW a \in heap, Round(a), Answers(a), NEW t \in Tickers,
         NEW o \in DOMAIN product'[t].pending
  PROVE  ledger'[o].acks = 0
<1>1. AgreeInv /\ Accounted /\ Market(a) \in Tickers
  BY TakenIs DEF OrdersInv
<1>2. CASE o \in DOMAIN product[t].pending
  <2>1. o \in Held(product[t]) /\ o \in OrderIds /\ o < nextId /\ ledger[o].acks = 0
    BY <1>1, <1>2 DEF Held, AgreeInv, Asked, Answered
  <2>2. ~(o = a.order /\ Acknowledges(a))
    <3>1. CASE o = a.order /\ Acknowledges(a)
      <4>1. o \in Held(product[Market(a)]) /\ o \notin DOMAIN product'[Market(a)].pending
        BY <3>1 DEF Acknowledges, Mine, Held
      <4>2. t = Market(a)
        BY <1>1, <2>1, <4>1 DEF Accounted
      <4> QED BY <4>1, <4>2
    <3> QED BY <3>1
  <2> QED BY <1>1, <2>1, <2>2, DatesKept DEF SameDates
<1>3. CASE o \notin DOMAIN product[t].pending
  <2>1. a.kind = "risk" /\ o = a.order
    BY <1>3 DEF Answers
  <2>2. o \in OrderIds /\ ~ledger[o].admitted /\ o < nextId
    BY <1>1, <2>1, TakenIs DEF AgreeInv, Asked
  <2>3. ledger[o].acks = 0
    BY <1>1, <2>2 DEF Accounted, Untouched
  <2>4. ~Acknowledges(a)
    BY <2>1 DEF Acknowledges
  <2> QED BY <1>1, <2>2, <2>3, <2>4, DatesKept DEF SameDates
<1> QED BY <1>2, <1>3

\* An order that was live keeps its records and its expiry.
LEMMA LiveStays ==
  ASSUME OrdersInv, Sourced, Answered, NEW a \in heap, Round(a), NEW t \in Tickers,
         NEW o \in DOMAIN product[t].live
  PROVE  /\ o \in OrderIds /\ SameDates(ledger'[o], ledger[o]) /\ ledger'[o].acks = 1
         /\ o \in Held(product'[t]) =>
              \E c \in heap' :
                c.kind = "cancel" /\ c.order = o /\ c.time = ledger'[o].expires /\ c.causal = ledger'[o].causal
<1>1. AgreeInv /\ Answers(a) /\ Market(a) \in Tickers
  BY RoundAnswers, TakenIs DEF OrdersInv
<1>2. o \in Held(product[t]) /\ o \in OrderIds /\ o < nextId /\ ledger[o].acks = 1
  BY <1>1 DEF Held, AgreeInv, Asked, Answered
<1>3. ~(o = a.order /\ Acknowledges(a))
  BY <1>1, <1>2 DEF Acknowledges, Answered, Mine
<1>4. SameDates(ledger'[o], ledger[o]) /\ ledger'[o].acks = 1
  BY <1>1, <1>2, <1>3, DatesKept DEF SameDates
<1>5. PICK c \in heap : c.kind = "cancel" /\ c.order = o /\ c.time = ledger[o].expires /\ c.causal = ledger[o].causal
  BY DEF Answered
<1>6. c = a => o \notin Held(product'[t])
  <2>1. CASE c = a
    <3>1. input[a.causal].ticker = t /\ input[a.causal].segment = product[t].segment
      BY <1>2, <1>5, <2>1 DEF Sourced
    <3>2. Market(a) = t /\ InSegment(a)
      BY <3>1 DEF Market, Row, InSegment, Mine
    <3> QED BY <1>1, <1>5, <2>1, <3>2 DEF Answers
  <2> QED BY <2>1
<1>7. heap \ {a} \subseteq heap'
  BY <1>1, HeapAfter
<1> QED BY <1>2, <1>4, <1>5, <1>6, <1>7 DEF SameDates

LEMMA LiveAnswered ==
  ASSUME OrdersInv, Preflight(input), Timely, Sourced, Answered, NEW a \in heap, Round(a), NEW t \in Tickers,
         NEW o \in DOMAIN product'[t].live
  PROVE  /\ ledger'[o].acks = 1
         /\ \E c \in heap' :
              c.kind = "cancel" /\ c.order = o /\ c.time = ledger'[o].expires /\ c.causal = ledger'[o].causal
         /\ \A b \in heap' : b.kind = "trade" /\ Market(b) = t => Sees(b, o)'
<1>1. AgreeInv /\ Answers(a) /\ HeapIsLater(a) /\ Earliest(a)
  BY RoundAnswers, RoundLater DEF OrdersInv, Round
<1>2. \A b \in heap' : b.kind = "trade" => b \in heap \ {a}
  BY <1>1 DEF HeapIsLater, Later, Derived
<1>3. CASE o \in DOMAIN product[t].live
  <2>1. o \in Held(product'[t])
    BY DEF Held
  <2>2. \A b \in heap : b.kind = "trade" /\ Market(b) = t => Sees(b, o)
    BY <1>3 DEF Answered
  <2>3. SameDates(ledger'[o], ledger[o])
    BY <1>3, LiveStays
  <2>4. \A b \in heap' : b.kind = "trade" /\ Market(b) = t => Sees(b, o)'
    BY <1>2, <2>2, <2>3, SeesKept
  <2> QED BY <1>3, <2>1, <2>4, LiveStays
<1>4. CASE o \notin DOMAIN product[t].live
  <2>1. t = Market(a) /\ o = a.order /\ Acknowledges(a)
    BY <1>1, <1>4 DEF Answers
  <2>2. /\ a.kind = "ack" /\ o \in DOMAIN product[t].pending
        /\ ledger'[o].causal = ledger[o].causal /\ ledger'[o].acks = ledger[o].acks + 1
        /\ ledger'[o].expires = a.time + Policy(a).lifetime
        /\ \E c \in heap' :
             c.kind = "cancel" /\ c.order = o /\ c.time = a.time + Policy(a).lifetime /\ c.causal = a.causal
    BY <2>1 DEF Acknowledges, Mine
  <2>3. ledger[o].acks = 0 /\ ledger[o].causal = a.causal
    BY <2>1, <2>2 DEF Answered, Sourced
  <2>4. ASSUME NEW b \in heap', b.kind = "trade", Market(b) = t
        PROVE  Sees(b, o)'
    <3>1. b \in heap /\ Precedes(Key(a), Key(b))
      BY <1>1, <1>2, <2>4 DEF Earliest
    <3>2. a.causal < b.causal /\ a.time <= Visible(b.causal)
      BY <2>1, <2>2, <2>4, <3>1, TradeIsLater
    <3>3. Visible(b.causal)' = Visible(b.causal) /\ Policy(b)' = Policy(b) /\ Policy(b) = Policy(a)
      BY <2>1, <2>4, RoundKeeps DEF Policy
    <3>4. a.time \in Nat /\ Policy(a).lifetime \in Nat
      BY <1>1, TakenIs, PolicyIs
    <3>5. ledger'[o].expires - Policy(a).lifetime = a.time
      BY <2>2, <3>4
    <3> QED BY <2>2, <2>3, <3>2, <3>3, <3>5 DEF Sees
  <2> QED BY <2>2, <2>3, <2>4
<1> QED BY <1>3, <1>4

LEMMA AnsweredRound ==
  ASSUME OrdersInv, Preflight(input), Timely, Sourced, Answered, NEW a \in heap, Round(a)
  PROVE  Answered'
<1>1. Answers(a) /\ \A b : Market(b)' = Market(b)
  BY RoundAnswers, RoundKeeps DEF OrdersInv
<1>2. \A t \in Tickers : \A o \in DOMAIN product'[t].pending : ledger'[o].acks = 0
  BY <1>1, PendingAnswered
<1>3. \A t \in Tickers : \A o \in DOMAIN product'[t].live :
        /\ ledger'[o].acks = 1
        /\ \E c \in heap' :
             c.kind = "cancel" /\ c.order = o /\ c.time = ledger'[o].expires /\ c.causal = ledger'[o].causal
        /\ \A b \in heap' : b.kind = "trade" /\ Market(b)' = t => Sees(b, o)'
  BY <1>1, LiveAnswered
<1> QED BY <1>2, <1>3 DEF Answered

LEMMA FillsSeeRound ==
  ASSUME OrdersInv, Sourced, Answered, FillsSee, NEW a \in heap, Round(a)
  PROVE  FillsSee'
<1>1. AgreeInv /\ Answers(a) /\ HeapIsLater(a) /\ Market(a) \in Tickers
  BY RoundAnswers, RoundLater, TakenIs DEF OrdersInv
<1>2. ASSUME NEW b \in heap', b.kind = "fill"
      PROVE  b.order \in OrderIds /\ ledger'[b.order].acks = 1 /\ Sees(b, b.order)'
  <2>1. CASE b \in heap
    <3>1. b.order \in OrderIds /\ ledger[b.order].acks = 1 /\ Sees(b, b.order) /\ b.order < nextId
      BY <1>1, <1>2, <2>1, TakenIs DEF FillsSee
    <3>2. ~(b.order = a.order /\ Acknowledges(a))
      BY <1>1, <3>1 DEF Acknowledges, Answered, Mine
    <3>3. SameDates(ledger'[b.order], ledger[b.order])
      BY <1>1, <3>1, <3>2, DatesKept
    <3> QED BY <3>1, <3>3, SeesKept DEF SameDates
  <2>2. CASE Later(a, b)
    <3>1. a.kind = "trade" /\ b.order \in DOMAIN product[Market(a)].live /\ b.causal = a.causal
      BY <1>2, <2>2 DEF Later, Mine
    <3>2. b.order \in OrderIds /\ SameDates(ledger'[b.order], ledger[b.order]) /\ ledger'[b.order].acks = 1
      BY <1>1, <3>1, LiveStays
    <3>3. Sees(a, b.order)
      BY <1>1, <3>1 DEF Answered
    <3>4. Sees(b, b.order)
      BY <3>1, <3>3 DEF Sees, Policy, Market, Row
    <3> QED BY <3>2, <3>4, SeesKept
  <2> QED BY <1>1, <2>1, <2>2 DEF HeapIsLater
<1> QED BY <1>2 DEF FillsSee

LEMMA CausalInit ==
  ASSUME Init
  PROVE  CausalInv
<1>1. product = [t \in Tickers |-> Runtime] /\ Held(Runtime) = {} /\ heap = {} /\ last = <<-1, 0, 0, 0>>
      /\ DOMAIN Runtime.pending = {} /\ DOMAIN Runtime.live = {}
  BY DEF Init, Held, Runtime, NoOrders
<1> QED BY <1>1 DEF CausalInv, InOrder, Timely, Sourced, Answered, FillsSee

LEMMA CausalAccepted ==
  ASSUME OrdersInv, CausalInv, Accepted
  PROVE  CausalInv'
<1>1. /\ input' = input /\ plan' = plan /\ product' = product /\ last' = last
      /\ heap' = Scheduled /\ phase = "preflight" /\ phase' = "running" /\ Types
  BY DEF Accepted, OrdersInv, AgreeInv
<1>2. \A b \in heap' : /\ b.kind \in {"segment", "feature", "trade"} /\ b.time \in Nat
                       /\ b.kind # "segment" => b.time = Visible(b.causal)
  BY <1>1, ScheduledIs DEF Types
<1>3. product = [t \in Tickers |-> Runtime] /\ last = <<-1, 0, 0, 0>>
  BY <1>1 DEF OrdersInv, Unstarted, CausalInv, InOrder
<1>4. Held(Runtime) = {} /\ DOMAIN Runtime.pending = {} /\ DOMAIN Runtime.live = {}
  BY DEF Held, Runtime, NoOrders
<1>5. InOrder'
  <2>1. \A b \in heap' : -1 < b.time
    BY <1>2
  <2> QED BY <1>1, <1>3, <2>1 DEF InOrder, Precedes, Key
<1>6. Timely'
  <2>1. \A i : Visible(i)' = Visible(i)
    BY <1>1 DEF Visible
  <2> QED BY <1>2, <2>1 DEF Timely
<1>7. Sourced' /\ Answered' /\ FillsSee'
  BY <1>1, <1>2, <1>3, <1>4 DEF Sourced, Answered, FillsSee
<1> QED BY <1>5, <1>6, <1>7 DEF CausalInv

LEMMA CausalRound ==
  ASSUME OrdersInv, OutcomeInv, CausalInv, NEW a \in heap, Round(a)
  PROVE  CausalInv'
<1>1. Preflight(input)
  BY DEF OutcomeInv, Begun, Round
<1> QED BY <1>1, InOrderRound, TimelyRound, SourcedRound, AnsweredRound, FillsSeeRound DEF CausalInv

LEMMA CausalTerminal ==
  ASSUME OrdersInv, CausalInv, Terminal
  PROVE  CausalInv'
<1>1. /\ input' = input /\ plan' = plan /\ heap' = heap /\ last' = last /\ phase' # "preflight"
      /\ product' = [t \in Tickers |-> Emptied(product[t])]
      /\ ledger' = Ended(ledger, UNION {Held(product[t]) : t \in Tickers})
  BY DEF Terminal
<1>2. \A o \in OrderIds : SameDates(ledger'[o], ledger[o])
  BY <1>1, EndedDates DEF OrdersInv, AgreeInv
<1>3. \A t \in Tickers : Held(product'[t]) = {}
  BY <1>1, AgreesEmptied DEF OrdersInv, AgreeInv
<1>4. \A t \in Tickers : DOMAIN product'[t].pending = {} /\ DOMAIN product'[t].live = {}
  BY <1>3 DEF Held
<1>5. (\A i : Visible(i)' = Visible(i)) /\ \A b : Policy(b)' = Policy(b)
  BY <1>1 DEF Visible, Policy, Market, Row
<1>6. InOrder' /\ Timely'
  BY <1>1, <1>5 DEF CausalInv, InOrder, Timely
<1>7. Sourced' /\ Answered'
  BY <1>1, <1>2, <1>3, <1>4 DEF CausalInv, Sourced, Answered, SameDates
<1>8. FillsSee'
  BY <1>1, <1>2, <1>5 DEF CausalInv, FillsSee, Sees, SameDates
<1> QED BY <1>6, <1>7, <1>8 DEF CausalInv

LEMMA CausalOthers ==
  ASSUME CausalInv, Refused \/ MissingRow \/ Publish \/ Raise \/ UNCHANGED vars
  PROVE  CausalInv'
<1>1. /\ UNCHANGED <<input, plan, heap, pushed, nextId, product, last, ledger>>
      /\ phase' = "preflight" => phase = "preflight"
  BY DEF Refused, MissingRow, Publish, Write, PublishOutput, PublishTelemetry, CloseOracles, Raise,
       vars, runVars
<1>2. /\ \A i : Visible(i)' = Visible(i)
      /\ \A b : Market(b)' = Market(b) /\ Policy(b)' = Policy(b)
  BY <1>1 DEF Visible, Policy, Market, Row
<1>3. InOrder' /\ Timely'
  BY <1>1, <1>2 DEF CausalInv, InOrder, Timely
<1>4. Sourced'
  BY <1>1 DEF CausalInv, Sourced
<1>5. Answered' /\ FillsSee'
  BY <1>1, <1>2 DEF CausalInv, Answered, FillsSee, Sees
<1> QED BY <1>3, <1>4, <1>5 DEF CausalInv

LEMMA CausalAlways == Spec => []CausalInv
<1>1. Init => CausalInv
  BY CausalInit
<1>2. OrdersInv /\ OutcomeInv /\ CausalInv /\ [Next]_vars => CausalInv'
  BY CausalAccepted, CausalRound, CausalTerminal, CausalOthers DEF Next, Step, Finished
<1> QED BY <1>1, <1>2, OrdersAlways, OutcomeAlways, PTL DEF Spec

\* Only a fill fills an order, and only its own.
LEMMA FilledByFill ==
  ASSUME OrdersInv, [Next]_vars, NEW o \in OrderIds, ledger'[o].filled # ledger[o].filled
  PROVE  \E a \in heap : Round(a) /\ Fill(a) /\ o = a.order /\ o \in DOMAIN Mine(a).live
<1>1. AgreeInv /\ Types /\ Accounted /\ Opened /\ ledger' # ledger
  BY DEF OrdersInv, AgreeInv
<1>2. ~Terminal
  BY <1>1, EndedIs DEF Terminal
<1>3. PICK a \in heap : Round(a)
  BY <1>1, <1>2 DEF Next, Step, Finished, Refused, Accepted, MissingRow, Publish, Raise, vars
<1>4. ASSUME \E ids : Settles(ids)
      PROVE  FALSE
  BY <1>4 DEF Settles, SameEntry
<1>5. DOMAIN ledger[o] = {"quantity", "admitted", "acks", "filled", "endings", "expires", "causal"}
      /\ ledger \in [OrderIds -> EntryRecord]
  BY <1>1, EntryIs DEF Types
<1>6. ~Command(a) /\ ~Risk(a)
  BY <1>5 DEF Command, Risk
<1>7. Fill(a)
  BY <1>1, <1>3, <1>4, <1>6, SegmentSettles, FeatureSettles, CancelSettles, AckSettles,
       OthersSettle DEF Round, Raises
<1>8. o = a.order /\ o \in DOMAIN Mine(a).live
  BY <1>5, <1>7 DEF Fill, Fillable
<1> QED BY <1>3, <1>7, <1>8

LEMMA FillIsCausal ==
  ASSUME OrdersInv, CausalInv, NEW a \in heap, Round(a), Fill(a), a.order \in DOMAIN Mine(a).live
  PROVE  LET o == a.order
             trade == last'[2]
         IN /\ trade > ledger[o].causal /\ ledger[o].acks = 1 /\ ledger[o].endings = 0
            /\ Visible(trade) >= ledger[o].expires - plan[input[trade].ticker].lifetime
            /\ last'[1] < ledger[o].expires
<1> DEFINE o == a.order
<1>1. AgreeInv /\ Types /\ Accounted /\ Earliest(a) /\ a.kind = "fill" /\ last' = Key(a) /\ Market(a) \in Tickers
  BY TakenIs DEF OrdersInv, AgreeInv, Round, Fill, Fillable, Pop
<1>2. o \in Held(Mine(a)) /\ o \in OrderIds /\ o \in DOMAIN product[Market(a)].live
  BY <1>1, TakenIs DEF Held, Mine
<1>3. ledger[o].acks = 1 /\ Sees(a, o)
  BY <1>1 DEF CausalInv, FillsSee
<1>4. ledger[o].endings = 0
  BY <1>1, <1>2 DEF Accounted, Mine
<1>5. PICK c \in heap : c.kind = "cancel" /\ c.time = ledger[o].expires /\ c.causal = ledger[o].causal
  BY <1>1, <1>2 DEF CausalInv, Answered
<1>6. Precedes(Key(a), Key(c))
  BY <1>1, <1>5 DEF Earliest
<1>7. ledger[o].causal < a.causal /\ ledger[o].causal \in Nat /\ a.causal \in Nat
  <2>1. DOMAIN input \subseteq Nat
    BY <1>1, InputsAssumption DEF Types
  <2> QED BY <1>1, <1>2, <1>3, <2>1, EntryIs, TakenIs DEF Sees
<1>8. a.time < c.time
  <2>1. a.time < c.time \/ a.causal < c.causal \/ a.causal = c.causal
    BY <1>6 DEF Precedes, Key
  <2> QED BY <1>5, <1>7, <2>1
<1>9. last'[1] = a.time /\ last'[2] = a.causal
  BY <1>1 DEF Key
<1>10. Visible(a.causal) >= ledger[o].expires - Policy(a).lifetime
  <2>1. Visible(a.causal) \in Nat /\ Policy(a).lifetime \in Nat /\ ledger[o].expires \in Nat
    BY <1>1, <1>2, VisibleIs, TakenIs, PolicyIs, EntryIs
  <2> QED BY <1>3, <2>1 DEF Sees
<1>11. Policy(a) = plan[input[a.causal].ticker]
  BY DEF Policy, Market, Row
<1> QED BY <1>3, <1>4, <1>5, <1>7, <1>8, <1>9, <1>10, <1>11

\* Nothing is scheduled before the action that schedules it; and a fill, however
\* the latencies order it with the other actions of the order, names a trade
\* that came after the order's own row and was seen once the order was
\* acknowledged, and is applied to a live order before its expiry.
THEOREM ActionsAreAlwaysCausal == Spec => ActionsAreCausal
<1>1. CausalInv /\ [Next]_vars => (last' # last => Precedes(last, last'))
  <2> SUFFICES ASSUME CausalInv, [Next]_vars, last' # last
               PROVE  Precedes(last, last')
    OBVIOUS
  <2>1. PICK a \in heap : Round(a)
    BY DEF Next, Step, Finished, Refused, Accepted, MissingRow, Terminal, Publish, Raise, vars
  <2>2. last' = Key(a)
    BY <2>1 DEF Round, Pop, Segment, Raises, CrossesSegment, FractionalFill, InexactCommand, Fails,
         StaleAction, Feature, Trade, Fill, Fillable, Decision, Command, Risk, Ack, Cancel
  <2> QED BY <2>1, <2>2 DEF CausalInv, InOrder
<1>2. OrdersInv /\ CausalInv /\ [Next]_vars =>
        \A o \in OrderIds :
          (ledger'[o].filled > ledger[o].filled) =>
            LET trade == last'[2]
                lifetime == plan[input[trade].ticker].lifetime
            IN /\ trade > ledger[o].causal
               /\ ledger[o].acks = 1 /\ ledger[o].endings = 0
               /\ Visible(trade) >= ledger[o].expires - lifetime
               /\ last'[1] < ledger[o].expires
  <2> SUFFICES ASSUME OrdersInv, CausalInv, [Next]_vars, NEW o \in OrderIds, ledger'[o].filled > ledger[o].filled
               PROVE  LET trade == last'[2]
                          lifetime == plan[input[trade].ticker].lifetime
                      IN /\ trade > ledger[o].causal
                         /\ ledger[o].acks = 1 /\ ledger[o].endings = 0
                         /\ Visible(trade) >= ledger[o].expires - lifetime
                         /\ last'[1] < ledger[o].expires
    OBVIOUS
  <2>1. ledger[o].filled \in Nat
    BY EntryIs DEF OrdersInv, AgreeInv
  <2>2. ledger'[o].filled # ledger[o].filled
    BY <2>1
  <2>3. PICK a \in heap : Round(a) /\ Fill(a) /\ o = a.order /\ o \in DOMAIN Mine(a).live
    BY <2>2, FilledByFill
  <2> QED BY <2>3, FillIsCausal
<1>3. Spec => PopsInOrder
  BY <1>1, CausalAlways, PTL DEF Spec, PopsInOrder
<1>4. Spec => FillsAreCausal
  BY <1>2, CausalAlways, OrdersAlways, PTL DEF Spec, FillsAreCausal
<1> QED BY <1>3, <1>4 DEF ActionsAreCausal
=============================================================================
