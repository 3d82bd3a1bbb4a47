------------------------- MODULE MarketMaker_proofs -------------------------
(***************************************************************************)
(* The coordinator over the exchange and the account risk projection, for  *)
(* any traders, commands, limits and quoting parameters: the account that  *)
(* admits the maker's orders and the exchange that executes them agree     *)
(* whenever every event has been consumed, and what the maker has really   *)
(* traded stays within the position limit meanwhile.                       *)
(***************************************************************************)
EXTENDS MarketMaker, Exchange_proofs

\* What is proved of the projection by itself, for the coordinator's account.
Proved == INSTANCE AccountRisk_proofs WITH
  Intents <- 1..(2 * (Horizon + 1)), Ingress <- Nat \ {0}, NoIngress <- 0,
  PostOnlyChoices <- {TRUE}, Documents <- {}, MaxWatermark <- EventCapacity, Quantities <- Nat,
  net <- position, live <- riskLive, pending <- riskPending

-----------------------------------------------------------------------------
(* 1. The account and the events. *)

LEMMA AccountLimits == Proved!LimitsAssumption
BY MakerAssumption, ExchangeAssumption

LEMMA AccountIdentifiers == Proved!IdentifiersAssumption
<1>1. IsFiniteSet(1..(2 * (Horizon + 1)))
  <2>1. Horizon \in Nat
    BY MakerAssumption
  <2>2. 1 \in Int /\ 2 * (Horizon + 1) \in Int
    BY <2>1
  <2> QED BY <2>2, FS_Interval, Zenon
<1> QED BY <1>1, ExchangeAssumption DEF IsFiniteSet, Proved!IsFiniteSet

LEMMA AccountDocuments == Proved!DocumentsAssumption
OBVIOUS

LEMMA LimitNumbers == MaxOrderQty \in Nat /\ MaxPosition \in Nat /\ MaxPosition > 0
BY MakerAssumption

LEMMA RiskOrderFields ==
  ASSUME NEW o \in Orders, NEW side \in Sides, NEW quantity \in Nat
  PROVE  [id |-> o, side |-> side, quantity |-> quantity] \in Proved!LiveRiskOrder
BY DEF Proved!LiveRiskOrder, Sides, Proved!Sides

\* The maps of an account, changed by an event or compared with a book.
Account(orders, net, reserved) == [live |-> orders, net |-> net, pending |-> reserved]
Current == Account(riskLive, position, riskPending)

\* Order o is left with r.
Lowered(orders, o, r) ==
  IF r = 0 THEN Risk!Without(orders, o) ELSE [orders EXCEPT ![o].quantity = r]

RiskOrder(o, side, quantity) == [id |-> o, side |-> side, quantity |-> quantity]

TellsAcknowledged(a, e, b) ==
  IF e.order.trader # Maker THEN b = a
  ELSE /\ e.order.id \notin DOMAIN a.live
       /\ \E i \in DOMAIN a.pending :
            /\ a.pending[i].ingress = e.ingress
            /\ a.pending[i].side = e.order.side
            /\ a.pending[i].quantity = e.order.quantity
            /\ b = Account(Risk!With(a.live, e.order.id, RiskOrder(e.order.id, e.order.side, e.order.quantity)),
                           a.net, Risk!Without(a.pending, i))

TellsExecuted(a, e, b) ==
  IF e.order = 0 THEN b = a
  ELSE /\ e.order \in DOMAIN a.live
       /\ a.live[e.order].side = e.side /\ e.quantity <= a.live[e.order].quantity
       /\ b = Account(Lowered(a.live, e.order, a.live[e.order].quantity - e.quantity),
                      a.net + Signed(e.side, e.quantity), a.pending)

TellsOutcome(a, e, b) ==
  IF e.order \notin DOMAIN a.live THEN b = a
  ELSE /\ e.remaining <= a.live[e.order].quantity
       /\ b = Account(Lowered(a.live, e.order, e.remaining), a.net, a.pending)

WithoutIngress(reserved, g) == [i \in {j \in DOMAIN reserved : reserved[j].ingress # g} |-> reserved[i]]

\* Event e, which the account can only have expected, takes account a to b.  A
\* market order's acknowledgement concerns no account, though Apply refuses it.
Tells(a, e, b) ==
  \/ e.kind = "acknowledged" /\ TellsAcknowledged(a, e, b)
  \/ e.kind = "executed" /\ TellsExecuted(a, e, b)
  \/ e.kind = "outcome" /\ TellsOutcome(a, e, b)
  \/ e.kind = "rejected" /\ b = Account(a.live, a.net, WithoutIngress(a.pending, e.ingress))
  \/ e.kind = "cancelled" /\ b = Account(Risk!Without(a.live, e.order), a.net, a.pending)
  \/ e.kind = "other" /\ b = a

\* The events es, in turn, take account a to b.
Leads(a, es, b) ==
  \E t : /\ t[0] = a /\ t[Len(es)] = b
         /\ \A k \in 1..Len(es) : Tells(t[k - 1], es[k], t[k])

LEMMA LeadsNowhere ==
  ASSUME NEW a
  PROVE  Leads(a, <<>>, a) /\ \A b : Leads(a, <<>>, b) => b = a
<1> DEFINE t == [k \in {0} |-> a]
<1>1. t[0] = a /\ Len(<<>>) = 0 /\ 1..0 = {}
  OBVIOUS
<1> HIDE DEF t
<1>2. Leads(a, <<>>, a)
  BY <1>1 DEF Leads
<1>3. ASSUME NEW b, Leads(a, <<>>, b) PROVE b = a
  BY <1>1, <1>3, Zenon DEF Leads
<1> QED BY <1>2, <1>3

LEMMA LeadsOne ==
  ASSUME NEW a, NEW e, NEW b, Tells(a, e, b)
  PROVE  Leads(a, <<e>>, b)
<1> DEFINE t == [k \in 0..1 |-> IF k = 0 THEN a ELSE b]
<1>1. t[0] = a /\ t[1] = b /\ Len(<<e>>) = 1 /\ <<e>>[1] = e
  OBVIOUS
<1>2. \A k \in 1..1 : k = 1 /\ k - 1 = 0
  OBVIOUS
<1>3. \A k \in 1..1 : Tells(t[k - 1], <<e>>[k], t[k])
  BY <1>1, <1>2
<1> HIDE DEF t
<1> QED BY <1>1, <1>3 DEF Leads

LEMMA LeadsOn ==
  ASSUME NEW E, NEW es \in Seq(E), NEW fs \in Seq(E), NEW a, NEW b, NEW c,
         Leads(a, es, b), Leads(b, fs, c)
  PROVE  Leads(a, es \o fs, c)
<1> DEFINE m == Len(es)
           n == Len(fs)
<1>1. m \in Nat /\ n \in Nat /\ Len(es \o fs) = m + n
  OBVIOUS
<1>2. PICK t : t[0] = a /\ t[m] = b /\ \A k \in 1..m : Tells(t[k - 1], es[k], t[k])
  BY Zenon DEF Leads
<1>3. PICK u : u[0] = b /\ u[n] = c /\ \A k \in 1..n : Tells(u[k - 1], fs[k], u[k])
  BY Zenon DEF Leads
<1> DEFINE v == [k \in 0..(m + n) |-> IF k <= m THEN t[k] ELSE u[k - m]]
<1>4. \A k \in 1..m : (es \o fs)[k] = es[k]
  OBVIOUS
<1>5. \A k \in 1..n : (es \o fs)[m + k] = fs[k]
  OBVIOUS
<1> HIDE DEF m, n
<1>6. \A k \in 0..m : v[k] = t[k]
  BY <1>1
<1>7. \A k \in 0..n : v[m + k] = u[k]
  <2> SUFFICES ASSUME NEW k \in 0..n PROVE v[m + k] = u[k]
    OBVIOUS
  <2>1. CASE k = 0
    BY <1>1, <1>2, <1>3, <2>1
  <2>2. CASE k # 0
    BY <1>1, <2>2
  <2> QED BY <2>1, <2>2
<1> HIDE DEF v
<1>8. v[0] = a /\ v[Len(es \o fs)] = c
  <2>1. 0 \in 0..m /\ n \in 0..n
    BY <1>1
  <2>2. v[0] = t[0] /\ v[m + n] = u[n]
    BY <2>1, <1>6, <1>7, Zenon
  <2> QED BY <1>1, <1>2, <1>3, <2>2
<1>9. ASSUME NEW k \in 1..Len(es \o fs)
      PROVE  Tells(v[k - 1], (es \o fs)[k], v[k])
  <2>1. CASE k <= m
    <3>1. k \in 1..m /\ k \in 0..m /\ k - 1 \in 0..m
      BY <1>1, <2>1
    <3>2. v[k] = t[k] /\ v[k - 1] = t[k - 1] /\ (es \o fs)[k] = es[k]
      BY <1>4, <1>6, <3>1, Zenon
    <3> QED BY <1>2, <3>1, <3>2
  <2>2. CASE ~(k <= m)
    <3> DEFINE j == k - m
    <3>1. j \in 1..n /\ j \in 0..n /\ j - 1 \in 0..n /\ k = m + j /\ k - 1 = m + (j - 1)
      BY <1>1, <2>2
    <3> HIDE DEF j
    <3>2. v[m + j] = u[j] /\ v[m + (j - 1)] = u[j - 1] /\ (es \o fs)[m + j] = fs[j]
      BY <1>5, <1>7, <3>1, Zenon
    <3>3. Tells(u[j - 1], fs[j], u[j])
      BY <1>3, <3>1
    <3> QED BY <3>1, <3>2, <3>3
  <2> QED BY <2>1, <2>2
<1> QED BY <1>8, <1>9 DEF Leads

LEMMA LeadsFirst ==
  ASSUME NEW E, NEW es \in Seq(E), es # <<>>, NEW a, NEW c, Leads(a, es, c)
  PROVE  \E b : Tells(a, Head(es), b) /\ Leads(b, Tail(es), c)
<1> DEFINE n == Len(es)
<1>1. n \in Nat \ {0} /\ Len(Tail(es)) = n - 1 /\ Head(es) = es[1]
  OBVIOUS
<1>2. \A k \in 1..(n - 1) : Tail(es)[k] = es[k + 1]
  OBVIOUS
<1>3. PICK t : t[0] = a /\ t[n] = c /\ \A k \in 1..n : Tells(t[k - 1], es[k], t[k])
  BY Zenon DEF Leads
<1> DEFINE u == [k \in 0..(n - 1) |-> t[k + 1]]
<1> HIDE DEF n
<1>4. \A k \in 0..(n - 1) : u[k] = t[k + 1]
  OBVIOUS
<1> HIDE DEF u
<1>5. u[0] = t[1] /\ u[n - 1] = c
  <2>1. 0 \in 0..(n - 1) /\ n - 1 \in 0..(n - 1) /\ 0 + 1 = 1 /\ (n - 1) + 1 = n
    BY <1>1
  <2>2. u[0] = t[0 + 1] /\ u[n - 1] = t[(n - 1) + 1]
    BY <1>4, <2>1, Zenon
  <2> QED BY <1>3, <2>1, <2>2
<1>6. ASSUME NEW k \in 1..(n - 1) PROVE Tells(u[k - 1], Tail(es)[k], u[k])
  <2>1. k - 1 \in 0..(n - 1) /\ k \in 0..(n - 1) /\ k + 1 \in 1..n /\ (k - 1) + 1 = k /\ (k + 1) - 1 = k
    BY <1>1
  <2>2. u[k - 1] = t[(k - 1) + 1] /\ u[k] = t[k + 1] /\ Tail(es)[k] = es[k + 1]
    BY <1>2, <1>4, <2>1, Zenon
  <2>3. Tells(t[(k + 1) - 1], es[k + 1], t[k + 1])
    BY <1>3, <2>1, Zenon
  <2> QED BY <2>1, <2>2, <2>3
<1>7. Leads(u[0], Tail(es), c)
  BY <1>1, <1>5, <1>6 DEF Leads
<1>8. Tells(t[0], es[1], t[1])
  <2>1. 1 \in 1..n /\ 1 - 1 = 0
    BY <1>1
  <2>2. Tells(t[1 - 1], es[1], t[1])
    BY <1>3, <2>1, Zenon
  <2> QED BY <2>1, <2>2
<1> QED BY <1>1, <1>3, <1>5, <1>7, <1>8

\* Bookkeeping of both instances is the same.
LEMMA SameMaps ==
  /\ \A f, x : Risk!Without(f, x) = Proved!Without(f, x)
  /\ \A f, x, v : Risk!With(f, x, v) = Proved!With(f, x, v)
  /\ \A f, s : Risk!Exposure(f, s) = Proved!Exposure(f, s)
  /\ \A s, t, q : Risk!IfSide(s, t, q) = Proved!IfSide(s, t, q)
  /\ \A S : IsFiniteSet(S) <=> Proved!IsFiniteSet(S)
<1>1. \A f, x : Risk!Without(f, x) = Proved!Without(f, x)
  BY DEF Risk!Without, Proved!Without
<1>2. \A f, x, v : Risk!With(f, x, v) = Proved!With(f, x, v)
  BY DEF Risk!With, Proved!With
<1>3. \A f, s : Risk!Exposure(f, s) = Proved!Exposure(f, s)
  BY DEF Risk!Exposure, Proved!Exposure, Risk!Lots, Proved!Lots, Risk!Cardinality, Proved!Cardinality,
         Risk!IsFiniteSet, Proved!IsFiniteSet
<1>4. \A s, t, q : Risk!IfSide(s, t, q) = Proved!IfSide(s, t, q)
  BY DEF Risk!IfSide, Proved!IfSide
<1>5. \A S : IsFiniteSet(S) <=> Proved!IsFiniteSet(S)
  BY DEF IsFiniteSet, Proved!IsFiniteSet
<1> QED BY <1>1, <1>2, <1>3, <1>4, <1>5

LiveMap(f) == Proved!OrderMap(f, Orders, Proved!LiveRiskOrder)
PendingMap(f) == Proved!OrderMap(f, 1..(2 * (Horizon + 1)), Proved!PendingRiskOrder)

LEMMA MapsAreOrderly ==
  ASSUME NEW f, LiveMap(f) \/ PendingMap(f)
  PROVE  /\ Proved!Orderly(f)
         /\ \A s : Proved!Exposure(f, s) \in Nat
         /\ \A x \in DOMAIN f : f[x].quantity \in Nat \ {0}
<1>1. Proved!IsFiniteSet(Orders) /\ Proved!IsFiniteSet(1..(2 * (Horizon + 1)))
  BY AccountIdentifiers
<1>2. IsFiniteSet(DOMAIN f)
  <2>1. CASE DOMAIN f \subseteq Orders
    BY <1>1, <2>1, SameMaps, FS_Subset
  <2>2. CASE DOMAIN f \subseteq 1..(2 * (Horizon + 1))
    BY <1>1, <2>2, SameMaps, FS_Subset
  <2> QED BY <2>1, <2>2 DEF LiveMap, PendingMap, Proved!OrderMap
<1>3. Proved!IsMap(f) /\ \A x \in DOMAIN f : f[x].quantity \in 1..MaxOrderQty
  BY DEF LiveMap, PendingMap, Proved!OrderMap
<1>4. Proved!Orderly(f)
  BY <1>2, <1>3, SameMaps DEF Proved!Orderly
<1>5. \A s : Proved!Exposure(f, s) \in Nat
  <2>1. Proved!IsFiniteSet(DOMAIN f)
    BY <1>2, SameMaps
  <2> QED BY <2>1, Proved!ExposureType, AccountLimits, AccountIdentifiers, AccountDocuments
<1>6. \A x \in DOMAIN f : f[x].quantity \in Nat \ {0}
  BY <1>3, LimitNumbers
<1> QED BY <1>4, <1>5, <1>6

\* Lowering what is left of an order lowers its side by as much.
LEMMA LoweredMap ==
  ASSUME NEW f, LiveMap(f), NEW o \in DOMAIN f, NEW r \in Nat, r <= f[o].quantity
  PROVE  /\ LiveMap(Lowered(f, o, r))
         /\ \A s : Proved!Exposure(Lowered(f, o, r), s)
                     = Proved!Exposure(f, s) - Proved!IfSide(s, f[o].side, f[o].quantity - r)
<1>1. /\ Proved!Orderly(f) /\ \A s : Proved!Exposure(f, s) \in Nat
      /\ f[o].quantity \in Nat /\ f[o].quantity \in 1..MaxOrderQty /\ f[o] \in Proved!LiveRiskOrder /\ f[o].id = o
  BY MapsAreOrderly DEF LiveMap, Proved!OrderMap
<1>2. CASE r = 0
  <2>1. Lowered(f, o, r) = Proved!Without(f, o)
    BY <1>2, SameMaps DEF Lowered
  <2>2. LiveMap(Proved!Without(f, o))
    BY Proved!MapWithout, AccountLimits, AccountIdentifiers, AccountDocuments DEF LiveMap
  <2>3. \A s : Proved!Exposure(Proved!Without(f, o), s) = Proved!Exposure(f, s) - Proved!Part(f, o, s)
    BY <1>1, Proved!ExposureWithout, AccountLimits, AccountIdentifiers, AccountDocuments
  <2>4. \A s : Proved!Part(f, o, s) = Proved!IfSide(s, f[o].side, f[o].quantity - r)
    BY <1>1, <1>2 DEF Proved!Part, Proved!IfSide
  <2> QED BY <2>1, <2>2, <2>3, <2>4
<1>3. CASE r # 0
  <2> DEFINE v == [f[o] EXCEPT !.quantity = r]
             g == [f EXCEPT ![o] = v]
  <2>1. Lowered(f, o, r) = g
    BY <1>3 DEF Lowered
  <2>2. v \in Proved!LiveRiskOrder /\ v.id = o /\ v.side = f[o].side /\ v.quantity = r
    BY <1>1, Proved!NewQuantity, AccountLimits, AccountIdentifiers, AccountDocuments
  <2>3. r \in 1..MaxOrderQty
    <3> DEFINE q == f[o].quantity
    <3>1. q \in Nat /\ q <= MaxOrderQty /\ r <= q
      BY <1>1, LimitNumbers
    <3> HIDE DEF q
    <3> QED BY <1>3, <3>1, LimitNumbers
  <2> HIDE DEF v
  <2>4. LiveMap(g)
    BY <2>2, <2>3, Proved!MapReplaced, AccountLimits, AccountIdentifiers, AccountDocuments DEF LiveMap
  <2>5. \A s : Proved!Exposure(g, s)
                 = Proved!Exposure(f, s) - Proved!Part(f, o, s) + Proved!IfSide(s, v.side, v.quantity)
    BY <1>1, <2>2, <2>3, Proved!ExposureReplaced, AccountLimits, AccountIdentifiers, AccountDocuments
  <2> HIDE DEF g
  <2>6. \A s : Proved!Exposure(g, s)
                 = Proved!Exposure(f, s) - Proved!IfSide(s, f[o].side, f[o].quantity - r)
    BY <1>1, <2>2, <2>5 DEF Proved!Part, Proved!IfSide
  <2> QED BY <2>1, <2>4, <2>6
<1> QED BY <1>2, <1>3

LEMMA WithoutMap ==
  ASSUME NEW f, LiveMap(f), NEW o
  PROVE  /\ LiveMap(Risk!Without(f, o))
         /\ \A s : Proved!Exposure(Risk!Without(f, o), s) <= Proved!Exposure(f, s)
<1>1. Risk!Without(f, o) = Proved!Without(f, o)
  BY SameMaps
<1>2. /\ Proved!Orderly(f) /\ \A s : Proved!Exposure(f, s) \in Nat
      /\ \A x \in DOMAIN f : f[x].quantity \in Nat \ {0}
  BY MapsAreOrderly
<1>3. LiveMap(Proved!Without(f, o))
  BY Proved!MapWithout, AccountLimits, AccountIdentifiers, AccountDocuments DEF LiveMap
<1>4. \A s : Proved!Exposure(Proved!Without(f, o), s) = Proved!Exposure(f, s) - Proved!Part(f, o, s)
  BY <1>2, Proved!ExposureWithout, AccountLimits, AccountIdentifiers, AccountDocuments
<1>5. \A s : Proved!Part(f, o, s) \in Nat
  BY <1>2 DEF Proved!Part
<1>6. \A s : Proved!Exposure(Proved!Without(f, o), s) <= Proved!Exposure(f, s)
  BY <1>2, <1>4, <1>5
<1> QED BY <1>1, <1>3, <1>6

\* Releasing reservations.
LEMMA ReleasedMap ==
  ASSUME NEW f, PendingMap(f), NEW g
  PROVE  /\ PendingMap(WithoutIngress(f, g))
         /\ \A s : Proved!Exposure(WithoutIngress(f, g), s) <= Proved!Exposure(f, s)
<1> DEFINE h == WithoutIngress(f, g)
<1>1. DOMAIN h \subseteq DOMAIN f /\ (\A i \in DOMAIN h : h[i] = f[i]) /\ Proved!IsMap(h)
  BY DEF WithoutIngress, Proved!IsMap
<1>2. PendingMap(h)
  BY <1>1 DEF PendingMap, Proved!OrderMap
<1> HIDE DEF h
<1>3. ASSUME NEW s PROVE Proved!Exposure(h, s) <= Proved!Exposure(f, s)
  <2>1. Proved!Lots(h, s) \subseteq Proved!Lots(f, s)
    BY <1>1 DEF Proved!Lots
  <2>2. Proved!Orderly(f)
    BY MapsAreOrderly
  <2>3. Proved!IsFiniteSet(Proved!Lots(f, s))
    BY <2>2, Proved!ExposureType, AccountLimits, AccountIdentifiers, AccountDocuments DEF Proved!Orderly
  <2>4. IsFiniteSet(Proved!Lots(f, s))
    BY <2>3, SameMaps
  <2>5. Cardinality(Proved!Lots(h, s)) <= Cardinality(Proved!Lots(f, s))
    BY <2>1, <2>4, FS_Subset, Zenon
  <2>6. \A S : Cardinality(S) = Proved!Cardinality(S)
    BY DEF Cardinality, Proved!Cardinality, IsFiniteSet, Proved!IsFiniteSet
  <2> QED BY <2>5, <2>6 DEF Proved!Exposure
<1> QED BY <1>2, <1>3 DEF h

\* An account whose maps are well-formed, and the positions it can end in.
Fair(a) ==
  /\ a = Account(a.live, a.net, a.pending)
  /\ LiveMap(a.live) /\ PendingMap(a.pending) /\ a.net \in Int
Highest(a) == a.net + Proved!Exposure(a.live, "Buy") + Proved!Exposure(a.pending, "Buy")
Lowest(a) == a.net - Proved!Exposure(a.live, "Sell") - Proved!Exposure(a.pending, "Sell")

LEMMA ExtremesAreNumbers ==
  ASSUME NEW a, Fair(a)
  PROVE  Highest(a) \in Int /\ Lowest(a) \in Int
BY MapsAreOrderly DEF Fair, Highest, Lowest

\* An account that can end in no position the account a could not.
Narrower(a, b) == Highest(b) <= Highest(a) /\ Lowest(a) <= Lowest(b)

LEMMA AccountParts ==
  ASSUME NEW l, NEW n, NEW p
  PROVE  /\ Account(l, n, p).live = l /\ Account(l, n, p).net = n /\ Account(l, n, p).pending = p
         /\ Account(l, n, p) = Account(Account(l, n, p).live, Account(l, n, p).net, Account(l, n, p).pending)
BY DEF Account

LEMMA NarrowerBySides ==
  ASSUME NEW a, Fair(a), NEW l, LiveMap(l), NEW p, PendingMap(p), NEW n \in Int,
         NEW gained \in [Sides -> Nat],
         n = a.net + gained["Buy"] - gained["Sell"],
         \A s \in Sides : Proved!Exposure(l, s) + Proved!Exposure(p, s) + gained[s]
                            <= Proved!Exposure(a.live, s) + Proved!Exposure(a.pending, s)
  PROVE  Fair(Account(l, n, p)) /\ Narrower(a, Account(l, n, p))
<1>1. Fair(Account(l, n, p))
  BY AccountParts DEF Fair
<1>2. \A s : /\ Proved!Exposure(l, s) \in Nat /\ Proved!Exposure(p, s) \in Nat
             /\ Proved!Exposure(a.live, s) \in Nat /\ Proved!Exposure(a.pending, s) \in Nat
  BY MapsAreOrderly DEF Fair
<1>3. a.net \in Int /\ "Buy" \in Sides /\ "Sell" \in Sides /\ gained["Buy"] \in Nat /\ gained["Sell"] \in Nat
  BY DEF Fair, Sides
<1>4. n + Proved!Exposure(l, "Buy") + Proved!Exposure(p, "Buy") <= Highest(a)
  BY <1>2, <1>3 DEF Highest
<1>5. Lowest(a) <= n - Proved!Exposure(l, "Sell") - Proved!Exposure(p, "Sell")
  BY <1>2, <1>3 DEF Lowest
<1>6. /\ Highest(Account(l, n, p)) = n + Proved!Exposure(l, "Buy") + Proved!Exposure(p, "Buy")
      /\ Lowest(Account(l, n, p)) = n - Proved!Exposure(l, "Sell") - Proved!Exposure(p, "Sell")
  BY AccountParts DEF Highest, Lowest
<1> QED BY <1>1, <1>4, <1>5, <1>6 DEF Narrower

\* The events an exchange emits.
Event ==
  [kind : {"acknowledged"}, order : Incoming, ingress : Nat \ {0}, at : Nat]
    \cup [kind : {"executed"}, side : Sides, quantity : Nat \ {0}, price : Prices, order : Orders \cup {0}]
    \cup [kind : {"outcome"}, order : Orders, remaining : Nat]
    \cup [kind : {"rejected"}, ingress : Nat \ {0}]
    \cup [kind : {"cancelled"}, order : Orders]
    \cup [kind : {"other"}]

LEMMA EventFields ==
  ASSUME NEW e \in Event
  PROVE  /\ e.kind \in {"acknowledged", "executed", "outcome", "rejected", "cancelled", "other"}
         /\ e.kind = "acknowledged" => e.order \in Incoming /\ e.ingress \in Nat \ {0} /\ e.at \in Nat
         /\ e.kind = "executed" => /\ e.side \in Sides /\ e.quantity \in Nat \ {0} /\ e.price \in Prices
                                   /\ e.order \in Orders \cup {0}
         /\ e.kind = "outcome" => e.order \in Orders /\ e.remaining \in Nat
         /\ e.kind = "rejected" => e.ingress \in Nat \ {0}
         /\ e.kind = "cancelled" => e.order \in Orders
BY DEF Event

\* Whatever the account is told narrows it.
LEMMA TellingNarrows ==
  ASSUME NEW a, Fair(a), NEW e \in Event, NEW b, Tells(a, e, b)
  PROVE  Fair(b) /\ Narrower(a, b)
<1> DEFINE none == [s \in Sides |-> 0]
<1>0. /\ LiveMap(a.live) /\ PendingMap(a.pending) /\ a.net \in Int
      /\ \A s : Proved!Exposure(a.live, s) \in Nat /\ Proved!Exposure(a.pending, s) \in Nat
      /\ none \in [Sides -> Nat] /\ \A s \in Sides : none[s] = 0
      /\ a.net = a.net + none["Buy"] - none["Sell"]
  BY MapsAreOrderly DEF Fair, Sides
<1> HIDE DEF none
<1>1. CASE b = a
  <2>1. Highest(a) \in Int /\ Lowest(a) \in Int
    BY <1>0 DEF Highest, Lowest
  <2> QED BY <1>1, <2>1 DEF Narrower
<1>2. ASSUME NEW l, LiveMap(l), \A s : Proved!Exposure(l, s) <= Proved!Exposure(a.live, s),
             b = Account(l, a.net, a.pending)
      PROVE  Fair(b) /\ Narrower(a, b)
  <2>1. \A s : Proved!Exposure(l, s) \in Nat
    BY <1>2, MapsAreOrderly
  <2>2. \A s \in Sides : Proved!Exposure(l, s) + Proved!Exposure(a.pending, s) + none[s]
                            <= Proved!Exposure(a.live, s) + Proved!Exposure(a.pending, s)
    BY <1>0, <1>2, <2>1
  <2> QED BY <1>0, <1>2, <2>2, NarrowerBySides
<1>3. ASSUME e.kind = "acknowledged", e.order.trader = Maker, TellsAcknowledged(a, e, b)
      PROVE  Fair(b) /\ Narrower(a, b)
  <2> DEFINE o == e.order.id
             v == RiskOrder(o, e.order.side, e.order.quantity)
  <2>1. PICK i \in DOMAIN a.pending :
             /\ a.pending[i].side = e.order.side /\ a.pending[i].quantity = e.order.quantity
             /\ b = Account(Risk!With(a.live, o, v), a.net, Risk!Without(a.pending, i))
    BY <1>3 DEF TellsAcknowledged
  <2>2. o \in Orders /\ o \notin DOMAIN a.live /\ e.order.side \in Sides
    BY <1>3, EventFields DEF TellsAcknowledged, Incoming
  <2>3. e.order.quantity \in 1..MaxOrderQty
    BY <1>0, <2>1 DEF PendingMap, Proved!OrderMap
  <2>4. v \in Proved!LiveRiskOrder /\ v.id = o /\ v.side = e.order.side /\ v.quantity = e.order.quantity
    <3>1. e.order.quantity \in Nat
      BY <2>3, LimitNumbers
    <3>2. v \in Proved!LiveRiskOrder
      BY <2>2, <3>1, RiskOrderFields DEF RiskOrder
    <3>3. v.id = o /\ v.side = e.order.side /\ v.quantity = e.order.quantity
      BY DEF RiskOrder
    <3> QED BY <3>2, <3>3
  <2> HIDE DEF v
  <2> DEFINE l == Proved!With(a.live, o, v)
             p == Proved!Without(a.pending, i)
  <2>5. b = Account(l, a.net, p)
    BY <2>1, SameMaps
  <2>6. LiveMap(l)
    BY <1>0, <2>2, <2>3, <2>4, Proved!MapWith, AccountLimits, AccountIdentifiers, AccountDocuments DEF LiveMap
  <2>7. PendingMap(p)
    BY <1>0, Proved!MapWithout, AccountLimits, AccountIdentifiers, AccountDocuments DEF PendingMap
  <2>8. Proved!Orderly(a.live) /\ Proved!Orderly(a.pending)
    BY <1>0, MapsAreOrderly
  <2>9. \A s : Proved!Exposure(l, s) = Proved!Exposure(a.live, s) + Proved!IfSide(s, v.side, v.quantity)
    BY <2>2, <2>3, <2>4, <2>8, Proved!ExposureWith, AccountLimits, AccountIdentifiers, AccountDocuments
  <2>10. \A s : Proved!Exposure(p, s) = Proved!Exposure(a.pending, s) - Proved!Part(a.pending, i, s)
    BY <2>8, Proved!ExposureWithout, AccountLimits, AccountIdentifiers, AccountDocuments
  <2>11. \A s : /\ Proved!Part(a.pending, i, s) = Proved!IfSide(s, v.side, v.quantity)
                /\ Proved!IfSide(s, v.side, v.quantity) \in Nat
    BY <2>1, <2>3, <2>4 DEF Proved!Part, Proved!IfSide
  <2> HIDE DEF l, p
  <2>12. \A s \in Sides : Proved!Exposure(l, s) + Proved!Exposure(p, s) + none[s]
                            <= Proved!Exposure(a.live, s) + Proved!Exposure(a.pending, s)
    BY <1>0, <2>9, <2>10, <2>11
  <2> QED BY <1>0, <2>5, <2>6, <2>7, <2>12, NarrowerBySides
<1>4. ASSUME e.kind = "executed", e.order # 0, TellsExecuted(a, e, b)
      PROVE  Fair(b) /\ Narrower(a, b)
  <2> DEFINE o == e.order
             q == e.quantity
             l == Lowered(a.live, o, a.live[o].quantity - q)
             gained == [s \in Sides |-> IF s = e.side THEN q ELSE 0]
  <2>1. /\ o \in DOMAIN a.live /\ a.live[o].side = e.side /\ q <= a.live[o].quantity
        /\ b = Account(l, a.net + Signed(e.side, q), a.pending)
    BY <1>4 DEF TellsExecuted
  <2>2. e.side \in Sides /\ q \in Nat \ {0}
    BY <1>4, EventFields
  <2>3. a.live[o].quantity \in Nat
    BY <1>0, <2>1, MapsAreOrderly
  <2>4. /\ a.live[o].quantity - q \in Nat /\ a.live[o].quantity - q <= a.live[o].quantity
        /\ a.live[o].quantity - (a.live[o].quantity - q) = q
    BY <2>1, <2>2, <2>3
  <2>5. /\ LiveMap(l)
        /\ \A s : Proved!Exposure(l, s) = Proved!Exposure(a.live, s) - Proved!IfSide(s, e.side, q)
    BY <1>0, <2>1, <2>4, LoweredMap
  <2>6. /\ gained \in [Sides -> Nat] /\ (\A s \in Sides : gained[s] = Proved!IfSide(s, e.side, q))
        /\ a.net + Signed(e.side, q) \in Int
        /\ a.net + Signed(e.side, q) = a.net + gained["Buy"] - gained["Sell"]
    BY <1>0, <2>2 DEF Sides, Signed, Proved!IfSide
  <2>7. \A s \in Sides : Proved!IfSide(s, e.side, q) \in Nat
    BY <2>2 DEF Proved!IfSide
  <2> HIDE DEF l, gained
  <2>8. \A s \in Sides : Proved!Exposure(l, s) + Proved!Exposure(a.pending, s) + gained[s]
                            <= Proved!Exposure(a.live, s) + Proved!Exposure(a.pending, s)
    BY <1>0, <2>5, <2>6, <2>7
  <2> QED BY <1>0, <2>1, <2>5, <2>6, <2>8, NarrowerBySides
<1>5. ASSUME e.kind = "outcome", e.order \in DOMAIN a.live, TellsOutcome(a, e, b)
      PROVE  Fair(b) /\ Narrower(a, b)
  <2> DEFINE o == e.order
             l == Lowered(a.live, o, e.remaining)
  <2>1. e.remaining \in Nat /\ e.remaining <= a.live[o].quantity /\ b = Account(l, a.net, a.pending)
    BY <1>5, EventFields DEF TellsOutcome
  <2>2. a.live[o].quantity \in Nat
    BY <1>0, <1>5, MapsAreOrderly
  <2>3. /\ LiveMap(l)
        /\ \A s : Proved!Exposure(l, s)
                    = Proved!Exposure(a.live, s) - Proved!IfSide(s, a.live[o].side, a.live[o].quantity - e.remaining)
    BY <1>0, <1>5, <2>1, LoweredMap
  <2>4. \A s : Proved!IfSide(s, a.live[o].side, a.live[o].quantity - e.remaining) \in Nat
    BY <2>1, <2>2 DEF Proved!IfSide
  <2> HIDE DEF l
  <2>5. \A s : Proved!Exposure(l, s) <= Proved!Exposure(a.live, s)
    BY <1>0, <2>3, <2>4
  <2> QED BY <1>2, <2>1, <2>3, <2>5
<1>6. ASSUME b = Account(a.live, a.net, WithoutIngress(a.pending, e.ingress))
      PROVE  Fair(b) /\ Narrower(a, b)
  <2> DEFINE p == WithoutIngress(a.pending, e.ingress)
  <2>1. PendingMap(p) /\ \A s : Proved!Exposure(p, s) <= Proved!Exposure(a.pending, s)
    BY <1>0, ReleasedMap
  <2>2. b = Account(a.live, a.net, p)
    BY <1>6
  <2> HIDE DEF p
  <2>3. \A s : Proved!Exposure(p, s) \in Nat
    BY <2>1, MapsAreOrderly
  <2>4. \A s \in Sides : Proved!Exposure(a.live, s) + Proved!Exposure(p, s) + none[s]
                            <= Proved!Exposure(a.live, s) + Proved!Exposure(a.pending, s)
    BY <1>0, <2>1, <2>3
  <2> QED BY <1>0, <2>1, <2>2, <2>4, NarrowerBySides
<1>7. ASSUME b = Account(Risk!Without(a.live, e.order), a.net, a.pending)
      PROVE  Fair(b) /\ Narrower(a, b)
  <2> DEFINE l == Risk!Without(a.live, e.order)
  <2>1. LiveMap(l) /\ \A s : Proved!Exposure(l, s) <= Proved!Exposure(a.live, s)
    BY <1>0, WithoutMap
  <2>2. b = Account(l, a.net, a.pending)
    BY <1>7
  <2> HIDE DEF l
  <2> QED BY <1>2, <2>1, <2>2
<1>8. b # a => \/ e.kind = "acknowledged" /\ e.order.trader = Maker /\ TellsAcknowledged(a, e, b)
               \/ e.kind = "executed" /\ e.order # 0 /\ TellsExecuted(a, e, b)
               \/ e.kind = "outcome" /\ e.order \in DOMAIN a.live /\ TellsOutcome(a, e, b)
               \/ b = Account(a.live, a.net, WithoutIngress(a.pending, e.ingress))
               \/ b = Account(Risk!Without(a.live, e.order), a.net, a.pending)
  BY DEF Tells, TellsAcknowledged, TellsExecuted, TellsOutcome
<1> QED BY <1>1, <1>3, <1>4, <1>5, <1>6, <1>7, <1>8

LEMMA LeadsNarrower ==
  ASSUME NEW a, Fair(a), NEW es \in Seq(Event), NEW b, Leads(a, es, b)
  PROVE  Fair(b) /\ Narrower(a, b)
<1> DEFINE n == Len(es)
<1>1. n \in Nat /\ \A k \in 1..n : es[k] \in Event
  OBVIOUS
<1>2. PICK t : t[0] = a /\ t[n] = b /\ \A k \in 1..n : Tells(t[k - 1], es[k], t[k])
  BY Zenon DEF Leads
<1> HIDE DEF n
<1> DEFINE G == {k \in 0..n : Fair(t[k]) /\ Narrower(a, t[k])}
<1>3. 0 \in G
  <2>1. Highest(a) \in Int /\ Lowest(a) \in Int
    BY ExtremesAreNumbers
  <2>2. Narrower(a, a)
    BY <2>1 DEF Narrower
  <2> QED BY <1>1, <1>2, <2>2
<1>4. ASSUME NEW k \in 0..(n - 1), k \in G PROVE k + 1 \in G
  <2>1. k + 1 \in 1..n /\ k + 1 \in 0..n /\ (k + 1) - 1 = k
    BY <1>1
  <2>2. Tells(t[(k + 1) - 1], es[k + 1], t[k + 1]) /\ es[k + 1] \in Event
    BY <1>1, <1>2, <2>1, Zenon
  <2>3. Fair(t[k]) /\ Narrower(a, t[k])
    BY <1>4
  <2>4. Fair(t[k + 1]) /\ Narrower(t[k], t[k + 1])
    BY <2>1, <2>2, <2>3, TellingNarrows
  <2>5. /\ Highest(a) \in Int /\ Lowest(a) \in Int /\ Highest(t[k]) \in Int /\ Lowest(t[k]) \in Int
        /\ Highest(t[k + 1]) \in Int /\ Lowest(t[k + 1]) \in Int
    BY <2>3, <2>4, ExtremesAreNumbers
  <2>6. Narrower(a, t[k + 1])
    BY <2>3, <2>4, <2>5 DEF Narrower
  <2> QED BY <2>1, <2>4, <2>6
<1>5. \A k \in 0..n : k \in G
  <2> HIDE DEF G
  <2> QED BY <1>1, <1>3, <1>4, Climb
<1>6. n \in 0..n
  BY <1>1
<1> QED BY <1>2, <1>5, <1>6

\* What the projection does with an event is what the event tells.
LEMMA ApplyIsTold ==
  ASSUME Fair(Current), Proved!IngressUnique, NEW e \in Event, Apply(e), NEW b, Tells(Current, e, b)
  PROVE  b = Account(riskLive', position', riskPending')
<1>1. Current.live = riskLive /\ Current.net = position /\ Current.pending = riskPending
  BY AccountParts DEF Current
<1>2. /\ LiveMap(riskLive) /\ PendingMap(riskPending) /\ position \in Int
      /\ \A o \in DOMAIN riskLive : riskLive[o].quantity \in Nat
  BY <1>1, MapsAreOrderly DEF Fair
<1>3. CASE e.kind = "acknowledged"
  <2>1. ApplyAcknowledged(e) /\ TellsAcknowledged(Current, e, b)
    BY <1>3 DEF Apply, Tells
  <2>2. CASE e.order.trader # Maker
    BY <2>1, <2>2 DEF ApplyAcknowledged, TellsAcknowledged, Risk!ApplyOther, Current
  <2>3. CASE e.order.trader = Maker
    <3> DEFINE v == RiskOrder(e.order.id, e.order.side, e.order.quantity)
    <3>1. PICK i \in DOMAIN riskPending :
               /\ riskPending[i].ingress = e.ingress
               /\ riskLive' = Risk!With(riskLive, e.order.id, v) /\ riskPending' = Risk!Without(riskPending, i)
               /\ position' = position
      BY <2>1, <2>3 DEF ApplyAcknowledged, Risk!ApplyAcknowledged, Risk!Answers, RiskOrder
    <3>2. PICK j \in DOMAIN riskPending :
               /\ riskPending[j].ingress = e.ingress
               /\ b = Account(Risk!With(riskLive, e.order.id, v), position, Risk!Without(riskPending, j))
      BY <1>1, <2>1, <2>3 DEF TellsAcknowledged
    <3>3. e.ingress # 0
      BY <1>3, EventFields
    <3>4. i = j
      BY <3>1, <3>2, <3>3 DEF Proved!IngressUnique
    <3> HIDE DEF v
    <3> QED BY <3>1, <3>2, <3>4
  <2> QED BY <2>2, <2>3
<1>4. CASE e.kind = "executed"
  <2>1. ApplyExecuted(e) /\ TellsExecuted(Current, e, b)
    BY <1>4 DEF Apply, Tells
  <2>2. CASE e.order = 0
    BY <2>1, <2>2 DEF ApplyExecuted, TellsExecuted, Risk!ApplyOther, Current
  <2>3. CASE e.order # 0
    <3> DEFINE o == e.order
               q == e.quantity
    <3>1. /\ o \in DOMAIN riskLive /\ q <= riskLive[o].quantity
          /\ position' = IF e.side = "Buy" THEN position + q ELSE position - q
          /\ riskLive' = IF riskLive[o].quantity = q THEN Risk!Without(riskLive, o)
                         ELSE [riskLive EXCEPT ![o].quantity = riskLive[o].quantity - q]
          /\ riskPending' = riskPending
      BY <2>1, <2>3 DEF ApplyExecuted, Risk!ApplyFill, Risk!FillAcceptable
    <3>2. b = Account(Lowered(riskLive, o, riskLive[o].quantity - q), position + Signed(e.side, q), riskPending)
      BY <1>1, <2>1, <2>3 DEF TellsExecuted
    <3>3. q \in Nat /\ riskLive[o].quantity \in Nat
      BY <1>2, <1>4, <3>1, EventFields
    <3>4. position' = position + Signed(e.side, q)
      BY <1>2, <3>1, <3>3 DEF Signed
    <3>5. riskLive[o].quantity - q = 0 <=> riskLive[o].quantity = q
      BY <3>3
    <3>6. riskLive' = Lowered(riskLive, o, riskLive[o].quantity - q)
      BY <3>1, <3>5 DEF Lowered
    <3> QED BY <3>1, <3>2, <3>4, <3>6
  <2> QED BY <2>2, <2>3
<1>5. CASE e.kind = "outcome"
  <2>1. Risk!ApplyOutcome(Sequence, e.order, e.remaining) /\ TellsOutcome(Current, e, b)
    BY <1>5 DEF Apply, Tells
  <2>2. CASE e.order \notin DOMAIN riskLive
    BY <1>1, <2>1, <2>2 DEF TellsOutcome, Risk!ApplyOutcome, Current
  <2>3. CASE e.order \in DOMAIN riskLive
    BY <1>1, <2>1, <2>3 DEF TellsOutcome, Risk!ApplyOutcome, Lowered
  <2> QED BY <2>2, <2>3
<1>6. CASE e.kind = "rejected"
  BY <1>1, <1>6 DEF Apply, Tells, Risk!ApplyRejected, WithoutIngress
<1>7. CASE e.kind = "cancelled"
  BY <1>1, <1>7 DEF Apply, Tells, Risk!ApplyCancellation
<1>8. CASE e.kind = "other"
  BY <1>1, <1>8 DEF Apply, Tells, Risk!ApplyOther, Current
<1> QED BY <1>3, <1>4, <1>5, <1>6, <1>7, <1>8, EventFields

\* Of the events an exchange tells the projection, it takes all but a market
\* order's acknowledgement.
LEMMA ToldIsAccepted ==
  ASSUME NEW e \in Event, NEW b, Tells(Current, e, b), Sequence = watermark + 1,
         e.kind = "acknowledged" => IsLimit(e.order)
  PROVE  Accepts(e)
<1>1. Current.live = riskLive /\ Current.net = position /\ Current.pending = riskPending
  BY AccountParts DEF Current
<1>2. ASSUME e.kind = "acknowledged", e.order.trader = Maker
      PROVE  \E i \in DOMAIN riskPending : Risk!Answers(i, e.order.id, e.ingress, e.order.side, e.order.quantity)
  BY <1>1, <1>2 DEF Tells, TellsAcknowledged, Risk!Answers
<1>3. ASSUME e.kind = "executed", e.order # 0
      PROVE  Risk!FillAcceptable(e.order, e.side, e.quantity)
  BY <1>1, <1>3, EventFields DEF Tells, TellsExecuted, Risk!FillAcceptable
<1>4. ASSUME e.kind = "outcome"
      PROVE  Risk!OutcomeAcceptable(e.order, e.remaining)
  BY <1>1, <1>4 DEF Tells, TellsOutcome, Risk!OutcomeAcceptable
<1> QED BY <1>2, <1>3, <1>4 DEF Accepts

-----------------------------------------------------------------------------
(* 2. The queue. *)

Command ==
  [kind : {"submit"}, request : SubmitOrderRequest]
    \cup [kind : {"cancel"}, trader : Traders, order : Orders]
    \cup [kind : {"lifecycle"}, target : Statuses]
Entry == [at : Nat, ingress : Nat \ {0}, command : Command]

\* The maker submits post-only orders that Order::create accepts.
Fitting(command) == MakerSubmission(command) => command.request.post_only /\ command.request.valid

\* Every command has an ingress number of its own, smaller than the next one.
QueueOK ==
  /\ queue \in Seq(Entry) /\ nextIngress \in Nat \ {0}
  /\ \A k \in DOMAIN queue : queue[k].ingress < nextIngress /\ Fitting(queue[k].command)
  /\ \A j, k \in DOMAIN queue : queue[j].ingress = queue[k].ingress => j = k

Joins(s, t, both) ==
  /\ Len(both) = Len(s) + Len(t)
  /\ \A j \in 1..Len(s) : both[j] = s[j]
  /\ \A j \in 1..Len(t) : both[Len(s) + j] = t[j]

LEMMA Joined ==
  ASSUME NEW E, NEW s \in Seq(E), NEW t \in Seq(E)
  PROVE  s \o t \in Seq(E) /\ Joins(s, t, s \o t)
BY DEF Joins

\* The entries of commands that are enqueued at a time, from ingress number g.
EntryAt(command, at, g) == [at |-> at, ingress |-> g, command |-> command]

LEMMA EnqueuePlaces ==
  ASSUME QueueOK, NEW commands \in Seq(Command), NEW at \in Nat, Enqueue(commands, at)
  PROVE  \E p \in 0..Len(queue) :
           /\ p = Cardinality({k \in DOMAIN queue : queue[k].at <= at})
           /\ queue' \in Seq(Entry) /\ Len(queue') = Len(queue) + Len(commands)
           /\ \A j \in 1..p : queue'[j] = queue[j]
           /\ \A k \in 1..Len(commands) : queue'[p + k] = EntryAt(commands[k], at, nextIngress + k - 1)
           /\ \A j \in (p + 1)..Len(queue) : queue'[j + Len(commands)] = queue[j]
<1> DEFINE S == {k \in DOMAIN queue : queue[k].at <= at}
           p == Cardinality(S)
           n == Len(queue)
           m == Len(commands)
           new == Stamped(commands, at)
           x == SubSeq(queue, 1, p)
           z == SubSeq(queue, p + 1, n)
<1>1. queue \in Seq(Entry) /\ n \in Nat /\ m \in Nat /\ nextIngress \in Nat \ {0}
  BY DEF QueueOK
<1>2. p \in 0..n
  <2> HIDE DEF n
  <2>0. DOMAIN queue = 1..n
    BY <1>1 DEF n
  <2>1. S \subseteq 1..n /\ IsFiniteSet(1..n) /\ Cardinality(1..n) = n
    <3>1. S \subseteq 1..n
      BY <2>0
    <3>2. IsFiniteSet(1..n) /\ Cardinality(1..n) = n
      <4>1. n \in Nat /\ n \in Int /\ 1 \in Int
        BY <1>1
      <4>2. IsFiniteSet(1..n) /\ Cardinality(1..n) = IF 1 > n THEN 0 ELSE n - 1 + 1
        BY <4>1, FS_Interval, Zenon
      <4> QED BY <4>1, <4>2
    <3> QED BY <3>1, <3>2
  <2>2. Cardinality(S) <= Cardinality(1..n) /\ IsFiniteSet(S)
    BY <2>1, FS_Subset, Zenon
  <2>3. Cardinality(S) \in Nat
    BY <2>2, FS_CardinalityType
  <2> QED BY <1>1, <2>1, <2>2, <2>3
<1>3. queue' = x \o new \o z
  BY DEF Enqueue
<1>4. /\ new \in Seq(Entry) /\ Len(new) = m
      /\ \A k \in 1..m : new[k] = EntryAt(commands[k], at, nextIngress + k - 1)
  <2>1. \A k \in 1..m : commands[k] \in Command /\ nextIngress + k - 1 \in Nat \ {0}
    BY <1>1
  <2>2. DOMAIN commands = 1..m
    OBVIOUS
  <2>3. /\ new = [k \in 1..m |-> new[k]]
        /\ \A k \in 1..m : new[k] = EntryAt(commands[k], at, nextIngress + k - 1)
    BY <2>2 DEF Stamped, EntryAt
  <2>4. \A k \in 1..m : EntryAt(commands[k], at, nextIngress + k - 1) \in Entry
    BY <2>1 DEF EntryAt, Entry
  <2> HIDE DEF new
  <2>5. new \in [1..m -> Entry]
    BY <2>3, <2>4
  <2> QED BY <1>1, <2>3, <2>5
<1> HIDE DEF p, m, new
<1>5. /\ x \in Seq(Entry) /\ Len(x) = p /\ (\A j \in 1..p : x[j] = queue[j])
      /\ z \in Seq(Entry) /\ Len(z) = n - p /\ (\A j \in 1..(n - p) : z[j] = queue[p + j])
  BY <1>1, <1>2
<1> HIDE DEF x, z, n
<1>6. /\ x \o new \in Seq(Entry) /\ Len(x \o new) = p + m
      /\ \A j \in 1..p : (x \o new)[j] = x[j]
      /\ \A k \in 1..m : (x \o new)[p + k] = new[k]
  <2>1. x \in Seq(Entry) /\ new \in Seq(Entry) /\ Len(x) = p /\ Len(new) = m
    BY <1>4, <1>5
  <2>2. /\ x \o new \in Seq(Entry) /\ Len(x \o new) = Len(x) + Len(new)
        /\ \A j \in 1..Len(x) : (x \o new)[j] = x[j]
        /\ \A k \in 1..Len(new) : (x \o new)[Len(x) + k] = new[k]
    <3>1. x \o new \in Seq(Entry) /\ Joins(x, new, x \o new)
      BY <2>1, Joined
    <3> QED BY <3>1 DEF Joins
  <2> QED BY <2>1, <2>2, Zenon
<1> DEFINE xnew == x \o new
<1>7. xnew \in Seq(Entry) /\ Len(xnew) = p + m /\ queue' = xnew \o z
  BY <1>3, <1>6
<1> HIDE DEF xnew
<1>8. /\ queue' \in Seq(Entry) /\ Len(queue') = n + m
      /\ \A j \in 1..(p + m) : queue'[j] = xnew[j]
      /\ \A j \in 1..(n - p) : queue'[(p + m) + j] = z[j]
  <2>1. /\ xnew \o z \in Seq(Entry) /\ Len(xnew \o z) = (p + m) + (n - p)
        /\ \A j \in 1..(p + m) : (xnew \o z)[j] = xnew[j]
        /\ \A j \in 1..(n - p) : (xnew \o z)[(p + m) + j] = z[j]
    <3>1. xnew \in Seq(Entry) /\ z \in Seq(Entry) /\ Len(xnew) = p + m /\ Len(z) = n - p
      BY <1>5, <1>7
    <3>2. /\ xnew \o z \in Seq(Entry) /\ Len(xnew \o z) = Len(xnew) + Len(z)
          /\ \A j \in 1..Len(xnew) : (xnew \o z)[j] = xnew[j]
          /\ \A j \in 1..Len(z) : (xnew \o z)[Len(xnew) + j] = z[j]
      <4>1. xnew \o z \in Seq(Entry) /\ Joins(xnew, z, xnew \o z)
        BY <3>1, Joined
      <4> QED BY <4>1 DEF Joins
    <3> QED BY <3>1, <3>2, Zenon
  <2>2. (p + m) + (n - p) = n + m
    BY <1>1, <1>2
  <2> QED BY <1>7, <2>1, <2>2
<1>9. \A j \in 1..p : queue'[j] = queue[j]
  BY <1>1, <1>2, <1>5, <1>6, <1>8 DEF xnew
<1>10. ASSUME NEW k \in 1..m PROVE queue'[p + k] = EntryAt(commands[k], at, nextIngress + k - 1)
  <2>1. p + k \in 1..(p + m)
    BY <1>1, <1>2
  <2> QED BY <1>4, <1>6, <1>8, <2>1 DEF xnew
<1>11. ASSUME NEW j \in (p + 1)..n PROVE queue'[j + m] = queue[j]
  <2>1. j - p \in 1..(n - p) /\ (p + m) + (j - p) = j + m /\ p + (j - p) = j
    BY <1>1, <1>2
  <2>2. queue'[(p + m) + (j - p)] = z[j - p] /\ z[j - p] = queue[p + (j - p)]
    BY <1>5, <1>8, <2>1, Zenon
  <2> QED BY <2>1, <2>2
<1>12. p = Cardinality({k \in DOMAIN queue : queue[k].at <= at})
  BY DEF p
<1> QED BY <1>2, <1>8, <1>9, <1>10, <1>11, <1>12 DEF n, m

\* The queue keeps its entries and gains the new ones.
LEMMA EnqueueKeeps ==
  ASSUME QueueOK, NEW commands \in Seq(Command), NEW at \in Nat, Enqueue(commands, at),
         \A k \in 1..Len(commands) : Fitting(commands[k])
  PROVE  /\ QueueOK'
         /\ \A j \in DOMAIN queue : \E k \in DOMAIN queue' : queue'[k] = queue[j]
         /\ \A j \in 1..Len(commands) :
              \E k \in DOMAIN queue' : queue'[k] = EntryAt(commands[j], at, nextIngress + j - 1)
         /\ \A k \in DOMAIN queue' :
              \/ \E j \in DOMAIN queue : queue'[k] = queue[j]
              \/ \E j \in 1..Len(commands) : queue'[k] = EntryAt(commands[j], at, nextIngress + j - 1)
<1> DEFINE n == Len(queue)
           m == Len(commands)
<1>1. /\ n \in Nat /\ m \in Nat /\ DOMAIN queue = 1..n /\ nextIngress \in Nat \ {0}
      /\ \A j \in 1..n : queue[j].ingress \in Nat \ {0}
  <2>1. queue \in Seq(Entry) /\ m \in Nat
    BY DEF QueueOK
  <2>2. n \in Nat /\ DOMAIN queue = 1..n /\ \A j \in 1..n : queue[j] \in Entry
    BY <2>1
  <2>3. \A c \in Entry : c.ingress \in Nat \ {0}
    BY DEF Entry
  <2> QED BY <2>1, <2>2, <2>3 DEF QueueOK
<1>2. PICK p \in 0..n :
           /\ queue' \in Seq(Entry) /\ Len(queue') = n + m
           /\ \A j \in 1..p : queue'[j] = queue[j]
           /\ \A k \in 1..m : queue'[p + k] = EntryAt(commands[k], at, nextIngress + k - 1)
           /\ \A j \in (p + 1)..n : queue'[j + m] = queue[j]
  BY EnqueuePlaces
<1>3. nextIngress' = nextIngress + m /\ DOMAIN queue' = 1..(n + m)
  <2>1. nextIngress' = nextIngress + m
    BY DEF Enqueue
  <2>2. queue' \in Seq(Entry) /\ Len(queue') = n + m
    BY <1>2
  <2> QED BY <2>1, <2>2
<1>4. \A j \in 1..m : /\ EntryAt(commands[j], at, nextIngress + j - 1).ingress = nextIngress + j - 1
                      /\ EntryAt(commands[j], at, nextIngress + j - 1).command = commands[j]
  BY DEF EntryAt
<1> HIDE DEF n, m
\* Where each entry comes from.
<1> DEFINE old(k) == IF k <= p THEN k ELSE k - m
           isOld(k) == k <= p \/ p + m < k
<1>5. ASSUME NEW k \in 1..(n + m)
      PROVE  /\ isOld(k) => old(k) \in 1..n /\ queue'[k] = queue[old(k)]
             /\ ~isOld(k) => /\ k - p \in 1..m
                             /\ queue'[k] = EntryAt(commands[k - p], at, nextIngress + (k - p) - 1)
  <2>1. CASE k <= p
    BY <1>1, <1>2, <2>1
  <2>2. CASE p + m < k
    <3>1. k - m \in (p + 1)..n /\ (k - m) + m = k /\ ~(k <= p) /\ k - m \in 1..n
      BY <1>1, <2>2
    <3>2. queue'[(k - m) + m] = queue[k - m]
      BY <1>2, <3>1, Zenon
    <3>3. old(k) = k - m /\ isOld(k)
      BY <2>2, <3>1
    <3> HIDE DEF old, isOld
    <3> QED BY <3>1, <3>2, <3>3
  <2>3. CASE ~isOld(k)
    <3>1. k - p \in 1..m /\ p + (k - p) = k
      BY <1>1, <2>3
    <3>2. queue'[p + (k - p)] = EntryAt(commands[k - p], at, nextIngress + (k - p) - 1)
      BY <1>2, <3>1, Zenon
    <3> QED BY <2>3, <3>1, <3>2
  <2> QED BY <2>1, <2>2, <2>3
<1>6. ASSUME NEW k \in DOMAIN queue'
      PROVE  \/ \E j \in DOMAIN queue : queue'[k] = queue[j]
             \/ \E j \in 1..m : queue'[k] = EntryAt(commands[j], at, nextIngress + j - 1)
  <2>1. k \in 1..(n + m)
    BY <1>3
  <2>2. \/ \E j \in 1..n : queue'[k] = queue[j]
        \/ \E j \in 1..m : queue'[k] = EntryAt(commands[j], at, nextIngress + j - 1)
    BY <2>1, <1>5, Zenon
  <2> QED BY <1>1, <2>2
<1>7. \A j \in DOMAIN queue : \E k \in DOMAIN queue' : queue'[k] = queue[j]
  <2> SUFFICES ASSUME NEW j \in 1..n PROVE \E k \in 1..(n + m) : queue'[k] = queue[j]
    BY <1>1, <1>3
  <2>1. CASE j <= p
    <3>1. j \in 1..(n + m) /\ j \in 1..p
      BY <1>1, <2>1
    <3> QED BY <1>2, <3>1
  <2>2. CASE ~(j <= p)
    <3>1. j + m \in 1..(n + m) /\ j \in (p + 1)..n
      BY <1>1, <2>2
    <3> QED BY <1>2, <3>1
  <2> QED BY <2>1, <2>2
<1>8. \A j \in 1..m : \E k \in DOMAIN queue' : queue'[k] = EntryAt(commands[j], at, nextIngress + j - 1)
  <2> SUFFICES ASSUME NEW j \in 1..m
               PROVE \E k \in 1..(n + m) : queue'[k] = EntryAt(commands[j], at, nextIngress + j - 1)
    BY <1>3
  <2>1. p + j \in 1..(n + m)
    BY <1>1
  <2> QED BY <1>2, <2>1
<1>9. \A k \in DOMAIN queue' : queue'[k].ingress < nextIngress' /\ Fitting(queue'[k].command)
  <2> SUFFICES ASSUME NEW k \in DOMAIN queue'
               PROVE  queue'[k].ingress < nextIngress' /\ Fitting(queue'[k].command)
    OBVIOUS
  <2>1. ASSUME NEW j \in DOMAIN queue, queue'[k] = queue[j]
        PROVE  queue'[k].ingress < nextIngress' /\ Fitting(queue'[k].command)
    BY <1>1, <1>3, <2>1 DEF QueueOK
  <2>2. ASSUME NEW j \in 1..m, queue'[k] = EntryAt(commands[j], at, nextIngress + j - 1)
        PROVE  queue'[k].ingress < nextIngress' /\ Fitting(queue'[k].command)
    <3>1. queue'[k].ingress = nextIngress + j - 1 /\ queue'[k].command = commands[j]
      BY <1>4, <2>2
    <3>2. nextIngress + j - 1 < nextIngress'
      BY <1>1, <1>3
    <3>3. Fitting(commands[j])
      BY DEF m
    <3> QED BY <3>1, <3>2, <3>3
  <2> QED BY <1>6, <2>1, <2>2
<1>10. ASSUME NEW j \in DOMAIN queue', NEW k \in DOMAIN queue', queue'[j].ingress = queue'[k].ingress
       PROVE  j = k
  <2>1. j \in 1..(n + m) /\ k \in 1..(n + m)
    BY <1>3
  <2>2. /\ isOld(j) => old(j) \in 1..n /\ queue'[j] = queue[old(j)]
        /\ ~isOld(j) => j - p \in 1..m /\ queue'[j].ingress = nextIngress + (j - p) - 1
    BY <1>4, <1>5, <2>1
  <2>3. /\ isOld(k) => old(k) \in 1..n /\ queue'[k] = queue[old(k)]
        /\ ~isOld(k) => k - p \in 1..m /\ queue'[k].ingress = nextIngress + (k - p) - 1
    BY <1>4, <1>5, <2>1
  <2>4. CASE isOld(j) /\ isOld(k)
    <3>1. queue[old(j)].ingress = queue[old(k)].ingress /\ old(j) \in DOMAIN queue /\ old(k) \in DOMAIN queue
      BY <1>1, <1>10, <2>2, <2>3, <2>4
    <3>2. old(j) = old(k)
      BY <3>1 DEF QueueOK
    <3> QED BY <1>1, <2>1, <2>4, <3>2
  <2>5. CASE isOld(j) /\ ~isOld(k)
    <3>1. queue'[j].ingress < nextIngress /\ queue'[j].ingress \in Nat
      BY <1>1, <2>2, <2>5 DEF QueueOK
    <3>2. k - p \in 1..m /\ queue'[k].ingress = nextIngress + (k - p) - 1
      BY <2>3, <2>5
    <3> QED BY <1>1, <1>10, <3>1, <3>2
  <2>6. CASE ~isOld(j) /\ isOld(k)
    <3>1. queue'[k].ingress < nextIngress /\ queue'[k].ingress \in Nat
      BY <1>1, <2>3, <2>6 DEF QueueOK
    <3>2. j - p \in 1..m /\ queue'[j].ingress = nextIngress + (j - p) - 1
      BY <2>2, <2>6
    <3> QED BY <1>1, <1>10, <3>1, <3>2
  <2>7. CASE ~isOld(j) /\ ~isOld(k)
    <3>1. nextIngress + (j - p) - 1 = nextIngress + (k - p) - 1
      BY <1>10, <2>2, <2>3, <2>7
    <3> QED BY <1>1, <2>1, <3>1
  <2> QED BY <2>4, <2>5, <2>6, <2>7
<1>11. QueueOK'
  <2>1. nextIngress' \in Nat \ {0}
    BY <1>1, <1>3
  <2> QED BY <1>2, <1>9, <1>10, <2>1 DEF QueueOK
<1> QED BY <1>6, <1>7, <1>8, <1>11 DEF m

\* The reservations of an account are those of the maker's queued submissions,
\* and every such submission has its reservation.
Reserved(reserved, commands) ==
  /\ \A k \in DOMAIN commands : MakerSubmission(commands[k].command) =>
       \E i \in DOMAIN reserved :
         /\ reserved[i].ingress = commands[k].ingress
         /\ reserved[i].side = commands[k].command.request.side
         /\ reserved[i].quantity = commands[k].command.request.quantity
  /\ \A i \in DOMAIN reserved : reserved[i].ingress # 0 =>
       \E k \in DOMAIN commands :
         MakerSubmission(commands[k].command) /\ commands[k].ingress = reserved[i].ingress
  /\ \A i, j \in DOMAIN reserved :
       reserved[i].ingress = reserved[j].ingress /\ reserved[i].ingress # 0 => i = j

LEMMA TakenFromQueue ==
  ASSUME QueueOK, queue # <<>>
  PROVE  /\ Head(queue) \in Entry /\ Head(queue) = queue[1] /\ 1 \in DOMAIN queue /\ Fitting(Head(queue).command)
         /\ Tail(queue) \in Seq(Entry)
         /\ \A k \in DOMAIN Tail(queue) : k + 1 \in DOMAIN queue /\ Tail(queue)[k] = queue[k + 1]
         /\ \A k \in DOMAIN queue : k # 1 => k - 1 \in DOMAIN Tail(queue) /\ Tail(queue)[k - 1] = queue[k]
         /\ (queue' = Tail(queue) /\ nextIngress' = nextIngress) => QueueOK'
<1> DEFINE n == Len(queue)
           rest == Tail(queue)
<1>1. queue \in Seq(Entry) /\ n \in Nat \ {0} /\ DOMAIN queue = 1..n
  BY DEF QueueOK
<1>2. Head(queue) = queue[1] /\ queue[1] \in Entry /\ 1 \in DOMAIN queue
  BY <1>1
<1>3. rest \in Seq(Entry) /\ DOMAIN rest = 1..(n - 1) /\ \A k \in 1..(n - 1) : rest[k] = queue[k + 1]
  BY <1>1
<1> HIDE DEF n, rest
<1>4. \A k \in DOMAIN rest : k + 1 \in DOMAIN queue /\ rest[k] = queue[k + 1]
  BY <1>1, <1>3
<1>5. ASSUME NEW k \in DOMAIN queue, k # 1 PROVE k - 1 \in DOMAIN rest /\ rest[k - 1] = queue[k]
  <2>1. k - 1 \in 1..(n - 1) /\ (k - 1) + 1 = k
    BY <1>1, <1>5
  <2> QED BY <1>3, <2>1
<1>6. ASSUME queue' = rest, nextIngress' = nextIngress PROVE QueueOK'
  <2>1. \A k \in DOMAIN rest : rest[k].ingress < nextIngress /\ Fitting(rest[k].command)
    BY <1>4 DEF QueueOK
  <2>2. ASSUME NEW j \in DOMAIN rest, NEW k \in DOMAIN rest, rest[j].ingress = rest[k].ingress PROVE j = k
    <3>1. j + 1 \in DOMAIN queue /\ k + 1 \in DOMAIN queue /\ queue[j + 1].ingress = queue[k + 1].ingress
      BY <1>4, <2>2
    <3>2. j + 1 = k + 1 /\ j \in Nat /\ k \in Nat
      BY <1>1, <1>3, <3>1 DEF QueueOK
    <3> QED BY <3>2
  <2>3. queue' \in Seq(Entry) /\ nextIngress' \in Nat \ {0}
    BY <1>3, <1>6 DEF QueueOK
  <2> QED BY <1>6, <2>1, <2>2, <2>3 DEF QueueOK
<1>7. Fitting(Head(queue).command)
  BY <1>2 DEF QueueOK
<1> QED BY <1>2, <1>3, <1>4, <1>5, <1>6, <1>7 DEF rest

\* Executing the next command uses up the reservation that it had, if any.
LEMMA ReservationUsed ==
  ASSUME QueueOK, queue # <<>>, NEW reserved, Proved!IsMap(reserved), Reserved(reserved, queue)
  PROVE  LET s == Head(queue)
             left == WithoutIngress(reserved, s.ingress)
         IN /\ Reserved(left, Tail(queue))
            /\ ~MakerSubmission(s.command) => left = reserved
            /\ MakerSubmission(s.command) =>
                 \E i \in DOMAIN reserved :
                   /\ reserved[i].ingress = s.ingress
                   /\ reserved[i].side = s.command.request.side
                   /\ reserved[i].quantity = s.command.request.quantity
                   /\ left = Risk!Without(reserved, i)
<1> DEFINE s == Head(queue)
           rest == Tail(queue)
           left == WithoutIngress(reserved, s.ingress)
<1>1. /\ s \in Entry /\ s = queue[1] /\ 1 \in DOMAIN queue
      /\ \A k \in DOMAIN rest : k + 1 \in DOMAIN queue /\ rest[k] = queue[k + 1]
      /\ \A k \in DOMAIN queue : k # 1 => k - 1 \in DOMAIN rest /\ rest[k - 1] = queue[k]
      /\ \A k \in DOMAIN rest : k \in Nat \ {0}
  <2>1. Tail(queue) \in Seq(Entry)
    BY TakenFromQueue
  <2>2. \A k \in DOMAIN Tail(queue) : k \in Nat \ {0}
    BY <2>1
  <2> QED BY <2>2, TakenFromQueue
<1>2. s.ingress # 0
  BY <1>1 DEF Entry
<1>3. /\ DOMAIN left = {j \in DOMAIN reserved : reserved[j].ingress # s.ingress}
      /\ \A i \in DOMAIN left : left[i] = reserved[i]
  BY DEF WithoutIngress
<1> HIDE DEF s, rest, left
<1>4. \A k \in DOMAIN queue : queue[k].ingress = s.ingress => k = 1
  BY <1>1 DEF QueueOK
<1>5. ASSUME NEW k \in DOMAIN rest, MakerSubmission(rest[k].command)
      PROVE  \E i \in DOMAIN left : /\ left[i].ingress = rest[k].ingress
                                    /\ left[i].side = rest[k].command.request.side
                                    /\ left[i].quantity = rest[k].command.request.quantity
  <2>1. k + 1 \in DOMAIN queue /\ rest[k] = queue[k + 1] /\ k + 1 # 1
    BY <1>1
  <2>2. rest[k].ingress # s.ingress
    BY <1>4, <2>1
  <2>3. PICK i \in DOMAIN reserved : /\ reserved[i].ingress = rest[k].ingress
                                     /\ reserved[i].side = rest[k].command.request.side
                                     /\ reserved[i].quantity = rest[k].command.request.quantity
    BY <1>5, <2>1 DEF Reserved
  <2> QED BY <1>3, <2>2, <2>3
<1>6. ASSUME NEW i \in DOMAIN left, left[i].ingress # 0
      PROVE  \E k \in DOMAIN rest : MakerSubmission(rest[k].command) /\ rest[k].ingress = left[i].ingress
  <2>1. i \in DOMAIN reserved /\ left[i] = reserved[i] /\ reserved[i].ingress # s.ingress
    BY <1>3
  <2>2. PICK k \in DOMAIN queue : MakerSubmission(queue[k].command) /\ queue[k].ingress = reserved[i].ingress
    BY <1>6, <2>1 DEF Reserved
  <2>3. k # 1
    BY <1>1, <2>1, <2>2
  <2> QED BY <1>1, <2>1, <2>2, <2>3
<1>7. \A i, j \in DOMAIN left : left[i].ingress = left[j].ingress /\ left[i].ingress # 0 => i = j
  BY <1>3 DEF Reserved
<1>8. Reserved(left, rest)
  BY <1>5, <1>6, <1>7 DEF Reserved
<1>9. ASSUME ~MakerSubmission(s.command) PROVE left = reserved
  <2>1. \A i \in DOMAIN reserved : reserved[i].ingress # s.ingress
    <3> SUFFICES ASSUME NEW i \in DOMAIN reserved, reserved[i].ingress = s.ingress PROVE FALSE
      OBVIOUS
    <3>1. PICK k \in DOMAIN queue : MakerSubmission(queue[k].command) /\ queue[k].ingress = s.ingress
      BY <1>2 DEF Reserved
    <3> QED BY <1>1, <1>4, <1>9, <3>1
  <2>2. DOMAIN left = DOMAIN reserved
    BY <1>3, <2>1
  <2>3. left = [i \in DOMAIN reserved |-> reserved[i]]
    BY <2>1 DEF left, WithoutIngress
  <2> QED BY <2>3 DEF Proved!IsMap
<1>10. ASSUME MakerSubmission(s.command)
       PROVE  \E i \in DOMAIN reserved : /\ reserved[i].ingress = s.ingress
                                         /\ reserved[i].side = s.command.request.side
                                         /\ reserved[i].quantity = s.command.request.quantity
                                         /\ left = Risk!Without(reserved, i)
  <2>1. PICK i \in DOMAIN reserved : /\ reserved[i].ingress = s.ingress
                                     /\ reserved[i].side = s.command.request.side
                                     /\ reserved[i].quantity = s.command.request.quantity
    BY <1>1, <1>10 DEF Reserved
  <2>2. \A j \in DOMAIN reserved : reserved[j].ingress # s.ingress <=> j # i
    BY <1>2, <2>1 DEF Reserved
  <2>3. left = Risk!Without(reserved, i)
    BY <2>2 DEF left, WithoutIngress, Risk!Without
  <2> QED BY <2>1, <2>3
<1> QED BY <1>8, <1>9, <1>10 DEF s, rest, left

-----------------------------------------------------------------------------
(* 3. What the exchange tells. *)

\* What an event adds to what the maker bought, or sold.
Gain(e, side) == IF e.kind = "executed" /\ e.order # 0 /\ e.side = side THEN e.quantity ELSE 0

LEMMA VolumeSteps ==
  ASSUME NEW es \in Seq(Event), NEW side
  PROVE  /\ Volume(es, 0, side) = 0
         /\ \A n \in 0..Len(es) : Volume(es, n, side) \in Nat
         /\ \A n \in 1..Len(es) : /\ Gain(es[n], side) \in Nat
                                  /\ Volume(es, n, side) = Volume(es, n - 1, side) + Gain(es[n], side)
<1> DEFINE f(n) == [k \in Fills(es, n, side) |-> es[k].quantity]
           m == Len(es)
<1>1. m \in Nat /\ \A k \in 1..m : es[k] \in Event
  OBVIOUS
<1>2. \A n : DOMAIN f(n) = Fills(es, n, side) /\ \A k \in Fills(es, n, side) : f(n)[k] = es[k].quantity
  OBVIOUS
<1>3. \A n : Volume(es, n, side) = Units(f(n))
  BY DEF Volume
<1> HIDE DEF f, m
<1>4. ASSUME NEW n \in 0..m
      PROVE  IsFiniteSet(DOMAIN f(n)) /\ \A k \in DOMAIN f(n) : f(n)[k] \in Nat
  <2>1. Fills(es, n, side) \subseteq 1..n /\ IsFiniteSet(1..n)
    BY <1>1, FS_Interval DEF Fills
  <2>2. IsFiniteSet(Fills(es, n, side))
    BY <2>1, FS_Subset
  <2>3. ASSUME NEW k \in Fills(es, n, side) PROVE f(n)[k] \in Nat
    <3>1. k \in 1..m /\ es[k].kind = "executed"
      BY <1>1 DEF Fills
    <3> QED BY <1>1, <1>2, <3>1, EventFields
  <2> QED BY <1>2, <2>2, <2>3
<1>5. \A n \in 0..m : Volume(es, n, side) \in Nat
  BY <1>3, <1>4, UnitsType
<1>6. Volume(es, 0, side) = 0
  <2>1. 1..0 = {}
    OBVIOUS
  <2>2. Fills(es, 0, side) = {}
    BY <2>1 DEF Fills
  <2>3. DOMAIN f(0) = {}
    BY <1>2, <2>2
  <2> QED BY <1>3, <2>3, UnitsOfNothing
<1>7. ASSUME NEW n \in 1..m
      PROVE  /\ Gain(es[n], side) \in Nat
             /\ Volume(es, n, side) = Volume(es, n - 1, side) + Gain(es[n], side)
  <2>1. n \in 0..m /\ n - 1 \in 0..m /\ 1..n = (1..(n - 1)) \cup {n} /\ n \notin 1..(n - 1)
    BY <1>1
  <2>2. CASE es[n].kind = "executed" /\ es[n].order # 0 /\ es[n].side = side
    <3>1. Fills(es, n, side) = Fills(es, n - 1, side) \cup {n} /\ n \notin Fills(es, n - 1, side)
      BY <2>1, <2>2 DEF Fills
    <3>2. es[n].quantity \in Nat
      BY <1>1, <2>2, EventFields
    <3>3. /\ DOMAIN f(n) = DOMAIN f(n - 1) \cup {n} /\ n \notin DOMAIN f(n - 1)
          /\ \A k \in DOMAIN f(n - 1) : f(n)[k] = f(n - 1)[k]
          /\ f(n)[n] = es[n].quantity
      BY <1>2, <3>1
    <3>4. Units(f(n)) = Units(f(n - 1)) + f(n)[n]
      BY <1>4, <2>1, <3>2, <3>3, UnitsWith
    <3> QED BY <1>3, <2>2, <3>2, <3>3, <3>4 DEF Gain
  <2>3. CASE ~(es[n].kind = "executed" /\ es[n].order # 0 /\ es[n].side = side)
    <3>1. Fills(es, n, side) = Fills(es, n - 1, side)
      BY <2>1, <2>3 DEF Fills
    <3>2. Volume(es, n, side) = Volume(es, n - 1, side)
      BY <3>1 DEF Volume
    <3>3. Gain(es[n], side) = 0
      BY <2>3 DEF Gain
    <3> QED BY <1>5, <2>1, <3>2, <3>3
  <2> QED BY <2>2, <2>3
<1> QED BY <1>5, <1>6, <1>7 DEF m

\* The net position of the account follows the executions of its orders.
LEMMA TellingGains ==
  ASSUME NEW e \in Event, NEW a, a.net \in Int, NEW b, Tells(a, e, b)
  PROVE  b.net = a.net + Gain(e, "Buy") - Gain(e, "Sell")
<1> DEFINE moved == a.net + Gain(e, "Buy") - Gain(e, "Sell")
<1>1. CASE e.kind = "executed" /\ e.order # 0
  <2>1. b.net = a.net + Signed(e.side, e.quantity)
    BY <1>1, AccountParts DEF Tells, TellsExecuted
  <2>2. e.side \in Sides /\ e.quantity \in Nat
    BY <1>1, EventFields
  <2> QED BY <1>1, <2>1, <2>2 DEF Gain, Signed, Sides
<1>2. CASE ~(e.kind = "executed" /\ e.order # 0)
  <2>1. b.net = a.net
    BY <1>2, AccountParts DEF Tells, TellsAcknowledged, TellsExecuted, TellsOutcome
  <2>2. Gain(e, "Buy") = 0 /\ Gain(e, "Sell") = 0
    BY <1>2 DEF Gain
  <2> QED BY <2>1, <2>2
<1> QED BY <1>1, <1>2

LEMMA NetFollows ==
  ASSUME NEW es \in Seq(Event), NEW a, a.net \in Int, NEW b, Leads(a, es, b)
  PROVE  MakerTraded(es) \in Int /\ b.net = a.net + MakerTraded(es)
<1> DEFINE n == Len(es)
           V(k) == Volume(es, k, "Buy") - Volume(es, k, "Sell")
<1>1. n \in Nat /\ \A k \in 1..n : es[k] \in Event
  OBVIOUS
<1>2. PICK t : t[0] = a /\ t[n] = b /\ \A k \in 1..n : Tells(t[k - 1], es[k], t[k])
  BY Zenon DEF Leads
<1>3. /\ V(0) = 0 /\ \A k \in 0..n : V(k) \in Int
      /\ \A k \in 1..n : /\ Gain(es[k], "Buy") \in Nat /\ Gain(es[k], "Sell") \in Nat
                         /\ V(k) = V(k - 1) + Gain(es[k], "Buy") - Gain(es[k], "Sell")
  <2>1. /\ Volume(es, 0, "Buy") = 0 /\ \A k \in 0..n : Volume(es, k, "Buy") \in Nat
        /\ \A k \in 1..n : /\ Gain(es[k], "Buy") \in Nat
                           /\ Volume(es, k, "Buy") = Volume(es, k - 1, "Buy") + Gain(es[k], "Buy")
    BY VolumeSteps
  <2>2. /\ Volume(es, 0, "Sell") = 0 /\ \A k \in 0..n : Volume(es, k, "Sell") \in Nat
        /\ \A k \in 1..n : /\ Gain(es[k], "Sell") \in Nat
                           /\ Volume(es, k, "Sell") = Volume(es, k - 1, "Sell") + Gain(es[k], "Sell")
    BY VolumeSteps
  <2>3. \A k \in 1..n : k - 1 \in 0..n /\ k \in 0..n
    BY <1>1
  <2> HIDE DEF n
  <2> QED BY <2>1, <2>2, <2>3
<1>4. MakerTraded(es) = V(n)
  BY DEF MakerTraded
<1> HIDE DEF n, V
<1> DEFINE G == {k \in 0..n : t[k].net = a.net + V(k)}
<1>5. 0 \in G
  BY <1>1, <1>2, <1>3
<1>6. ASSUME NEW k \in 0..(n - 1), k \in G PROVE k + 1 \in G
  <2>1. k + 1 \in 1..n /\ k + 1 \in 0..n /\ (k + 1) - 1 = k /\ k \in 0..n
    BY <1>1
  <2>2. Tells(t[(k + 1) - 1], es[k + 1], t[k + 1]) /\ es[k + 1] \in Event
    BY <1>1, <1>2, <2>1, Zenon
  <2>3. Tells(t[k], es[k + 1], t[k + 1])
    BY <2>1, <2>2
  <2>4. t[k].net = a.net + V(k) /\ V(k) \in Int /\ t[k].net \in Int
    BY <1>3, <1>6, <2>1
  <2>5. t[k + 1].net = t[k].net + Gain(es[k + 1], "Buy") - Gain(es[k + 1], "Sell")
    BY <2>2, <2>3, <2>4, TellingGains
  <2>6. /\ Gain(es[k + 1], "Buy") \in Nat /\ Gain(es[k + 1], "Sell") \in Nat
        /\ V(k + 1) = V((k + 1) - 1) + Gain(es[k + 1], "Buy") - Gain(es[k + 1], "Sell")
    BY <1>3, <2>1, Zenon
  <2>7. V((k + 1) - 1) = V(k)
    BY <2>1
  <2>8. t[k + 1].net = a.net + V(k + 1)
    <3>1. \A u, v, w, x, y, z \in Int : u = a.net + v /\ w = u + x - y /\ z = v + x - y => w = a.net + z
      OBVIOUS
    <3>2. V(k + 1) = V(k) + Gain(es[k + 1], "Buy") - Gain(es[k + 1], "Sell") /\ V(k + 1) \in Int
      BY <1>3, <2>1, <2>6, <2>7
    <3>3. \A u \in Int, x, y \in Nat : u + x - y \in Int
      OBVIOUS
    <3>4. t[k].net + Gain(es[k + 1], "Buy") - Gain(es[k + 1], "Sell") \in Int
      BY <2>4, <2>6, <3>3, Zenon
    <3>5. t[k + 1].net \in Int
      BY <2>5, <3>4, Zenon
    <3> QED BY <2>4, <2>5, <2>6, <3>1, <3>2, <3>5
  <2> QED BY <2>1, <2>8
<1>7. \A k \in 0..n : k \in G
  <2> HIDE DEF G
  <2> QED BY <1>1, <1>5, <1>6, Climb
<1>8. n \in 0..n
  BY <1>1
<1> QED BY <1>2, <1>3, <1>4, <1>7, <1>8

\* The maker's orders among those of a book, as its account keeps them.
OrdersOf(nodes) ==
  [o \in {x \in DOMAIN nodes : nodes[x].trader = Maker} |-> RiskOrder(o, nodes[o].side, nodes[o].remaining)]

LEMMA OrdersOfNothing == \A nodes : DOMAIN nodes = {} => OrdersOf(nodes) = Risk!NoOrders
BY DEF OrdersOf, Risk!NoOrders

LEMMA OrdersKept ==
  ASSUME NEW f, NEW g,
         \A o : (o \in DOMAIN f /\ f[o].trader = Maker) <=> (o \in DOMAIN g /\ g[o].trader = Maker),
         \A o \in DOMAIN g : g[o].trader = Maker => g[o].side = f[o].side /\ g[o].remaining = f[o].remaining
  PROVE  OrdersOf(f) = OrdersOf(g)
<1>1. {x \in DOMAIN f : f[x].trader = Maker} = {x \in DOMAIN g : g[x].trader = Maker}
  OBVIOUS
<1> QED BY <1>1 DEF OrdersOf, RiskOrder

LEMMA OrdersRemoved ==
  ASSUME NEW nodes, NEW o
  PROVE  OrdersOf([x \in DOMAIN nodes \ {o} |-> nodes[x]]) = Risk!Without(OrdersOf(nodes), o)
<1> DEFINE new == [x \in DOMAIN nodes \ {o} |-> nodes[x]]
           f == OrdersOf(nodes)
<1>1. {x \in DOMAIN new : new[x].trader = Maker} = DOMAIN f \ {o}
  BY DEF OrdersOf
<1>2. \A x \in DOMAIN f \ {o} : RiskOrder(x, new[x].side, new[x].remaining) = f[x]
  BY DEF OrdersOf
<1>3. OrdersOf(new) = [x \in {y \in DOMAIN new : new[y].trader = Maker} |-> RiskOrder(x, new[x].side, new[x].remaining)]
  BY DEF OrdersOf
<1> HIDE DEF new, f
<1>4. OrdersOf(new) = [x \in DOMAIN f \ {o} |-> f[x]]
  BY <1>1, <1>2, <1>3
<1> QED BY <1>4 DEF Risk!Without, new, f

\* Order o loses q, and leaves when that is all.
Matched(nodes, o, q) ==
  IF nodes[o].remaining = q THEN [x \in DOMAIN nodes \ {o} |-> nodes[x]]
  ELSE [nodes EXCEPT ![o].remaining = @ - q]

LEMMA OrdersMatched ==
  ASSUME NEW nodes, Nodes(nodes), NEW o \in DOMAIN nodes, NEW q \in Nat \ {0}, q <= nodes[o].remaining
  PROVE  OrdersOf(Matched(nodes, o, q))
           = IF nodes[o].trader = Maker THEN Lowered(OrdersOf(nodes), o, nodes[o].remaining - q)
             ELSE OrdersOf(nodes)
<1> DEFINE f == OrdersOf(nodes)
           r == nodes[o].remaining - q
<1>1. nodes[o].remaining \in Nat /\ r \in Nat /\ (r = 0 <=> nodes[o].remaining = q)
  BY NodeFields
<1>2. f = [x \in DOMAIN f |-> f[x]] /\ (o \in DOMAIN f <=> nodes[o].trader = Maker)
  BY DEF OrdersOf
<1>3. CASE nodes[o].remaining = q
  <2>1. OrdersOf(Matched(nodes, o, q)) = Risk!Without(f, o)
    BY <1>3, OrdersRemoved DEF Matched
  <2>2. nodes[o].trader # Maker => Risk!Without(f, o) = f
    <3> HAVE nodes[o].trader # Maker
    <3>1. DOMAIN f \ {o} = DOMAIN f
      BY <1>2
    <3> HIDE DEF f
    <3> QED BY <1>2, <3>1 DEF Risk!Without
  <2>3. r = 0
    BY <1>1, <1>3
  <2> HIDE DEF f, r
  <2> QED BY <2>1, <2>2, <2>3 DEF Lowered, f, r
<1>4. CASE nodes[o].remaining # q
  <2> DEFINE new == Matched(nodes, o, q)
  <2>1. new = WithOrder(nodes, o, OrderLess(nodes[o], q))
    <3>1. new = [nodes EXCEPT ![o].remaining = @ - q]
      BY <1>4, Zenon DEF Matched
    <3>2. [nodes EXCEPT ![o].remaining = @ - q] = WithOrder(nodes, o, OrderLess(nodes[o], q))
      BY DEF WithOrder, OrderLess
    <3> HIDE DEF new
    <3> QED BY <3>1, <3>2, Zenon
  <2>2. nodes = [x \in DOMAIN nodes |-> nodes[x]] /\ nodes[o] \in OrderNode
    BY NodeFields DEF Nodes
  <2> HIDE DEF new
  <2>3. /\ DOMAIN new = DOMAIN nodes /\ (\A x \in DOMAIN nodes : x # o => new[x] = nodes[x])
        /\ new[o] = OrderLess(nodes[o], q)
    BY <2>1, <2>2, OneOrder
  <2>4. new[o].trader = nodes[o].trader /\ new[o].side = nodes[o].side /\ new[o].remaining = r
    BY <2>2, <2>3, OrderLessFields
  <2>5. {x \in DOMAIN new : new[x].trader = Maker} = DOMAIN f
    BY <2>3, <2>4 DEF OrdersOf
  <2>6. OrdersOf(new) = [x \in DOMAIN f |-> RiskOrder(x, new[x].side, new[x].remaining)]
    BY <2>5 DEF OrdersOf
  <2>7. \A x \in DOMAIN f : f[x] = RiskOrder(x, nodes[x].side, nodes[x].remaining) /\ x \in DOMAIN nodes
    BY DEF OrdersOf
  <2> HIDE DEF f, r
  <2>8. \A x \in DOMAIN f : x # o => RiskOrder(x, new[x].side, new[x].remaining) = f[x]
    BY <2>3, <2>7
  <2>9. CASE nodes[o].trader = Maker
    <3>1. o \in DOMAIN f /\ f[o] = RiskOrder(o, nodes[o].side, nodes[o].remaining)
      BY <1>2, <2>7, <2>9
    <3>2. [f[o] EXCEPT !.quantity = r] = RiskOrder(o, new[o].side, new[o].remaining)
      BY <2>4, <3>1 DEF RiskOrder
    <3>3. [f EXCEPT ![o].quantity = r] = [x \in DOMAIN f |-> IF x = o THEN [f[o] EXCEPT !.quantity = r] ELSE f[x]]
      OBVIOUS
    <3>4. OrdersOf(new) = [f EXCEPT ![o].quantity = r]
      BY <2>6, <2>8, <3>2, <3>3
    <3>5. r # 0
      BY <1>1, <1>4 DEF r
    <3> QED BY <2>9, <3>4, <3>5 DEF Lowered, f, r, new
  <2>10. CASE nodes[o].trader # Maker
    <3>1. \A x \in DOMAIN f : RiskOrder(x, new[x].side, new[x].remaining) = f[x]
      BY <1>2, <2>8, <2>10
    <3>2. OrdersOf(new) = [x \in DOMAIN f |-> f[x]]
      BY <2>6, <3>1
    <3> QED BY <1>2, <2>10, <3>2 DEF f, r, new
  <2> QED BY <2>9, <2>10
<1> QED BY <1>3, <1>4

LEMMA MatchFacts ==
  ASSUME Sound(Book), NEW in, Submittable(in), NEW n, PlanOK(in, n), NEW k \in 1..n
  PROVE  LET match == PlanMatches(in).matches[k] IN
         /\ match.order = Walk(in)[k] /\ match.order \in DOMAIN live
         /\ match.quantity \in Nat \ {0} /\ match.quantity <= live[match.order].remaining
         /\ \A book : AtStage(in, k - 1, book) =>
              match.order \in DOMAIN book.live /\ book.live[match.order] = live[match.order]
<1> DEFINE walk == Walk(in)
           match == PlanMatches(in).matches[k]
           left == LeftAfter(in, walk, k - 1)
           o == walk[k]
<1>1. WalkOK(in, walk)
  BY WalkIsOK DEF Submittable
<1>2. /\ match.order = o /\ left > 0 /\ n \in 0..Len(walk)
      /\ match.quantity = IF left <= live[o].remaining THEN left ELSE live[o].remaining
  BY DEF PlanOK
<1>3. Len(walk) \in Nat /\ DOMAIN walk = 1..Len(walk)
  BY <1>1 DEF WalkOK
<1>4. k \in 1..Len(walk) /\ k - 1 \in 0..Len(walk)
  BY <1>2, <1>3
<1> HIDE DEF walk
<1>5. left \in Int /\ live[o].remaining \in Nat /\ live[o].remaining > 0
  BY <1>1, <1>4, LeftFalls
<1>6. match.quantity \in Nat \ {0} /\ match.quantity <= live[o].remaining
  BY <1>2, <1>5
<1>7. o \in DOMAIN live /\ \A i \in 1..(k - 1) : walk[i] # o
  <2>1. \A i \in 1..(k - 1) : i \in DOMAIN walk /\ i < k
    BY <1>3, <1>4
  <2> QED BY <1>1, <1>3, <1>4, <2>1 DEF WalkOK
<1> HIDE DEF o, match, left
<1>8. ASSUME NEW book, AtStage(in, k - 1, book)
      PROVE  o \in DOMAIN book.live /\ book.live[o] = live[o]
  <2>1. book.live = [x \in DOMAIN live \ {walk[i] : i \in 1..(k - 1)} |-> live[x]]
    BY <1>8 DEF AtStage, walk
  <2>2. o \in DOMAIN live \ {walk[i] : i \in 1..(k - 1)}
    BY <1>7
  <2> QED BY <2>1, <2>2
<1> QED BY <1>2, <1>6, <1>7, <1>8 DEF o, match, walk

LEMMA ApplyMatchLive ==
  ASSUME NEW book, Sound(book), NEW match, match.order \in DOMAIN book.live,
         match.quantity \in Nat, match.quantity <= book.live[match.order].remaining
  PROVE  ApplyMatch(book, match).live = Matched(book.live, match.order, match.quantity)
<1> DEFINE o == match.order
<1>1. book.live[o].remaining \in Nat
  BY NodeFields DEF Sound
<1>2. CASE match.quantity = book.live[o].remaining
  <2>1. ApplyMatch(book, match) = Unlink(book, o)
    BY <1>2, MatchedWhole
  <2>2. Unlink(book, o).live = [x \in DOMAIN book.live \ {o} |-> book.live[x]]
    BY Unlinking
  <2> QED BY <1>2, <2>1, <2>2, Zenon DEF Matched
<1>3. CASE match.quantity # book.live[o].remaining
  <2>1. match.quantity < book.live[o].remaining
    BY <1>1, <1>3
  <2>2. ApplyMatch(book, match).live = [book.live EXCEPT ![o].remaining = @ - match.quantity]
    BY <2>1, MatchedPart
  <2> QED BY <1>3, <2>2, Zenon DEF Matched
<1> QED BY <1>2, <1>3

\* An execution tells the account of the order that it was executed against.
LEMMA ExecutionTold ==
  ASSUME NEW in, in.trader # Maker, NEW match, match.order \in DOMAIN live, Nodes(live),
         match.quantity \in Nat \ {0}, match.quantity <= live[match.order].remaining,
         NEW nodes, Nodes(nodes), match.order \in DOMAIN nodes, nodes[match.order] = live[match.order],
         NEW net \in Int, NEW reserved
  PROVE  LET e == Executed(in, match) IN
         /\ e \in Event
         /\ Tells(Account(OrdersOf(nodes), net, reserved), e,
                  Account(OrdersOf(Matched(nodes, match.order, match.quantity)),
                          net + Gain(e, "Buy") - Gain(e, "Sell"), reserved))
<1> DEFINE e == Executed(in, match)
           o == match.order
           q == match.quantity
           moved == net + Gain(e, "Buy") - Gain(e, "Sell")
           after == OrdersOf(Matched(nodes, o, q))
<1>1. /\ e = [kind |-> "executed", side |-> live[o].side, quantity |-> q, price |-> live[o].price,
              order |-> IF live[o].trader = Maker THEN o ELSE 0]
  BY DEF Executed
<1>2. /\ live[o].side \in Sides /\ live[o].price \in Prices /\ o \in Orders /\ o # 0
      /\ live[o].remaining \in Nat
  BY NodeFields, ExchangeAssumption DEF Nodes
<1>3. e \in Event
  BY <1>1, <1>2 DEF Event
<1>4. after = IF live[o].trader = Maker THEN Lowered(OrdersOf(nodes), o, live[o].remaining - q)
              ELSE OrdersOf(nodes)
  BY OrdersMatched
<1>5. e.kind = "executed" /\ e.side = live[o].side /\ e.quantity = q
      /\ e.order = IF live[o].trader = Maker THEN o ELSE 0
  BY <1>1
<1> HIDE DEF e, o, q
<1>6. CASE live[o].trader # Maker
  <2>1. moved = net
    BY <1>5, <1>6 DEF Gain
  <2>2. TellsExecuted(Account(OrdersOf(nodes), net, reserved), e, Account(after, moved, reserved))
    BY <1>4, <1>5, <1>6, <2>1 DEF TellsExecuted
  <2> QED BY <1>3, <1>5, <2>2 DEF Tells, e, o, q
<1>7. CASE live[o].trader = Maker
  <2> DEFINE f == OrdersOf(nodes)
  <2>1. o \in DOMAIN f /\ f[o] = RiskOrder(o, live[o].side, live[o].remaining)
    <3>1. o \in {x \in DOMAIN nodes : nodes[x].trader = Maker} /\ nodes[o] = live[o]
      BY <1>7 DEF o
    <3> QED BY <3>1 DEF OrdersOf
  <2>2. f[o].side = live[o].side /\ f[o].quantity = live[o].remaining
    BY <2>1 DEF RiskOrder
  <2>3. e.order = o /\ o # 0
    BY <1>2, <1>5, <1>7
  <2>4. q <= live[o].remaining /\ q \in Nat
    BY DEF o, q
  <2>5. moved = net + Signed(e.side, q)
    BY <1>2, <1>5, <2>3, <2>4 DEF Gain, Signed, Sides
  <2>6. after = Lowered(f, o, f[o].quantity - q)
    BY <1>4, <1>7, <2>2
  <2> HIDE DEF f, moved, after
  <2>7. TellsExecuted(Account(f, net, reserved), e, Account(after, moved, reserved))
    BY <1>5, <2>1, <2>2, <2>3, <2>4, <2>5, <2>6, AccountParts DEF TellsExecuted
  <2> QED BY <1>3, <1>5, <2>7 DEF Tells, f, moved, after, e, o, q
<1> QED BY <1>6, <1>7

\* The executions of another trader's order, in turn.
Executions(in) == [k \in DOMAIN PlanMatches(in).matches |-> Executed(in, PlanMatches(in).matches[k])]

LEMMA ExecutionsTold ==
  ASSUME Sound(Book), NEW in, Submittable(in), in.trader # Maker, NEW n, PlanOK(in, n),
         NEW net \in Int, NEW reserved
  PROVE  /\ Executions(in) \in Seq(Event) /\ Len(Executions(in)) = n
         /\ \E moved \in Int : Leads(Account(OrdersOf(live), net, reserved), Executions(in),
                                     Account(OrdersOf(Filled(in).live), moved, reserved))
<1> DEFINE matches == PlanMatches(in).matches
           es == Executions(in)
<1>1. n \in Nat /\ DOMAIN matches = 1..n /\ Len(matches) = n
  <2>1. Len(Walk(in)) \in Nat
    BY WalkIsOK DEF WalkOK, Submittable
  <2> QED BY <2>1 DEF PlanOK
<1>2. PICK after :
         /\ after[0] = Book /\ AfterMatches(matches) = after[n]
         /\ \A k \in 1..n : after[k] = ApplyMatch(after[k - 1], matches[k])
         /\ \A k \in 0..(n - 1) : AtStage(in, k, after[k])
  BY MatchingStages
<1>3. /\ es = [k \in 1..n |-> Executed(in, matches[k])]
      /\ \A k \in 1..n : es[k] = Executed(in, matches[k])
  BY <1>1 DEF Executions
<1> HIDE DEF es
<1>4. Nodes(live)
  BY BookParts DEF Sound
<1>5. ASSUME NEW k \in 1..n
      PROVE  /\ es[k] \in Event
             /\ \A m \in Int : Tells(Account(OrdersOf(after[k - 1].live), m, reserved), es[k],
                                     Account(OrdersOf(after[k].live), m + Gain(es[k], "Buy") - Gain(es[k], "Sell"), reserved))
  <2> DEFINE match == matches[k]
             b == after[k - 1]
  <2>1. k - 1 \in 0..(n - 1)
    BY <1>1
  <2>2. AtStage(in, k - 1, b) /\ after[k] = ApplyMatch(b, match) /\ es[k] = Executed(in, match)
    BY <1>2, <1>3, <2>1
  <2>3. /\ match.order \in DOMAIN live /\ match.quantity \in Nat \ {0}
        /\ match.quantity <= live[match.order].remaining
        /\ match.order \in DOMAIN b.live /\ b.live[match.order] = live[match.order]
    BY <2>2, MatchFacts
  <2>4. Sound(b) /\ Nodes(b.live)
    BY <2>2 DEF AtStage, Sound
  <2> HIDE DEF match, b
  <2>5. after[k].live = Matched(b.live, match.order, match.quantity)
    BY <2>2, <2>3, <2>4, ApplyMatchLive
  <2>6. Executed(in, match) \in Event
    BY <1>4, <2>3, <2>4, ExecutionTold, 0 \in Int
  <2> SUFFICES ASSUME NEW m \in Int
               PROVE  Tells(Account(OrdersOf(b.live), m, reserved), es[k],
                            Account(OrdersOf(after[k].live), m + Gain(es[k], "Buy") - Gain(es[k], "Sell"), reserved))
    BY <2>2, <2>6 DEF b
  <2>7. Tells(Account(OrdersOf(b.live), m, reserved), Executed(in, match),
              Account(OrdersOf(Matched(b.live, match.order, match.quantity)),
                      m + Gain(Executed(in, match), "Buy") - Gain(Executed(in, match), "Sell"), reserved))
    BY <1>4, <2>3, <2>4, ExecutionTold
  <2> QED BY <2>2, <2>5, <2>7
<1>6. es \in Seq(Event) /\ Len(es) = n
  <2>1. es \in [1..n -> Event]
    BY <1>3, <1>5
  <2> QED BY <1>1, <2>1
<1> DEFINE N(k) == net + Volume(es, k, "Buy") - Volume(es, k, "Sell")
           t == [k \in 0..n |-> Account(OrdersOf(after[k].live), N(k), reserved)]
<1>7. /\ N(0) = net /\ \A k \in 0..n : N(k) \in Int
      /\ \A k \in 1..n : N(k) = N(k - 1) + Gain(es[k], "Buy") - Gain(es[k], "Sell")
  <2>1. /\ Volume(es, 0, "Buy") = 0 /\ \A k \in 0..n : Volume(es, k, "Buy") \in Nat
        /\ \A k \in 1..n : /\ Gain(es[k], "Buy") \in Nat
                           /\ Volume(es, k, "Buy") = Volume(es, k - 1, "Buy") + Gain(es[k], "Buy")
    BY <1>6, VolumeSteps
  <2>2. /\ Volume(es, 0, "Sell") = 0 /\ \A k \in 0..n : Volume(es, k, "Sell") \in Nat
        /\ \A k \in 1..n : /\ Gain(es[k], "Sell") \in Nat
                           /\ Volume(es, k, "Sell") = Volume(es, k - 1, "Sell") + Gain(es[k], "Sell")
    BY <1>6, VolumeSteps
  <2>3. \A k \in 1..n : k - 1 \in 0..n /\ k \in 0..n
    BY <1>1
  <2> QED BY <2>1, <2>2, <2>3
<1> HIDE DEF N, matches
<1>8. \A k \in 0..n : t[k] = Account(OrdersOf(after[k].live), N(k), reserved)
  OBVIOUS
<1> HIDE DEF t
<1>9. 0 \in 0..n /\ n \in 0..n
  BY <1>1
<1>10. t[0] = Account(OrdersOf(live), net, reserved)
  BY <1>2, <1>7, <1>8, <1>9, BookParts
<1>11. t[n] = Account(OrdersOf(Filled(in).live), N(n), reserved)
  BY <1>2, <1>8, <1>9 DEF Filled, matches
<1>12. ASSUME NEW k \in 1..n PROVE Tells(t[k - 1], es[k], t[k])
  <2>1. k \in 0..n /\ k - 1 \in 0..n
    BY <1>1
  <2>2. N(k - 1) \in Int /\ N(k) = N(k - 1) + Gain(es[k], "Buy") - Gain(es[k], "Sell")
    BY <1>7, <2>1
  <2>3. Tells(Account(OrdersOf(after[k - 1].live), N(k - 1), reserved), es[k],
              Account(OrdersOf(after[k].live), N(k - 1) + Gain(es[k], "Buy") - Gain(es[k], "Sell"), reserved))
    BY <1>5, <2>2, Zenon
  <2> QED BY <1>8, <2>1, <2>2, <2>3
<1>13. Leads(Account(OrdersOf(live), net, reserved), es, Account(OrdersOf(Filled(in).live), N(n), reserved))
  BY <1>6, <1>10, <1>11, <1>12 DEF Leads
<1> QED BY <1>6, <1>7, <1>9, <1>13 DEF es

\* Batch is what a command of the exchange emits: it takes the account from the
\* orders of the book before it to those after it, and its reservations from
\* reserved to left.
Told(batch, reserved, left) ==
  /\ batch \in Seq(Event) /\ nextEvent' = nextEvent + Len(batch)
  /\ \E moved \in Int : Leads(Account(OrdersOf(live), traded, reserved), batch,
                              Account(OrdersOf(live'), moved, left))

LEMMA OtherTold == Other \in Event /\ \A a : Tells(a, Other, a)
BY DEF Other, Event, Tells

LEMMA DepthTold ==
  /\ DepthEvent \in Seq(Event)
  /\ Len(DepthEvent) = IF DepthDelta(Displayed(levels), Displayed(levels')) = {} THEN 0 ELSE 1
  /\ \A a : Leads(a, DepthEvent, a)
<1> DEFINE none == DepthDelta(Displayed(levels), Displayed(levels')) = {}
<1>1. DepthEvent = IF none THEN <<>> ELSE <<Other>>
  BY DEF DepthEvent
<1> HIDE DEF none
<1>2. /\ <<>> \in Seq(Event) /\ <<Other>> \in Seq(Event) /\ Len(<<>>) = 0 /\ Len(<<Other>>) = 1
  BY OtherTold
<1>3. \A a : Leads(a, <<>>, a) /\ Leads(a, <<Other>>, a)
  BY OtherTold, LeadsNowhere, LeadsOne
<1> QED BY <1>1, <1>2, <1>3 DEF none

LEMMA EmitCounts ==
  ASSUME NEW count, Emit(count)
  PROVE  nextEvent' = nextEvent + count + Len(DepthEvent)
BY DepthTold DEF Emit

LEMMA RejectTold ==
  ASSUME IInv, NEW s \in Entry, Reject, traded \in Int, NEW reserved
  PROVE  Told(<<Rejected(s)>>, reserved, WithoutIngress(reserved, s.ingress))
<1> DEFINE left == WithoutIngress(reserved, s.ingress)
<1>1. live' = live /\ levels' = levels /\ Emit(1)
  BY DEF Reject, vars
<1>2. nextEvent' = nextEvent + 1
  <2>1. DepthDelta(Displayed(levels), Displayed(levels')) = {}
    BY <1>1, NothingChanged
  <2>2. Len(DepthEvent) = 0
    BY <2>1, DepthTold
  <2>3. nextEvent \in Int
    BY DEF IInv
  <2> QED BY <1>1, <2>2, <2>3, EmitCounts
<1>3. Rejected(s) \in Event /\ Rejected(s).kind = "rejected" /\ Rejected(s).ingress = s.ingress
  BY DEF Rejected, Event, Entry
<1> HIDE DEF left
<1>4. Tells(Account(OrdersOf(live), traded, reserved), Rejected(s), Account(OrdersOf(live), traded, left))
  BY <1>3, AccountParts DEF Tells, left
<1>5. Leads(Account(OrdersOf(live), traded, reserved), <<Rejected(s)>>, Account(OrdersOf(live'), traded, left))
  BY <1>1, <1>4, LeadsOne
<1>6. <<Rejected(s)>> \in Seq(Event) /\ Len(<<Rejected(s)>>) = 1
  BY <1>3
<1> QED BY <1>2, <1>5, <1>6 DEF Told, left

\* A batch with the depth change after it.
LEMMA DepthAfter ==
  ASSUME nextEvent \in Int, NEW es \in Seq(Event), NEW count, Emit(count), count = Len(es),
         NEW reserved, NEW left, NEW moved \in Int,
         Leads(Account(OrdersOf(live), traded, reserved), es, Account(OrdersOf(live'), moved, left))
  PROVE  Told(es \o DepthEvent, reserved, left)
<1>1. DepthEvent \in Seq(Event) /\ \A a : Leads(a, DepthEvent, a)
  BY DepthTold
<1>2. Leads(Account(OrdersOf(live), traded, reserved), es \o DepthEvent, Account(OrdersOf(live'), moved, left))
  BY <1>1, LeadsOn
<1>3. nextEvent' = nextEvent + Len(es) + Len(DepthEvent)
  BY EmitCounts
<1> DEFINE both == es \o DepthEvent
<1>4. both \in Seq(Event) /\ Joins(es, DepthEvent, both)
  BY <1>1, Joined
<1>5. Len(es) \in Nat /\ Len(DepthEvent) \in Nat
  BY <1>1
<1> HIDE DEF both
<1>6. nextEvent' = nextEvent + Len(both)
  BY <1>3, <1>4, <1>5 DEF Joins
<1> QED BY <1>2, <1>4, <1>6 DEF Told, both

LEMMA CancellationTold == 
  ASSUME NEW o \in Orders, NEW l, NEW net, NEW reserved
  PROVE  /\ Cancelled(o) \in Event
         /\ Tells(Account(l, net, reserved), Cancelled(o), Account(Risk!Without(l, o), net, reserved))
BY AccountParts DEF Cancelled, Event, Tells

LEMMA CancelTold ==
  ASSUME IInv, NEW o, Cancel(o), Emit(1), traded \in Int, NEW reserved
  PROVE  /\ live' # live
         /\ Told(<<Cancelled(o)>> \o DepthEvent, reserved, reserved)
<1>1. o \in DOMAIN live /\ live' = [x \in DOMAIN live \ {o} |-> live[x]]
  BY CancelKeepsBook DEF IInv
<1>2. o \in Orders /\ nextEvent \in Int
  BY <1>1, BookParts DEF IInv, BookInv, BookOK, Sound, Nodes
<1>3. OrdersOf(live') = Risk!Without(OrdersOf(live), o)
  BY <1>1, OrdersRemoved
<1>4. /\ Cancelled(o) \in Event
      /\ Tells(Account(OrdersOf(live), traded, reserved), Cancelled(o), Account(OrdersOf(live'), traded, reserved))
  BY <1>2, <1>3, CancellationTold
<1>5. Leads(Account(OrdersOf(live), traded, reserved), <<Cancelled(o)>>, Account(OrdersOf(live'), traded, reserved))
  BY <1>4, LeadsOne
<1>6. <<Cancelled(o)>> \in Seq(Event) /\ 1 = Len(<<Cancelled(o)>>)
  BY <1>4
<1> HIDE DEF Cancelled
<1>7. Told(<<Cancelled(o)>> \o DepthEvent, reserved, reserved)
  BY <1>2, <1>5, <1>6, DepthAfter
<1> QED BY <1>1, <1>7

\* Closing cancels the resting orders one by one.
LEMMA ClosingTold ==
  ASSUME BookInv, NEW net \in Int, NEW reserved, NEW es,
         es = [k \in DOMAIN ByPriority |-> Cancelled(ByPriority[k])]
  PROVE  /\ es \in Seq(Event) /\ Len(es) = Cardinality(DOMAIN live)
         /\ Leads(Account(OrdersOf(live), net, reserved), es, Account(OrdersOf(NoBook.live), net, reserved))
<1> DEFINE n == Cardinality(DOMAIN live)
           l == ByPriority
           rest(k) == [o \in DOMAIN live \ {l[i] : i \in 1..k} |-> live[o]]
           t == [k \in 0..n |-> Account(OrdersOf(rest(k)), net, reserved)]
<1>1. /\ n \in Nat /\ DOMAIN l = 1..n
      /\ \A k \in 1..n : l[k] \in DOMAIN live
      /\ \A o \in DOMAIN live : \E k \in 1..n : l[k] = o
  BY ByPriorityLists DEF BookInv, BookOK
<1>2. DOMAIN live \subseteq Orders /\ live = [o \in DOMAIN live |-> live[o]]
  BY BookParts DEF BookInv, BookOK, Sound, Nodes
<1> HIDE DEF n, l
<1>3. es = [k \in 1..n |-> Cancelled(l[k])] /\ \A k \in 1..n : es[k] = Cancelled(l[k]) /\ es[k] \in Event
  BY <1>1, <1>2, CancellationTold DEF l
<1>4. es \in Seq(Event) /\ Len(es) = n
  <2>1. es \in [1..n -> Event]
    BY <1>3
  <2> QED BY <1>1, <2>1
<1>5. rest(0) = live
  <2>1. 1..0 = {}
    OBVIOUS
  <2>2. DOMAIN live \ {l[i] : i \in 1..0} = DOMAIN live
    BY <2>1
  <2> QED BY <1>2, <2>2
<1>6. DOMAIN rest(n) = {}
  BY <1>1
<1>7. \A k \in 1..n : rest(k) = [x \in DOMAIN rest(k - 1) \ {l[k]} |-> rest(k - 1)[x]]
  <2> TAKE k \in 1..n
  <2>1. \A i : i \in 1..k <=> i \in 1..(k - 1) \/ i = k
    OBVIOUS
  <2>2. DOMAIN live \ {l[i] : i \in 1..k} = (DOMAIN live \ {l[i] : i \in 1..(k - 1)}) \ {l[k]}
    BY <2>1
  <2> QED BY <2>2
<1>8. \A k \in 0..n : t[k] = Account(OrdersOf(rest(k)), net, reserved)
  OBVIOUS
<1> HIDE DEF rest, t
<1>9. OrdersOf(rest(n)) = OrdersOf(NoBook.live)
  BY <1>6, OrdersOfNothing, EmptyBook
<1>10. ASSUME NEW k \in 1..n PROVE Tells(t[k - 1], es[k], t[k])
  <2>1. k \in 0..n /\ k - 1 \in 0..n /\ l[k] \in Orders
    BY <1>1, <1>2
  <2>2. OrdersOf(rest(k)) = Risk!Without(OrdersOf(rest(k - 1)), l[k])
    BY <1>7, OrdersRemoved
  <2>3. Tells(Account(OrdersOf(rest(k - 1)), net, reserved), Cancelled(l[k]),
              Account(Risk!Without(OrdersOf(rest(k - 1)), l[k]), net, reserved))
    BY <2>1, CancellationTold
  <2> QED BY <1>3, <1>8, <2>1, <2>2, <2>3
<1>11. 0 \in 0..n /\ n \in 0..n
  BY <1>1
<1>12. t[0] = Account(OrdersOf(live), net, reserved) /\ t[n] = Account(OrdersOf(NoBook.live), net, reserved)
  BY <1>5, <1>8, <1>9, <1>11
<1>13. Leads(Account(OrdersOf(live), net, reserved), es, Account(OrdersOf(NoBook.live), net, reserved))
  BY <1>4, <1>10, <1>12 DEF Leads
<1> QED BY <1>4, <1>13 DEF n

LEMMA LifecycleTold ==
  ASSUME IInv, NEW target \in Statuses, ValidTransition(status, target), status' = target,
         IF target = "Closed" THEN CloseBook ELSE UNCHANGED <<live, levels>> /\ Emit(1),
         traded \in Int, NEW s, NEW reserved
  PROVE  Told(LifecycleEvents(s), reserved, reserved)
<1>1. status' # status /\ nextEvent \in Int
  BY DEF ValidTransition, IInv
<1> DEFINE cancels == [k \in DOMAIN ByPriority |-> Cancelled(ByPriority[k])]
           a == Account(OrdersOf(live), traded, reserved)
           b == Account(OrdersOf(live'), traded, reserved)
<1>2. <<Other>> \in Seq(Event) /\ Len(<<Other>>) = 1 /\ Leads(a, <<Other>>, a)
  BY OtherTold, LeadsOne
<1>3. CASE target # "Closed"
  <2>1. LifecycleEvents(s) = <<Other>> \o <<>> \o DepthEvent
    BY <1>1, <1>3 DEF LifecycleEvents
  <2>2. <<Other>> \o <<>> = <<Other>>
    <3>1. \A e : <<e>> \o <<>> = <<e>>
      OBVIOUS
    <3> QED BY <3>1, Zenon
  <2>3. live' = live /\ Emit(1)
    BY <1>3
  <2>4. Leads(a, <<Other>>, b)
    BY <1>2, <2>3
  <2> HIDE DEF LifecycleEvents
  <2>5. Told(<<Other>> \o DepthEvent, reserved, reserved)
    BY <1>1, <1>2, <2>3, <2>4, DepthAfter
  <2> QED BY <2>1, <2>2, <2>5
<1>4. CASE target = "Closed"
  <2> DEFINE es == <<Other>> \o cancels
             resting == Cardinality(DOMAIN live)
  <2>1. LifecycleEvents(s) = es \o DepthEvent
    BY <1>1, <1>4 DEF LifecycleEvents
  <2>2. live' = NoBook.live /\ Emit(1 + resting)
    BY <1>4, CancelAllEmpties DEF CloseBook, IInv
  <2>3. /\ cancels \in Seq(Event) /\ Len(cancels) = resting
        /\ Leads(a, cancels, b)
    BY <2>2, ClosingTold DEF IInv
  <2> HIDE DEF cancels, LifecycleEvents, a, b
  <2>4. es \in Seq(Event) /\ Joins(<<Other>>, cancels, es)
    BY <1>2, <2>3, Joined
  <2>5. Leads(a, es, b)
    BY <1>2, <2>3, LeadsOn
  <2>6. 1 + resting = Len(es)
    BY <1>2, <2>3, <2>4 DEF Joins
  <2> HIDE DEF es
  <2>7. Told(es \o DepthEvent, reserved, reserved)
    BY <1>1, <2>2, <2>4, <2>5, <2>6, DepthAfter DEF a, b
  <2> QED BY <2>1, <2>7
<1> QED BY <1>3, <1>4

\* What an accepted order of entry s emits.
Acknowledgement(s, in) == [kind |-> "acknowledged", order |-> in, ingress |-> s.ingress, at |-> s.at]
FinalOutcome(in) == [kind |-> "outcome", order |-> in.id, remaining |-> Outcome(in).remaining]
AcceptedEvents(s, in) == <<Acknowledgement(s, in)>> \o Executions(in) \o <<FinalOutcome(in)>> \o DepthEvent

LEMMA BatchTold ==
  ASSUME nextEvent \in Int, NEW first \in Event, NEW es \in Seq(Event), NEW last \in Event,
         NEW count, Emit(count), count = 2 + Len(es),
         NEW reserved, NEW left, NEW moved \in Int, NEW b, NEW c,
         Tells(Account(OrdersOf(live), traded, reserved), first, b), Leads(b, es, c),
         Tells(c, last, Account(OrdersOf(live'), moved, left))
  PROVE  Told(<<first>> \o es \o <<last>> \o DepthEvent, reserved, left)
<1> DEFINE one == <<first>>
           end == <<last>>
           a == Account(OrdersOf(live), traded, reserved)
           d == Account(OrdersOf(live'), moved, left)
<1>1. /\ one \in Seq(Event) /\ Len(one) = 1 /\ Leads(a, one, b)
      /\ end \in Seq(Event) /\ Len(end) = 1 /\ Leads(c, end, d)
  BY LeadsOne
<1> HIDE DEF one, end, a, d
<1> DEFINE two == one \o es
<1>2. two \in Seq(Event) /\ Joins(one, es, two) /\ Leads(a, two, c)
  BY <1>1, Joined, LeadsOn
<1> HIDE DEF two
<1> DEFINE three == two \o end
<1>3. three \in Seq(Event) /\ Joins(two, end, three) /\ Leads(a, three, d)
  BY <1>1, <1>2, Joined, LeadsOn
<1> HIDE DEF three
<1>4. count = Len(three)
  <2>1. Len(es) \in Nat
    OBVIOUS
  <2> QED BY <1>1, <1>2, <1>3, <2>1 DEF Joins
<1>5. Told(three \o DepthEvent, reserved, left)
  BY <1>3, <1>4, DepthAfter DEF a, d
<1> QED BY <1>5 DEF three, two, one, end

LEMMA FinalEvents ==
  ASSUME IInv, NEW s \in Entry, NEW in \in Incoming, NEW n, PlanOK(in, n)
  PROVE  /\ Acknowledgement(s, in) \in Event /\ FinalOutcome(in) \in Event
         /\ FinalOutcome(in).remaining = Unmatched(in, PlanMatches(in))
<1>1. Sound(Book) /\ Submittable(in) /\ in.id \in Orders
  BY IncomingFields DEF IInv, BookInv, BookOK
<1>2. WalkOK(in, Walk(in)) /\ n \in 0..Len(Walk(in))
  BY <1>1, WalkIsOK DEF Submittable, PlanOK
<1>3. LeftAfter(in, Walk(in), n) \in Int
  BY <1>1, <1>2, LeftFalls, Zenon
<1>4. Unmatched(in, PlanMatches(in)) \in Nat
  BY <1>3 DEF PlanOK
<1>5. Outcome(in).remaining = Unmatched(in, PlanMatches(in))
  BY DEF Outcome
<1>6. Acknowledgement(s, in) \in Event
  BY DEF Acknowledgement, Event, Entry
<1>7. FinalOutcome(in) \in Event
  BY <1>1, <1>4, <1>5 DEF FinalOutcome, Event
<1> QED BY <1>5, <1>6, <1>7 DEF FinalOutcome

\* Another trader's order: whatever the maker's orders lose is told.
LEMMA OtherSubmitTold ==
  ASSUME IInv, NEW s \in Entry, NEW r \in SubmitOrderRequest, r.trader # Maker, nextOrder \in Orders,
         Accept(r), traded \in Int, NEW reserved
  PROVE  Told(AcceptedEvents(s, OrderOf(r)), reserved, reserved)
<1> DEFINE in == OrderOf(r)
<1>1. in \in Incoming /\ in.id = nextOrder /\ in.trader # Maker
  BY IncomingOrder DEF OrderOf
<1>2. Submit(in) /\ Emit(2 + nextTrade' - nextTrade)
  BY DEF Accept
<1> HIDE DEF in
<1>3. BookInv /\ Sound(Book) /\ Submittable(in) /\ nextPriority \in Nat /\ nextEvent \in Int
  BY <1>1, IncomingFields, LadderAssumption DEF IInv, BookInv, BookOK
<1>4. PICK n : PlanOK(in, n)
  BY <1>3, PlanIsOK
<1>5. 2 + nextTrade' - nextTrade = 2 + n
  <2>1. nextTrade' = nextTrade + n /\ n \in Nat
    BY <1>1, <1>2, <1>3, <1>4, SubmitKeepsNumbers
  <2>2. nextTrade \in Nat
    BY <1>3, LadderAssumption DEF BookInv
  <2> QED BY <2>1, <2>2
<1>6. SubmitAccepted(in) /\ live' = Submitted(in).live
  BY <1>2, SubmitIs
<1>7. /\ Shrunk(Filled(in).live, live)
      /\ Submitted(in).live
           = IF Rests(in, PlanMatches(in))
             THEN [x \in DOMAIN Filled(in).live \cup {in.id} |->
                     IF x = in.id THEN NewNode(in) ELSE Filled(in).live[x]]
             ELSE Filled(in).live
  BY <1>1, <1>3, <1>4, <1>6, SubmittedIsOK DEF BookInv
<1>8. in.id \notin DOMAIN Filled(in).live
  BY <1>6, <1>7 DEF SubmitAccepted, Shrunk
<1> DEFINE es == Executions(in)
           filled == Filled(in).live
<1>9. /\ es \in Seq(Event) /\ Len(es) = n
      /\ \E moved \in Int : Leads(Account(OrdersOf(live), traded, reserved), es,
                                  Account(OrdersOf(filled), moved, reserved))
  BY <1>1, <1>3, <1>4, ExecutionsTold
<1> HIDE DEF es, filled
<1>10. PICK moved \in Int : Leads(Account(OrdersOf(live), traded, reserved), es,
                                  Account(OrdersOf(filled), moved, reserved))
  BY <1>9
<1>11. NewNode(in).trader # Maker
  BY <1>1 DEF NewNode
<1>12. /\ \A o : (o \in DOMAIN filled /\ filled[o].trader = Maker) <=> (o \in DOMAIN live' /\ live'[o].trader = Maker)
       /\ \A o \in DOMAIN live' : live'[o].trader = Maker => live'[o].side = filled[o].side /\ live'[o].remaining = filled[o].remaining
       /\ ~(in.id \in DOMAIN live' /\ live'[in.id].trader = Maker)
  <2>1. CASE Rests(in, PlanMatches(in))
    <3>1. live' = [x \in DOMAIN filled \cup {in.id} |-> IF x = in.id THEN NewNode(in) ELSE filled[x]]
      BY <1>6, <1>7, <2>1 DEF filled
    <3> QED BY <1>8, <1>11, <3>1 DEF filled
  <2>2. CASE ~Rests(in, PlanMatches(in))
    <3>1. live' = filled
      BY <1>6, <1>7, <2>2 DEF filled
    <3> QED BY <1>8, <3>1 DEF filled
  <2> QED BY <2>1, <2>2
<1>13. OrdersOf(filled) = OrdersOf(live') /\ in.id \notin DOMAIN OrdersOf(live')
  <2>1. OrdersOf(filled) = OrdersOf(live')
    BY <1>12, OrdersKept
  <2>2. in.id \notin DOMAIN OrdersOf(live')
    BY <1>12 DEF OrdersOf
  <2> QED BY <2>1, <2>2
<1> DEFINE ack == Acknowledgement(s, in)
           final == FinalOutcome(in)
           a == Account(OrdersOf(live), traded, reserved)
           b == Account(OrdersOf(live'), moved, reserved)
<1>14. ack \in Event /\ final \in Event
  BY <1>1, <1>4, FinalEvents
<1>15. Tells(a, ack, a)
  BY <1>1 DEF Acknowledgement, Tells, TellsAcknowledged
<1>16. Tells(b, final, b)
  BY <1>13, AccountParts DEF FinalOutcome, Tells, TellsOutcome
<1>17. Leads(a, es, b)
  BY <1>10, <1>13
<1> HIDE DEF ack, final
<1>18. Told(<<ack>> \o es \o <<final>> \o DepthEvent, reserved, reserved)
  <2>1. 2 + n = 2 + Len(es) /\ Emit(2 + n)
    BY <1>2, <1>5, <1>9
  <2> QED BY <1>3, <1>9, <1>14, <1>15, <1>16, <1>17, <2>1, BatchTold
<1> QED BY <1>18 DEF AcceptedEvents, ack, final, es, in

\* The maker's order: its reservation becomes the order that rests.
LEMMA OwnSubmitTold ==
  ASSUME IInv, NEW s \in Entry, NEW r \in SubmitOrderRequest, r.trader = Maker, r.post_only, ~Invalid(r),
         nextOrder \in Orders, Accept(r), traded \in Int,
         NEW reserved, NEW i \in DOMAIN reserved, reserved[i].ingress = s.ingress,
         reserved[i].side = r.side, reserved[i].quantity = r.quantity
  PROVE  Told(AcceptedEvents(s, OrderOf(r)), reserved, Risk!Without(reserved, i))
<1> DEFINE in == OrderOf(r)
           v == RiskOrder(in.id, in.side, in.quantity)
           l == Risk!With(OrdersOf(live), in.id, v)
           left == Risk!Without(reserved, i)
<1>1. /\ in \in Incoming /\ in.id = nextOrder /\ in.trader = Maker /\ in.side = r.side /\ in.quantity = r.quantity
      /\ in.quantity \in Nat \ {0}
  BY IncomingOrder, IncomingFields DEF OrderOf
<1>2. Submit(in) /\ Emit(2 + nextTrade' - nextTrade)
  BY DEF Accept
<1>3. /\ PlanOK(in, 0) /\ PlanMatches(in).matches = <<>> /\ Unmatched(in, PlanMatches(in)) = r.quantity
      /\ Rests(in, PlanMatches(in))
  BY PostOnlyRests
<1> HIDE DEF in
<1>4. BookInv /\ nextPriority \in Nat /\ nextEvent \in Int /\ nextTrade \in Nat
  BY LadderAssumption DEF IInv, BookInv
<1>5. SubmitAccepted(in) /\ live' = Submitted(in).live
  BY <1>2, SubmitIs
<1>6. /\ MatchedOK(in, 0, Filled(in))
      /\ Submitted(in).live
           = IF Rests(in, PlanMatches(in))
             THEN [x \in DOMAIN Filled(in).live \cup {in.id} |->
                     IF x = in.id THEN NewNode(in) ELSE Filled(in).live[x]]
             ELSE Filled(in).live
  BY <1>1, <1>3, <1>4, <1>5, SubmittedIsOK DEF BookInv
<1>7. Filled(in).live = live
  BY <1>6, BookParts DEF MatchedOK
<1>8. live' = [x \in DOMAIN live \cup {in.id} |-> IF x = in.id THEN NewNode(in) ELSE live[x]]
  BY <1>3, <1>5, <1>6, <1>7
<1>9. /\ in.id \notin DOMAIN live /\ NewNode(in).trader = Maker /\ NewNode(in).side = in.side
      /\ NewNode(in).remaining = in.quantity
  BY <1>1, <1>3, <1>5 DEF SubmitAccepted, NewNode
<1>10. OrdersOf(live') = l
  <2> DEFINE f == OrdersOf(live)
             D == {x \in DOMAIN live' : live'[x].trader = Maker}
  <2>1. D = DOMAIN f \cup {in.id}
    BY <1>8, <1>9 DEF OrdersOf
  <2>2. \A x \in DOMAIN f : x # in.id /\ RiskOrder(x, live'[x].side, live'[x].remaining) = f[x]
    BY <1>8, <1>9 DEF OrdersOf
  <2>3. RiskOrder(in.id, live'[in.id].side, live'[in.id].remaining) = v
    BY <1>8, <1>9
  <2>4. OrdersOf(live') = [x \in D |-> RiskOrder(x, live'[x].side, live'[x].remaining)]
    BY DEF OrdersOf
  <2> HIDE DEF f, D, v
  <2>5. OrdersOf(live') = [x \in DOMAIN f \cup {in.id} |-> IF x = in.id THEN v ELSE f[x]]
    BY <2>1, <2>2, <2>3, <2>4
  <2> QED BY <2>5 DEF Risk!With, f
<1>11. in.id \notin DOMAIN OrdersOf(live)
  BY <1>9 DEF OrdersOf
<1>12. Executions(in) = <<>>
  <2>1. DOMAIN PlanMatches(in).matches = {}
    BY <1>3
  <2> QED BY <2>1 DEF Executions
<1>13. Emit(2 + 0)
  <2>1. nextTrade' = nextTrade + 0
    BY <1>1, <1>2, <1>3, <1>4, SubmitKeepsNumbers
  <2>2. 2 + nextTrade' - nextTrade = 2 + 0
    BY <1>4, <2>1
  <2> QED BY <1>2, <2>2
<1> DEFINE ack == Acknowledgement(s, in)
           final == FinalOutcome(in)
           a == Account(OrdersOf(live), traded, reserved)
           b == Account(l, traded, left)
<1>14. ack \in Event /\ final \in Event /\ final.remaining = in.quantity
  BY <1>1, <1>3, FinalEvents
<1> HIDE DEF left
<1>15. Tells(a, ack, b)
  <2>1. ack.kind = "acknowledged" /\ ack.order = in /\ ack.ingress = s.ingress
    BY DEF Acknowledgement
  <2> HIDE DEF ack
  <2>2. /\ a.live = OrdersOf(live) /\ a.net = traded /\ a.pending = reserved
    BY AccountParts
  <2> HIDE DEF a
  <2>3. TellsAcknowledged(a, ack, b)
    BY <1>1, <1>11, <2>1, <2>2 DEF TellsAcknowledged, left
  <2> QED BY <2>1, <2>3 DEF Tells
<1>16. Tells(b, final, b)
  <2>1. final.kind = "outcome" /\ final.order = in.id
    BY DEF FinalOutcome
  <2>2. in.id \in DOMAIN l /\ l[in.id] = v /\ l = [x \in DOMAIN l |-> l[x]]
    BY DEF Risk!With
  <2>3. v.quantity = in.quantity /\ [v EXCEPT !.quantity = in.quantity] = v
    BY DEF RiskOrder
  <2>4. b.live = l /\ b.net = traded /\ b.pending = left /\ b = Account(l, traded, left)
    BY AccountParts
  <2> HIDE DEF l, v, final, b
  <2>5. [l EXCEPT ![in.id].quantity = in.quantity] = l
    <3>1. [l EXCEPT ![in.id].quantity = in.quantity]
            = [x \in DOMAIN l |-> IF x = in.id THEN [l[in.id] EXCEPT !.quantity = in.quantity] ELSE l[x]]
      OBVIOUS
    <3> QED BY <2>2, <2>3, <3>1
  <2>6. Lowered(l, in.id, in.quantity) = l
    BY <1>1, <2>5 DEF Lowered
  <2>7. TellsOutcome(b, final, b)
    BY <1>1, <1>14, <2>1, <2>2, <2>3, <2>4, <2>6 DEF TellsOutcome
  <2> QED BY <2>1, <2>7 DEF Tells
<1> HIDE DEF ack, final, l
<1>17. Told(<<ack>> \o <<>> \o <<final>> \o DepthEvent, reserved, left)
  <2>1. <<>> \in Seq(Event) /\ Len(<<>>) = 0 /\ 2 + 0 = 2 + Len(<<>>)
    OBVIOUS
  <2>2. Leads(b, <<>>, b)
    BY LeadsNowhere
  <2>3. Tells(b, final, Account(OrdersOf(live'), traded, left))
    BY <1>10, <1>16
  <2> HIDE DEF b
  <2> QED BY <1>4, <1>13, <1>14, <1>15, <2>1, <2>2, <2>3, BatchTold
<1> QED BY <1>12, <1>17 DEF AcceptedEvents, ack, final, left, in

LEMMA CommandFields ==
  ASSUME NEW c \in Command
  PROVE  /\ c.kind \in {"submit", "cancel", "lifecycle"}
         /\ c.kind = "submit" => c.request \in SubmitOrderRequest
         /\ c.kind = "cancel" => c.trader \in Traders /\ c.order \in Orders
         /\ c.kind = "lifecycle" => c.target \in Statuses
BY DEF Command

\* What executing the next command emits is told to the account, and uses up
\* the command's reservation.
LEMMA ProcessTold ==
  ASSUME IInv, QueueOK, queue # <<>>, traded \in Int, Process(Head(queue)),
         NEW reserved, Proved!IsMap(reserved), Reserved(reserved, queue)
  PROVE  /\ ExchangeNext
         /\ \E batch : /\ events' = events \o batch
                       /\ Told(batch, reserved, WithoutIngress(reserved, Head(queue).ingress))
<1> DEFINE s == Head(queue)
           left == WithoutIngress(reserved, s.ingress)
<1>1. s \in Entry /\ s.command \in Command /\ Fitting(s.command)
  BY TakenFromQueue DEF Entry
<1>2. /\ ~MakerSubmission(s.command) => left = reserved
      /\ MakerSubmission(s.command) =>
           \E i \in DOMAIN reserved :
             /\ reserved[i].ingress = s.ingress
             /\ reserved[i].side = s.command.request.side
             /\ reserved[i].quantity = s.command.request.quantity
             /\ left = Risk!Without(reserved, i)
  BY ReservationUsed
<1>3. Process(s)
  OBVIOUS
<1>4. nextOrder \in Nat
  BY DEF IInv, OrderNumbers
<1> HIDE DEF s, left
<1>5. Reject => Told(<<Rejected(s)>>, reserved, left)
  BY <1>1, RejectTold DEF left
<1>6. CASE s.command.kind = "submit"
  <2> DEFINE r == s.command.request
  <2>1. r \in SubmitOrderRequest /\ ProcessSubmit(r) /\ events' = events \o SubmitEvents(s)
    BY <1>1, <1>3, <1>6, CommandFields DEF Process
  <2>2. Reject \/ (nextOrder \in Orders /\ ~Invalid(r) /\ Accept(r))
    BY <2>1, Zenon DEF ProcessSubmit
  <2>3. ExchangeNext
    BY <2>1, Zenon DEF ExchangeNext
  <2>4. CASE Reject
    <3>1. nextOrder' = nextOrder
      BY <2>4 DEF Reject
    <3>2. SubmitEvents(s) = <<Rejected(s)>>
      BY <3>1 DEF SubmitEvents
    <3> QED BY <1>5, <2>1, <2>3, <2>4, <3>2, Zenon DEF s, left
  <2>5. CASE nextOrder \in Orders /\ ~Invalid(r) /\ Accept(r)
    <3>1. nextOrder' # nextOrder
      BY <1>4, <2>5 DEF Accept
    <3>2. SubmitEvents(s) = AcceptedEvents(s, OrderOf(r))
      BY <3>1 DEF SubmitEvents, AcceptedEvents, Acknowledgement, Executions, FinalOutcome
    <3>3. Told(AcceptedEvents(s, OrderOf(r)), reserved, left)
      <4>1. CASE r.trader # Maker
        <5>1. left = reserved
          BY <1>2, <4>1 DEF MakerSubmission
        <5>2. Told(AcceptedEvents(s, OrderOf(r)), reserved, reserved)
          BY <1>1, <2>1, <2>5, <4>1, OtherSubmitTold
        <5> QED BY <5>1, <5>2
      <4>2. CASE r.trader = Maker
        <5>1. MakerSubmission(s.command) /\ r.post_only
          BY <1>1, <1>6, <4>2 DEF MakerSubmission, Fitting
        <5>2. PICK i \in DOMAIN reserved :
                /\ reserved[i].ingress = s.ingress /\ reserved[i].side = r.side
                /\ reserved[i].quantity = r.quantity /\ left = Risk!Without(reserved, i)
          BY <1>2, <5>1
        <5>3. Told(AcceptedEvents(s, OrderOf(r)), reserved, Risk!Without(reserved, i))
          <6> HIDE DEF r
          <6> QED BY <1>1, <2>1, <2>5, <4>2, <5>1, <5>2, OwnSubmitTold
        <5> QED BY <5>2, <5>3
      <4> QED BY <4>1, <4>2
    <3> QED BY <2>1, <2>3, <3>2, <3>3, Zenon DEF s, left
  <2> QED BY <2>2, <2>4, <2>5
<1>7. CASE s.command.kind = "cancel"
  <2> DEFINE o == s.command.order
             t == s.command.trader
  <2>1. t \in Traders /\ o \in Orders /\ ProcessCancel(t, o) /\ events' = events \o CancelEvents(s)
    BY <1>1, <1>3, <1>7, CommandFields DEF Process
  <2>2. ExchangeNext
    BY <2>1, Zenon DEF ExchangeNext
  <2>3. Reject \/ (Cancel(o) /\ Emit(1))
    BY <2>1, Zenon DEF ProcessCancel
  <2>4. left = reserved
    BY <1>2, <1>7 DEF MakerSubmission
  <2>5. CASE Reject
    <3>1. live' = live
      BY <2>5 DEF Reject, vars
    <3>2. CancelEvents(s) = <<Rejected(s)>>
      BY <3>1 DEF CancelEvents
    <3> QED BY <1>5, <2>1, <2>2, <2>5, <3>2, Zenon DEF s, left
  <2>6. CASE Cancel(o) /\ Emit(1)
    <3>1. live' # live /\ Told(<<Cancelled(o)>> \o DepthEvent, reserved, reserved)
      BY <2>6, CancelTold
    <3>2. CancelEvents(s) = <<Cancelled(o)>> \o DepthEvent
      BY <3>1 DEF CancelEvents
    <3>3. Told(CancelEvents(s), reserved, left)
      BY <2>4, <3>1, <3>2
    <3> QED BY <2>1, <2>2, <3>3, Zenon DEF s, left
  <2> QED BY <2>3, <2>5, <2>6
<1>8. CASE s.command.kind = "lifecycle"
  <2> DEFINE target == s.command.target
  <2>1. target \in Statuses /\ ProcessLifecycle(target) /\ events' = events \o LifecycleEvents(s)
    BY <1>1, <1>3, <1>8, CommandFields DEF Process
  <2>2. ExchangeNext
    BY <2>1, Zenon DEF ExchangeNext
  <2>3. \/ Reject
        \/ /\ ValidTransition(status, target) /\ status' = target
           /\ IF target = "Closed" THEN CloseBook ELSE UNCHANGED <<live, levels>> /\ Emit(1)
    BY <2>1, Zenon DEF ProcessLifecycle
  <2>4. left = reserved
    BY <1>2, <1>8 DEF MakerSubmission
  <2>5. CASE Reject
    <3>1. status' = status
      BY <2>5 DEF Reject
    <3>2. LifecycleEvents(s) = <<Rejected(s)>>
      BY <3>1 DEF LifecycleEvents
    <3> QED BY <1>5, <2>1, <2>2, <2>5, <3>2, Zenon DEF s, left
  <2>6. CASE /\ ValidTransition(status, target) /\ status' = target
             /\ IF target = "Closed" THEN CloseBook ELSE UNCHANGED <<live, levels>> /\ Emit(1)
    <3>1. Told(LifecycleEvents(s), reserved, reserved)
      <4> HIDE DEF target
      <4> QED BY <2>1, <2>6, LifecycleTold
    <3> QED BY <2>1, <2>2, <2>4, <3>1, Zenon DEF s, left
  <2> QED BY <2>3, <2>5, <2>6
<1> QED BY <1>1, <1>6, <1>7, <1>8, CommandFields

-----------------------------------------------------------------------------
(* 4. The account's steps. *)

\* A step of one instance is a step of the other.
LEMMA SameSteps == [Risk!Next]_(Risk!vars) => [Proved!Next]_(Proved!vars)
<1> SUFFICES ASSUME [Risk!Next]_(Risk!vars) PROVE [Proved!Next]_(Proved!vars)
  OBVIOUS
<1>1. Risk!Sides = Proved!Sides
  BY DEF Risk!Sides, Proved!Sides
<1>2. ASSUME NEW i \in 1..(2 * (Horizon + 1)), NEW s \in Risk!Sides, NEW q \in Nat, NEW p \in {TRUE},
             Risk!Admit(i, s, q, p)
      PROVE  Proved!Next
  <2>1. Risk!IntentAcceptable(i, q) => Proved!IntentAcceptable(i, q)
    <3>1. \A S : Risk!Cardinality(S) = Proved!Cardinality(S)
      BY DEF Risk!Cardinality, Proved!Cardinality, Risk!IsFiniteSet, Proved!IsFiniteSet
    <3> QED BY <3>1 DEF Risk!IntentAcceptable, Proved!IntentAcceptable
  <2>2. Risk!ExposureAcceptable(s, q) => Proved!ExposureAcceptable(s, q)
    BY SameMaps DEF Risk!ExposureAcceptable, Proved!ExposureAcceptable, Risk!SideLimit, Proved!SideLimit,
       Risk!WithinPosition, Proved!WithinPosition
  <2>3. riskPending' = Proved!With(riskPending, i, Proved!Reservation(i, s, q, p))
    BY <1>2, SameMaps DEF Risk!Admit, Risk!Reservation, Proved!Reservation
  <2>4. Proved!Admit(i, s, q, p)
    BY <1>2, <2>1, <2>2, <2>3 DEF Risk!Admit, Proved!Admit
  <2> QED BY <1>1, <2>4, Zenon DEF Proved!Next
<1>3. ASSUME NEW i \in 1..(2 * (Horizon + 1)), NEW g \in Nat \ {0}, Risk!BindIngress(i, g) PROVE Proved!Next
  <2>1. Proved!BindIngress(i, g)
    BY <1>3 DEF Risk!BindIngress, Proved!BindIngress
  <2> QED BY <2>1, Zenon DEF Proved!Next
<1>4. ASSUME NEW seq \in 1..EventCapacity, Risk!ApplyEvent(seq) PROVE Proved!Next
  <2>0. Risk!Contiguous(seq) <=> Proved!Contiguous(seq)
    BY DEF Risk!Contiguous, Proved!Contiguous
  <2>1. ASSUME NEW o \in Orders, NEW g \in Nat \ {0}, NEW s \in Risk!Sides, NEW q \in Nat,
               Risk!ApplyAcknowledged(seq, o, g, s, q)
        PROVE  Proved!ApplyEvent(seq)
    <3>1. \A i : Risk!Answers(i, o, g, s, q) <=> Proved!Answers(i, o, g, s, q)
      BY DEF Risk!Answers, Proved!Answers
    <3>2. Proved!ApplyAcknowledged(seq, o, g, s, q)
      BY <2>0, <2>1, <3>1, SameMaps DEF Risk!ApplyAcknowledged, Proved!ApplyAcknowledged
    <3> QED BY <1>1, <3>2, Zenon DEF Proved!ApplyEvent
  <2>2. ASSUME NEW o \in Orders, NEW s \in Risk!Sides, NEW q \in Nat, Risk!ApplyFill(seq, o, s, q)
        PROVE  Proved!ApplyEvent(seq)
    <3>1. Proved!ApplyFill(seq, o, s, q)
      BY <2>0, <2>2, SameMaps DEF Risk!ApplyFill, Proved!ApplyFill, Risk!FillAcceptable, Proved!FillAcceptable
    <3> QED BY <1>1, <3>1, Zenon DEF Proved!ApplyEvent
  <2>3. ASSUME NEW o \in Orders, NEW r \in Nat, Risk!ApplyOutcome(seq, o, r)
        PROVE  Proved!ApplyEvent(seq)
    <3>1. Proved!ApplyOutcome(seq, o, r)
      BY <2>0, <2>3, SameMaps DEF Risk!ApplyOutcome, Proved!ApplyOutcome, Risk!OutcomeAcceptable, Proved!OutcomeAcceptable
    <3> QED BY <3>1, Zenon DEF Proved!ApplyEvent
  <2>4. ASSUME NEW o \in Orders, Risk!ApplyCancellation(seq, o) PROVE Proved!ApplyEvent(seq)
    <3>1. Proved!ApplyCancellation(seq, o)
      BY <2>0, <2>4, SameMaps DEF Risk!ApplyCancellation, Proved!ApplyCancellation
    <3> QED BY <3>1, Zenon DEF Proved!ApplyEvent
  <2>5. ASSUME NEW g \in Nat \ {0}, Risk!ApplyRejected(seq, g) PROVE Proved!ApplyEvent(seq)
    <3>1. Proved!ApplyRejected(seq, g)
      BY <2>0, <2>5 DEF Risk!ApplyRejected, Proved!ApplyRejected
    <3> QED BY <3>1, Zenon DEF Proved!ApplyEvent
  <2>6. ASSUME Risk!ApplyOther(seq) PROVE Proved!ApplyEvent(seq)
    BY <2>0, <2>6 DEF Risk!ApplyOther, Proved!ApplyOther, Proved!ApplyEvent
  <2>7. Proved!ApplyEvent(seq)
    BY <1>4, <2>1, <2>2, <2>3, <2>4, <2>5, <2>6, Zenon DEF Risk!ApplyEvent
  <2> QED BY <2>7, Zenon DEF Proved!Next
<1>5. ASSUME NEW active \in BOOLEAN, Risk!SetKillSwitch(active) PROVE Proved!Next
  <2>1. Proved!SetKillSwitch(active)
    BY <1>5 DEF Risk!SetKillSwitch, Proved!SetKillSwitch
  <2> QED BY <2>1, Zenon DEF Proved!Next
<1>6. UNCHANGED Risk!vars => UNCHANGED Proved!vars
  BY DEF Risk!vars, Proved!vars
<1> QED BY <1>2, <1>3, <1>4, <1>5, <1>6, Zenon DEF Risk!Next

\* The account within its limits, which every step of it preserves.
AccountOK == Proved!TypeOK /\ Proved!Limits

LEMMA AccountStays ==
  ASSUME AccountOK, [Risk!Next]_(Risk!vars)
  PROVE  AccountOK'
<1>1. [Proved!Next]_(Proved!vars)
  BY SameSteps
<1>2. Proved!TypeOK'
  BY <1>1, Proved!TypeStep, AccountLimits, AccountIdentifiers, AccountDocuments DEF AccountOK
<1>3. Proved!Limits'
  BY <1>1, <1>2, Proved!LimitsStep, AccountLimits, AccountIdentifiers, AccountDocuments DEF AccountOK
<1> QED BY <1>2, <1>3 DEF AccountOK

LEMMA AccountStarts ==
  ASSUME Risk!Init
  PROVE  AccountOK
<1>1. /\ riskLive = Risk!NoOrders /\ riskPending = Risk!NoOrders /\ watermark = 0 /\ position = 0 /\ kill = FALSE
  BY DEF Risk!Init
<1>2. Proved!Init
  BY <1>1 DEF Proved!Init, Risk!NoOrders, Proved!NoOrders
<1>3. Proved!Limits
  BY <1>2, Proved!InitLimits, AccountLimits, AccountIdentifiers, AccountDocuments
<1>4. Proved!TypeOK
  <2>1. DOMAIN Risk!NoOrders = {} /\ Proved!IsMap(Risk!NoOrders)
    BY DEF Risk!NoOrders, Proved!IsMap
  <2>2. Proved!OrderMap(riskLive, Orders, Proved!LiveRiskOrder)
    BY <1>1, <2>1 DEF Proved!OrderMap
  <2>3. Proved!OrderMap(riskPending, 1..(2 * (Horizon + 1)), Proved!PendingRiskOrder)
    BY <1>1, <2>1 DEF Proved!OrderMap
  <2>4. watermark \in Nat /\ position \in Int
    BY <1>1
  <2>5. kill \in BOOLEAN
    BY <1>1, Zenon
  <2> QED BY <2>2, <2>3, <2>4, <2>5, Zenon DEF Proved!TypeOK
<1> QED BY <1>3, <1>4 DEF AccountOK

LEMMA AccountIsFair ==
  ASSUME AccountOK
  PROVE  Fair(Current) /\ Proved!IngressUnique /\ LiveMap(riskLive) /\ PendingMap(riskPending) /\ watermark \in Nat
<1>1. LiveMap(riskLive) /\ PendingMap(riskPending) /\ position \in Int /\ watermark \in Nat /\ Proved!IngressUnique
  BY Zenon DEF AccountOK, Proved!TypeOK, Proved!Limits, LiveMap, PendingMap
<1>2. /\ Current = Account(Current.live, Current.net, Current.pending)
      /\ Current.live = riskLive /\ Current.net = position /\ Current.pending = riskPending
  BY AccountParts DEF Current
<1>3. Fair(Current)
  BY <1>1, <1>2, Zenon DEF Fair
<1> QED BY <1>1, <1>3

\* Consuming an event is one of the projection's steps.
LEMMA ApplyIsAStep ==
  ASSUME NEW e \in Event, Apply(e), nextEvent \in 1..(EventCapacity + 1), Len(events) \in Nat \ {0},
         watermark \in Nat
  PROVE  Risk!Next /\ watermark' = watermark + 1 /\ Sequence = watermark + 1
<1>1. Risk!Sides = Sides
  BY DEF Risk!Sides, Sides
<1> DEFINE seq == Sequence
<1>2. \/ /\ e.kind = "acknowledged"
         /\ Risk!ApplyOther(seq) \/ Risk!ApplyAcknowledged(seq, e.order.id, e.ingress, e.order.side, e.order.quantity)
      \/ e.kind = "executed" /\ (Risk!ApplyOther(seq) \/ (e.order # 0 /\ Risk!ApplyFill(seq, e.order, e.side, e.quantity)))
      \/ e.kind = "outcome" /\ Risk!ApplyOutcome(seq, e.order, e.remaining)
      \/ e.kind = "rejected" /\ Risk!ApplyRejected(seq, e.ingress)
      \/ e.kind = "cancelled" /\ Risk!ApplyCancellation(seq, e.order)
      \/ e.kind = "other" /\ Risk!ApplyOther(seq)
  BY Zenon DEF Apply, ApplyAcknowledged, ApplyExecuted
<1>3. Risk!Contiguous(seq)
  BY <1>2, Zenon DEF Risk!ApplyOther, Risk!ApplyAcknowledged, Risk!ApplyFill, Risk!ApplyOutcome, Risk!ApplyRejected,
                     Risk!ApplyCancellation
<1>4. seq = watermark + 1 /\ watermark' = watermark + 1
  BY <1>3 DEF Risk!Contiguous
<1>5. seq \in 1..EventCapacity
  <2>1. seq <= EventCapacity
    BY ExchangeAssumption DEF Sequence
  <2>2. EventCapacity \in Nat
    BY ExchangeAssumption
  <2> HIDE DEF seq
  <2> QED BY <1>4, <2>1, <2>2
<1> HIDE DEF seq
<1>6. Risk!ApplyEvent(seq)
  <2>1. CASE Risk!ApplyOther(seq)
    BY <2>1 DEF Risk!ApplyEvent
  <2>2. CASE e.kind = "acknowledged" /\ Risk!ApplyAcknowledged(seq, e.order.id, e.ingress, e.order.side, e.order.quantity)
    <3>1. e.order \in Incoming /\ e.ingress \in Nat \ {0}
      BY <2>2, EventFields
    <3>2. e.order.id \in Orders /\ e.order.side \in Sides /\ e.order.quantity \in Nat
      BY <3>1, IncomingFields
    <3> QED BY <1>1, <2>2, <3>1, <3>2, Zenon DEF Risk!ApplyEvent
  <2>3. CASE e.kind = "executed" /\ e.order # 0 /\ Risk!ApplyFill(seq, e.order, e.side, e.quantity)
    <3>1. e.order \in Orders /\ e.side \in Sides /\ e.quantity \in Nat
      BY <2>3, EventFields
    <3> QED BY <1>1, <2>3, <3>1, Zenon DEF Risk!ApplyEvent
  <2>4. CASE e.kind = "outcome" /\ Risk!ApplyOutcome(seq, e.order, e.remaining)
    <3>1. e.order \in Orders /\ e.remaining \in Nat
      BY <2>4, EventFields
    <3> QED BY <2>4, <3>1, Zenon DEF Risk!ApplyEvent
  <2>5. CASE e.kind = "rejected" /\ Risk!ApplyRejected(seq, e.ingress)
    <3>1. e.ingress \in Nat \ {0}
      BY <2>5, EventFields
    <3> QED BY <2>5, <3>1, Zenon DEF Risk!ApplyEvent
  <2>6. CASE e.kind = "cancelled" /\ Risk!ApplyCancellation(seq, e.order)
    <3>1. e.order \in Orders
      BY <2>6, EventFields
    <3> QED BY <2>6, <3>1, Zenon DEF Risk!ApplyEvent
  <2> QED BY <1>2, <2>1, <2>2, <2>3, <2>4, <2>5, <2>6
<1>7. Risk!Next
  BY <1>5, <1>6, Zenon DEF Risk!Next
<1> QED BY <1>4, <1>7 DEF seq

-----------------------------------------------------------------------------
(* 5. What the maker quotes. *)

LEMMA PriceExtremes ==
  ASSUME NEW S, S \subseteq Prices, S # {}
  PROVE  Max(S) \in S /\ Min(S) \in S /\ \A y \in S : Max(S) >= y /\ Min(S) <= y
<1> DEFINE R == {e \in S \X S : e[1] < e[2]}
           n == Cardinality(S)
           l == InOrder(S, R)
<1>1. IsFiniteSet(S) /\ \A x \in S : x \in Nat
  BY LadderAssumption, FS_Subset
<1>2. StrictlyOrders(S, R)
  BY <1>1 DEF StrictlyOrders
<1>3. n \in Nat /\ Lists(l, S, R)
  BY <1>1, <1>2, InOrderLists
<1>4. \A x, y : <<x, y>> \in R => x < y
  OBVIOUS
<1> HIDE DEF R, n, l
<1>5. /\ \A k \in 1..n : l[k] \in S
      /\ \A x \in S : \E k \in 1..n : l[k] = x
      /\ \A i, j \in 1..n : i < j => <<l[i], l[j]>> \in R
  BY <1>3 DEF Lists, n
<1>6. \A i, j \in 1..n : i < j => l[i] < l[j]
  BY <1>4, <1>5
<1>7. 1 \in 1..n /\ n \in 1..n
  <2>1. PICK k \in 1..n : TRUE
    BY <1>5
  <2> QED BY <1>3, <2>1
<1>8. \A y \in S : l[n] >= y /\ l[1] <= y
  <2> SUFFICES ASSUME NEW y \in S PROVE l[n] >= y /\ l[1] <= y
    OBVIOUS
  <2>1. PICK k \in 1..n : l[k] = y
    BY <1>5
  <2>2. k < n \/ k = n
    BY <1>3
  <2>3. 1 < k \/ k = 1
    BY <1>3
  <2>4. l[k] \in Nat /\ l[n] \in Nat /\ l[1] \in Nat
    BY <1>1, <1>5, <1>7
  <2>5. k < n => l[k] < l[n]
    BY <1>6, <1>7
  <2>6. 1 < k => l[1] < l[k]
    BY <1>6, <1>7
  <2> QED BY <2>1, <2>2, <2>3, <2>4, <2>5, <2>6
<1>9. (\E x \in S : \A y \in S : x >= y) /\ \E x \in S : \A y \in S : x <= y
  BY <1>5, <1>7, <1>8
<1>10. Max(S) \in S /\ \A y \in S : Max(S) >= y
  BY <1>9 DEF Max
<1>11. Min(S) \in S /\ \A y \in S : Min(S) <= y
  BY <1>9 DEF Min
<1> QED BY <1>10, <1>11

LEMMA PairExtremes ==
  ASSUME NEW a \in Int, NEW b \in Int
  PROVE  Max({a, b}) \in {a, b} /\ Min({a, b}) \in {a, b} /\ Max({a, b}) >= b /\ Min({a, b}) <= b
<1>1. (\E x \in {a, b} : \A y \in {a, b} : x >= y) /\ \E x \in {a, b} : \A y \in {a, b} : x <= y
  <2>1. CASE a >= b
    BY <2>1
  <2>2. CASE ~(a >= b)
    BY <2>2
  <2> QED BY <2>1, <2>2
<1>2. Max({a, b}) \in {a, b} /\ \A y \in {a, b} : Max({a, b}) >= y
  BY <1>1 DEF Max
<1>3. Min({a, b}) \in {a, b} /\ \A y \in {a, b} : Min({a, b}) <= y
  BY <1>1 DEF Min
<1> QED BY <1>2, <1>3

LEMMA ClampIsNumber ==
  ASSUME NEW tick \in Int
  PROVE  Clamp(tick) \in Int
<1>1. MaxTick \in Int /\ 0 \in Int
  BY MakerAssumption
<1>2. Min({MaxTick, tick}) \in Int
  <2>1. Min({MaxTick, tick}) \in {MaxTick, tick}
    BY <1>1, PairExtremes
  <2> QED BY <1>1, <2>1
<1>3. Max({0, Min({MaxTick, tick})}) \in {0, Min({MaxTick, tick})}
  BY <1>1, <1>2, PairExtremes
<1> QED BY <1>1, <1>2, <1>3 DEF Clamp

LEMMA BestIsPrice ==
  ASSUME ViewIsBook, NEW side
  PROVE  Best(side) \in Prices \cup {NoPrice}
<1> DEFINE ticks == {l[2] : l \in {m \in view : m[1] = side}}
<1>1. \A x \in view : x[2] \in Prices
  BY DisplayedLevels DEF ViewIsBook
<1>2. ticks \subseteq Prices
  BY <1>1
<1>3. Best(side) = IF ticks = {} THEN NoPrice ELSE IF side = "Buy" THEN Max(ticks) ELSE Min(ticks)
  BY DEF Best
<1> HIDE DEF ticks
<1> QED BY <1>2, <1>3, PriceExtremes

\* Whatever the account's position, the quotes are on the grid, do not cross,
\* and are behind the best displayed levels.
LEMMA QuotedPair ==
  ASSUME ViewIsBook, lastTrade \in Prices \cup {NoPrice}, source \in Sources, position \in Int
  PROVE  \/ \A side \in Sides : DesiredQuotes[side] = NoPrice
         \/ /\ DesiredQuotes["Buy"] \in Prices /\ DesiredQuotes["Sell"] \in Prices
            /\ DesiredQuotes["Buy"] < DesiredQuotes["Sell"]
            /\ Best("Sell") # NoPrice => DesiredQuotes["Buy"] < Best("Sell")
            /\ Best("Buy") # NoPrice => DesiredQuotes["Sell"] > Best("Buy")
<1>1. Prices = 0..MaxTick /\ MaxTick \in Nat /\ {BidOffset, AskOffset, MaxSkew} \subseteq Nat /\ MaxPosition \in Nat \ {0}
      /\ NoPrice \notin Prices
  BY MakerAssumption, LadderAssumption
<1>2. Best("Buy") \in Prices \cup {NoPrice} /\ Best("Sell") \in Prices \cup {NoPrice}
  BY BestIsPrice
<1>3. ReferencePrice \in Int \/ ReferencePrice = NoPrice
  <2>1. source \in {"Configured", "LastTrade", "Midpoint"} /\ Reference \in Prices
    BY MakerAssumption
  <2>2. CASE source = "Configured"
    BY <1>1, <2>1, <2>2 DEF ReferencePrice
  <2>3. CASE source = "LastTrade"
    BY <1>1, <2>1, <2>3 DEF ReferencePrice
  <2>4. CASE source = "Midpoint"
    <3> DEFINE b == Best("Buy")
               a == Best("Sell")
    <3>1. ReferencePrice = IF NoPrice \in {b, a} THEN NoPrice ELSE b + (a - b) \div 2
      BY <2>4 DEF ReferencePrice
    <3>2. b \in Prices \cup {NoPrice} /\ a \in Prices \cup {NoPrice}
      BY <1>2
    <3> HIDE DEF a, b
    <3>3. NoPrice \notin {b, a} => b \in Int /\ a \in Int
      BY <1>1, <3>2
    <3>4. \A x, y \in Int : x + (y - x) \div 2 \in Int
      OBVIOUS
    <3> QED BY <3>1, <3>3, <3>4
  <2> QED BY <2>1, <2>2, <2>3, <2>4
<1>4. ReferencePrice # NoPrice => Center \in Int
  <2> DEFINE inventory == IF position > 0 THEN position ELSE -position
             skew == (inventory * MaxSkew) \div MaxPosition
             way == IF position > 0 THEN "Buy" ELSE "Sell"
  <2>1. inventory \in Int /\ MaxSkew \in Int /\ MaxPosition \in Int /\ MaxPosition > 0
    BY <1>1
  <2>2. \A x, y \in Int : x * y \in Int
    OBVIOUS
  <2>3. \A x, y \in Int : y > 0 => x \div y \in Int
    OBVIOUS
  <2>4. Center = Clamp(ReferencePrice - Signed(way, skew))
    BY DEF Center
  <2> HIDE DEF inventory, way
  <2>5. skew \in Int
    BY <2>1, <2>2, <2>3
  <2> HIDE DEF skew
  <2>6. Signed(way, skew) \in Int
    BY <2>5 DEF Signed
  <2>7. ReferencePrice # NoPrice => ReferencePrice - Signed(way, skew) \in Int
    BY <1>3, <2>6
  <2> QED BY <2>4, <2>7, ClampIsNumber
<1>5. CASE kill \/ ReferencePrice = NoPrice
  BY <1>5 DEF DesiredQuotes, NoQuotes
<1>6. CASE ~(kill \/ ReferencePrice = NoPrice)
  <2> DEFINE bid == Clamp(Center - BidOffset)
             ask == Clamp(Center + AskOffset)
             b == Best("Buy")
             a == Best("Sell")
             behindAsk == IF a = NoPrice THEN bid ELSE Min({bid, a - 1})
             behindBid == IF b = NoPrice THEN ask ELSE Max({ask, b + 1})
  <2>1. DesiredQuotes = Pair(behindAsk, behindBid)
    BY <1>6 DEF DesiredQuotes
  <2>2. bid \in Int /\ ask \in Int
    <3>1. Center - BidOffset \in Int /\ Center + AskOffset \in Int
      BY <1>1, <1>4, <1>6
    <3> QED BY <3>1, ClampIsNumber
  <2>3. (a # NoPrice => a - 1 \in Int) /\ (b # NoPrice => b + 1 \in Int)
    BY <1>1, <1>2
  <2>7. a \in Int \/ a = NoPrice
    BY <1>1, <1>2
  <2>8. b \in Int \/ b = NoPrice
    BY <1>1, <1>2
  <2> HIDE DEF bid, ask, a, b
  <2>4. behindAsk \in Int /\ (a # NoPrice => behindAsk < a)
    <3>1. CASE a = NoPrice
      BY <2>2, <3>1
    <3>2. CASE a # NoPrice
      <4>1. Min({bid, a - 1}) \in {bid, a - 1} /\ Min({bid, a - 1}) <= a - 1
        BY <2>2, <2>3, <3>2, PairExtremes
      <4>2. behindAsk = Min({bid, a - 1}) /\ a \in Int
        BY <2>7, <3>2
      <4> QED BY <2>2, <4>1, <4>2
    <3> QED BY <3>1, <3>2
  <2>5. behindBid \in Int /\ (b # NoPrice => behindBid > b)
    <3>1. CASE b = NoPrice
      BY <2>2, <3>1
    <3>2. CASE b # NoPrice
      <4>1. Max({ask, b + 1}) \in {ask, b + 1} /\ Max({ask, b + 1}) >= b + 1
        BY <2>2, <2>3, <3>2, PairExtremes
      <4>2. behindBid = Max({ask, b + 1}) /\ b \in Int
        BY <2>8, <3>2
      <4> QED BY <2>2, <4>1, <4>2
    <3> QED BY <3>1, <3>2
  <2> HIDE DEF behindAsk, behindBid
  <2>6. CASE behindAsk < 0 \/ behindBid > MaxTick \/ behindAsk >= behindBid
    BY <2>1, <2>6 DEF Pair, NoQuotes
  <2>9. CASE ~(behindAsk < 0 \/ behindBid > MaxTick \/ behindAsk >= behindBid)
    <3>1. DesiredQuotes["Buy"] = behindAsk /\ DesiredQuotes["Sell"] = behindBid
      BY <2>1, <2>9 DEF Pair, Sides
    <3>2. behindAsk \in Prices /\ behindBid \in Prices /\ behindAsk < behindBid
      BY <1>1, <2>4, <2>5, <2>9
    <3> QED BY <2>4, <2>5, <3>1, <3>2 DEF a, b
  <2> QED BY <2>6, <2>9
<1> QED BY <1>5, <1>6

LEMMA QuotesInGrid ==
  ASSUME ViewIsBook, lastTrade \in Prices \cup {NoPrice}, source \in Sources, position \in Int, NEW side \in Sides
  PROVE  DesiredQuotes[side] \in Prices \cup {NoPrice}
BY QuotedPair DEF Sides

-----------------------------------------------------------------------------
(* 6. The inductive invariant. *)

\* The events that are not consumed lead the account to what the exchange holds
\* of the maker: its orders, what it traded, and the reservations of the
\* submissions that are queued.
Follows ==
  \E reserved : Leads(Current, events, Account(OrdersOf(live), traded, reserved)) /\ Reserved(reserved, queue)

EventsOK ==
  /\ events \in Seq(Event) /\ watermark + Len(events) = nextEvent - 1
  /\ traded \in Int /\ lastTrade \in Prices \cup {NoPrice} /\ source \in Sources

\* Intent i has been admitted for a side and not bound yet.
Unbound(i, side) ==
  i \in DOMAIN riskPending /\ riskPending[i] = Risk!Reservation(i, side, QuoteQuantity, TRUE)

\* Where a decision is: how many intents it can have used.
Stage ==
  IF phase \in {"bind Buy", "admit Sell"} THEN 1 ELSE IF phase \in {"bind Sell", "decided"} THEN 2 ELSE 0

\* Every decision uses two intents at most.
IntentsOK == decideAt \in Nat \ {0} /\ nextIntent \in Nat \ {0} /\ nextIntent < 2 * decideAt + Stage

\* A decision begins with every event consumed, and within the call.
PhaseOK ==
  /\ phase \in {"idle", "run", "admit Buy", "bind Buy", "admit Sell", "bind Sell", "decided"}
  /\ until \in 0..Horizon
  /\ phase \notin {"idle", "run"} => events = <<>> /\ decideAt <= until
  /\ IntentsOK
  /\ \A side \in Sides : phase = Binding(side) => Unbound(nextIntent - 1, side)

MakerInv ==
  IInv /\ QueueOK /\ Follows /\ AccountOK /\ EventsOK /\ PhaseOK /\ StallsOnMarketOrdersOnly

\* When every event is consumed, the account is what the exchange holds.
LEMMA QuietFollows ==
  ASSUME events = <<>>
  PROVE  Follows <=> riskLive = OrdersOf(live) /\ position = traded /\ Reserved(riskPending, queue)
<1>1. \A b : Leads(Current, events, b) <=> b = Current
  BY LeadsNowhere
<1>2. Current.live = riskLive /\ Current.net = position /\ Current.pending = riskPending
  BY AccountParts DEF Current
<1>3. ASSUME Follows PROVE riskLive = OrdersOf(live) /\ position = traded /\ Reserved(riskPending, queue)
  <2>1. PICK reserved : Leads(Current, events, Account(OrdersOf(live), traded, reserved)) /\ Reserved(reserved, queue)
    BY <1>3, Zenon DEF Follows
  <2>2. Account(OrdersOf(live), traded, reserved) = Current
    BY <1>1, <2>1, Zenon
  <2>3. OrdersOf(live) = riskLive /\ traded = position /\ reserved = riskPending
    BY <1>2, <2>2, AccountParts
  <2> QED BY <2>1, <2>3
<1>4. ASSUME riskLive = OrdersOf(live), position = traded, Reserved(riskPending, queue) PROVE Follows
  <2>1. Account(OrdersOf(live), traded, riskPending) = Current
    BY <1>4 DEF Current
  <2> QED BY <1>1, <1>4, <2>1, Zenon DEF Follows
<1> QED BY <1>3, <1>4

LEMMA ExchangeRests ==
  ASSUME IInv, UNCHANGED exchangeVars
  PROVE  IInv' /\ live' = live /\ nextEvent' = nextEvent
<1>1. IInv'
  BY InvNext
<1> QED BY <1>1 DEF exchangeVars, vars, market

LEMMA QueueRests ==
  ASSUME QueueOK, UNCHANGED <<queue, nextIngress>>
  PROVE  QueueOK'
BY DEF QueueOK

LEMMA AccountRests ==
  ASSUME UNCHANGED account
  PROVE  UNCHANGED Risk!vars /\ UNCHANGED <<watermark, position, kill, riskLive, riskPending>> /\ Current' = Current
BY DEF account, Risk!vars, Current

LEMMA FollowsRests ==
  ASSUME Follows, Current' = Current, UNCHANGED <<events, live, traded, queue>>
  PROVE  Follows'
<1>1. PICK reserved : Leads(Current, events, Account(OrdersOf(live), traded, reserved)) /\ Reserved(reserved, queue)
  BY Zenon DEF Follows
<1>2. Leads(Current', events', Account(OrdersOf(live'), traded', reserved)) /\ Reserved(reserved, queue')
  BY <1>1
<1> QED BY <1>2, Zenon DEF Follows

LEMMA EventsRest ==
  ASSUME EventsOK, UNCHANGED <<events, watermark, nextEvent, traded, lastTrade, source>>
  PROVE  EventsOK'
BY DEF EventsOK

\* The reservations of queued submissions remain so when other commands come.
LEMMA ReservedRest ==
  ASSUME QueueOK, NEW commands \in Seq(Command), NEW at \in Nat, Enqueue(commands, at),
         \A k \in 1..Len(commands) : ~MakerSubmission(commands[k]),
         NEW reserved, Reserved(reserved, queue)
  PROVE  QueueOK' /\ Reserved(reserved, queue')
<1>1. /\ QueueOK'
      /\ \A j \in DOMAIN queue : \E k \in DOMAIN queue' : queue'[k] = queue[j]
      /\ \A k \in DOMAIN queue' :
           \/ \E j \in DOMAIN queue : queue'[k] = queue[j]
           \/ \E j \in 1..Len(commands) : queue'[k] = EntryAt(commands[j], at, nextIngress + j - 1)
  BY EnqueueKeeps DEF Fitting
<1>2. ASSUME NEW k \in DOMAIN queue', MakerSubmission(queue'[k].command)
      PROVE  \E j \in DOMAIN queue : queue'[k] = queue[j]
  <2>1. \A j \in 1..Len(commands) : queue'[k] # EntryAt(commands[j], at, nextIngress + j - 1)
    BY <1>2 DEF EntryAt
  <2> QED BY <1>1, <2>1
<1>3. ASSUME NEW k \in DOMAIN queue', MakerSubmission(queue'[k].command)
      PROVE  \E i \in DOMAIN reserved :
               /\ reserved[i].ingress = queue'[k].ingress
               /\ reserved[i].side = queue'[k].command.request.side
               /\ reserved[i].quantity = queue'[k].command.request.quantity
  <2>1. PICK j \in DOMAIN queue : queue'[k] = queue[j]
    BY <1>2, <1>3
  <2> QED BY <1>3, <2>1 DEF Reserved
<1>4. ASSUME NEW i \in DOMAIN reserved, reserved[i].ingress # 0
      PROVE  \E k \in DOMAIN queue' : MakerSubmission(queue'[k].command) /\ queue'[k].ingress = reserved[i].ingress
  <2>1. PICK j \in DOMAIN queue : MakerSubmission(queue[j].command) /\ queue[j].ingress = reserved[i].ingress
    BY <1>4 DEF Reserved
  <2>2. PICK k \in DOMAIN queue' : queue'[k] = queue[j]
    BY <1>1
  <2> QED BY <2>1, <2>2
<1>5. \A i, j \in DOMAIN reserved : reserved[i].ingress = reserved[j].ingress /\ reserved[i].ingress # 0 => i = j
  BY DEF Reserved
<1> QED BY <1>1, <1>3, <1>4, <1>5, Zenon DEF Reserved

\* Commands that are not the maker's submissions can be queued at any time.
LEMMA EnqueueFollows ==
  ASSUME QueueOK, Follows, NEW commands \in Seq(Command), NEW at \in Nat, Enqueue(commands, at),
         \A k \in 1..Len(commands) : ~MakerSubmission(commands[k]),
         Current' = Current, UNCHANGED <<events, live, traded>>
  PROVE  QueueOK' /\ Follows'
<1>1. PICK reserved : Leads(Current, events, Account(OrdersOf(live), traded, reserved)) /\ Reserved(reserved, queue)
  BY Zenon DEF Follows
<1>2. QueueOK' /\ Reserved(reserved, queue')
  BY <1>1, ReservedRest
<1>3. Leads(Current', events', Account(OrdersOf(live'), traded', reserved))
  BY <1>1
<1> QED BY <1>2, <1>3, Zenon DEF Follows

\* Executing the next command of the queue.
LEMMA RunExchangeKeeps ==
  ASSUME MakerInv, RunExchange
  PROVE  MakerInv' /\ UNCHANGED Risk!vars
<1> DEFINE s == Head(queue)
<1>1. /\ IInv /\ QueueOK /\ AccountOK /\ EventsOK /\ PhaseOK
      /\ phase = "run" /\ queue # <<>> /\ Process(s) /\ Observed(s)
      /\ queue' = Tail(queue) /\ nextIngress' = nextIngress
      /\ UNCHANGED account /\ UNCHANGED control /\ lastTrade' = lastTrade
  BY DEF MakerInv, RunExchange, Due
<1>2. PICK reserved : Leads(Current, events, Account(OrdersOf(live), traded, reserved)) /\ Reserved(reserved, queue)
  BY Zenon DEF MakerInv, Follows
<1>3. events \in Seq(Event) /\ traded \in Int /\ watermark + Len(events) = nextEvent - 1
  BY <1>1 DEF EventsOK
<1>4. Fair(Account(OrdersOf(live), traded, reserved))
  BY <1>1, <1>2, <1>3, AccountIsFair, LeadsNarrower
<1>5. Proved!IsMap(reserved)
  BY <1>4, AccountParts DEF Fair, PendingMap, Proved!OrderMap
<1> DEFINE left == WithoutIngress(reserved, s.ingress)
<1> HIDE DEF s, left
<1>6. /\ ExchangeNext
      /\ \E batch : events' = events \o batch /\ Told(batch, reserved, left)
  BY <1>1, <1>2, <1>3, <1>5, ProcessTold DEF s, left
<1>7. PICK batch : events' = events \o batch /\ Told(batch, reserved, left)
  BY <1>6
<1>8. /\ batch \in Seq(Event) /\ nextEvent' = nextEvent + Len(batch)
      /\ \E moved \in Int : Leads(Account(OrdersOf(live), traded, reserved), batch, Account(OrdersOf(live'), moved, left))
  BY <1>7 DEF Told
<1>9. PICK moved \in Int : Leads(Account(OrdersOf(live), traded, reserved), batch, Account(OrdersOf(live'), moved, left))
  BY <1>8
<1>10. SubSeq(events', Len(events) + 1, Len(events')) = batch
  BY <1>3, <1>7, <1>8
<1>11. traded' = traded + MakerTraded(batch)
  BY <1>1, <1>10 DEF Observed
<1>12. MakerTraded(batch) \in Int /\ moved = traded + MakerTraded(batch)
  BY <1>3, <1>8, <1>9, NetFollows, AccountParts
<1>13. traded' = moved
  BY <1>11, <1>12
<1>14. Leads(Current, events \o batch, Account(OrdersOf(live'), moved, left))
  BY <1>2, <1>3, <1>8, <1>9, LeadsOn
<1>15. UNCHANGED Risk!vars /\ Current' = Current /\ UNCHANGED <<watermark, position, kill, riskLive, riskPending>>
  BY <1>1, AccountRests
<1>16. Reserved(left, queue')
  BY <1>1, <1>2, <1>5, ReservationUsed DEF left, s
<1>17. Follows'
  BY <1>7, <1>13, <1>14, <1>15, <1>16, Zenon DEF Follows
<1>18. IInv' /\ QueueOK'
  BY <1>1, <1>6, InvNext, TakenFromQueue
<1>19. AccountOK'
  BY <1>1, <1>15, AccountStays
<1>20. EventsOK'
  <2>1. events' \in Seq(Event) /\ Len(events') = Len(events) + Len(batch)
    BY <1>3, <1>7, <1>8
  <2>2. watermark \in Nat /\ nextEvent \in Int /\ Len(events) \in Nat /\ Len(batch) \in Nat
    BY <1>1, <1>3, <1>8, AccountIsFair DEF IInv
  <2>3. nextEvent' = nextEvent + Len(batch) /\ watermark' = watermark /\ watermark + Len(events) = nextEvent - 1
    BY <1>3, <1>8, <1>15, Zenon
  <2>4. watermark' + Len(events') = nextEvent' - 1
    BY <2>1, <2>2, <2>3
  <2> QED BY <1>1, <1>11, <1>12, <1>13, <2>1, <2>4 DEF EventsOK, control
<1>21. PhaseOK'
  BY <1>1, <1>15 DEF PhaseOK, IntentsOK, Stage, Unbound, control, Binding, Sides
<1>22. StallsOnMarketOrdersOnly'
  BY <1>1 DEF StallsOnMarketOrdersOnly, control
<1> QED BY <1>15, <1>17, <1>18, <1>19, <1>20, <1>21, <1>22 DEF MakerInv

\* Consuming an event.
LEMMA ConsumeKeeps ==
  ASSUME MakerInv, Consume
  PROVE  MakerInv' /\ Risk!Next
<1> DEFINE e == Head(events)
<1>1. /\ IInv /\ QueueOK /\ AccountOK /\ EventsOK /\ PhaseOK
      /\ phase = "run" /\ events # <<>> /\ Apply(e) /\ events' = Tail(events) /\ lastTrade' = LastTrade(e)
      /\ UNCHANGED exchangeVars /\ UNCHANGED schedule /\ UNCHANGED observed /\ UNCHANGED control
  BY DEF MakerInv, Consume
<1>2. PICK reserved : Leads(Current, events, Account(OrdersOf(live), traded, reserved)) /\ Reserved(reserved, queue)
  BY Zenon DEF MakerInv, Follows
<1>3. events \in Seq(Event) /\ traded \in Int /\ watermark + Len(events) = nextEvent - 1
  BY <1>1 DEF EventsOK
<1>4. e \in Event /\ Len(events) \in Nat \ {0} /\ Tail(events) \in Seq(Event) /\ Len(Tail(events)) = Len(events) - 1
  BY <1>1, <1>3
<1> HIDE DEF e
<1>5. PICK b : Tells(Current, e, b) /\ Leads(b, Tail(events), Account(OrdersOf(live), traded, reserved))
  BY <1>1, <1>2, <1>3, LeadsFirst DEF e
<1>6. Fair(Current) /\ Proved!IngressUnique /\ watermark \in Nat
  BY <1>1, AccountIsFair
<1>7. b = Current'
  BY <1>1, <1>4, <1>5, <1>6, ApplyIsTold DEF Current
<1>8. Risk!Next /\ watermark' = watermark + 1
  BY <1>1, <1>4, <1>6, ApplyIsAStep DEF IInv
<1>9. IInv' /\ live' = live /\ nextEvent' = nextEvent
  BY <1>1, ExchangeRests
<1>10. QueueOK' /\ queue' = queue
  BY <1>1, QueueRests DEF schedule
<1>11. traded' = traded
  BY <1>1 DEF observed
<1>12. Follows'
  <2>1. Leads(Current', events', Account(OrdersOf(live'), traded', reserved)) /\ Reserved(reserved, queue')
    BY <1>1, <1>2, <1>5, <1>7, <1>9, <1>10, <1>11
  <2> QED BY <2>1, Zenon DEF Follows
<1>13. AccountOK'
  BY <1>1, <1>8, AccountStays
<1>14. EventsOK'
  <2>1. watermark' + Len(events') = nextEvent' - 1
    BY <1>1, <1>3, <1>4, <1>6, <1>8, <1>9
  <2>2. lastTrade' \in Prices \cup {NoPrice}
    BY <1>1, <1>4, EventFields DEF LastTrade, EventsOK
  <2>3. source' \in Sources
    BY <1>1 DEF EventsOK, control
  <2> QED BY <1>1, <1>3, <1>4, <1>11, <2>1, <2>2, <2>3 DEF EventsOK
<1>15. PhaseOK'
  BY <1>1 DEF PhaseOK, IntentsOK, Stage, Unbound, control, Binding, Sides
<1>16. StallsOnMarketOrdersOnly'
  BY <1>1 DEF StallsOnMarketOrdersOnly, control
<1> QED BY <1>8, <1>9, <1>10, <1>12, <1>13, <1>14, <1>15, <1>16 DEF MakerInv

\* An event the account refuses.
LEMMA ConsumeFailsKeeps ==
  ASSUME MakerInv, ConsumeFails
  PROVE  MakerInv' /\ UNCHANGED Risk!vars
<1> DEFINE e == Head(events)
<1>1. /\ IInv /\ QueueOK /\ AccountOK /\ EventsOK /\ PhaseOK /\ Follows
      /\ phase = "run" /\ events # <<>> /\ ~Accepts(e) /\ events' = events /\ lastTrade' = LastTrade(e)
      /\ phase' = "idle" /\ until' = 0
      /\ UNCHANGED exchangeVars /\ UNCHANGED schedule /\ UNCHANGED account /\ UNCHANGED observed
      /\ UNCHANGED <<decideAt, nextIntent, source>>
  BY DEF MakerInv, ConsumeFails
<1>2. PICK reserved : Leads(Current, events, Account(OrdersOf(live), traded, reserved))
  BY <1>1, Zenon DEF Follows
<1>3. events \in Seq(Event) /\ watermark + Len(events) = nextEvent - 1
  BY <1>1 DEF EventsOK
<1>4. e \in Event /\ Len(events) \in Nat \ {0}
  BY <1>1, <1>3
<1> HIDE DEF e
<1>5. PICK b : Tells(Current, e, b)
  BY <1>1, <1>2, <1>3, LeadsFirst DEF e
<1>6. Sequence = watermark + 1
  <2>1. watermark \in Nat /\ nextEvent \in Int
    BY <1>1, AccountIsFair DEF IInv
  <2> QED BY <1>3, <1>4, <2>1 DEF Sequence
<1>7. e.kind = "acknowledged" /\ ~IsLimit(e.order)
  BY <1>1, <1>4, <1>5, <1>6, ToldIsAccepted
<1>8. IInv' /\ live' = live /\ nextEvent' = nextEvent
  BY <1>1, ExchangeRests
<1>9. QueueOK' /\ queue' = queue
  BY <1>1, QueueRests DEF schedule
<1>10. UNCHANGED Risk!vars /\ Current' = Current /\ UNCHANGED <<watermark, position, kill, riskLive, riskPending>>
  BY <1>1, AccountRests
<1>11. traded' = traded
  BY <1>1 DEF observed
<1>12. Follows'
  BY <1>1, <1>8, <1>9, <1>10, <1>11, FollowsRests
<1>13. AccountOK'
  BY <1>1, <1>10, AccountStays
<1>14. EventsOK'
  <2>1. lastTrade' \in Prices \cup {NoPrice}
    BY <1>1, <1>4, EventFields DEF LastTrade, EventsOK
  <2> QED BY <1>1, <1>8, <1>10, <1>11, <2>1 DEF EventsOK
<1>15. PhaseOK'
  <2>1. 0 \in 0..Horizon
    BY MakerAssumption
  <2> QED BY <1>1, <2>1 DEF PhaseOK, IntentsOK, Stage, Unbound, Binding, Sides
<1>16. StallsOnMarketOrdersOnly'
  BY <1>1, <1>7 DEF StallsOnMarketOrdersOnly, e, IsLimit
<1> QED BY <1>8, <1>9, <1>10, <1>12, <1>13, <1>14, <1>15, <1>16 DEF MakerInv

\* The decision's cancellations.
LEMMA DecideKeeps ==
  ASSUME MakerInv, Decide
  PROVE  MakerInv' /\ UNCHANGED Risk!vars
<1> DEFINE R == {e \in ToCancel \X ToCancel : e[1] < e[2]}
           orders == InOrder(ToCancel, R)
           commands == [k \in DOMAIN orders |-> Cancellation(Maker, orders[k])]
<1>1. /\ IInv /\ QueueOK /\ AccountOK /\ EventsOK /\ PhaseOK /\ Follows
      /\ phase = "run" /\ decideAt <= until /\ events = <<>> /\ Enqueue(commands, decideAt)
      /\ phase' = "admit Buy" /\ UNCHANGED exchangeVars /\ UNCHANGED account /\ UNCHANGED observed
      /\ UNCHANGED <<events, lastTrade, until, decideAt, nextIntent, source>>
  BY Zenon DEF MakerInv, Decide
<1>2. ToCancel \subseteq Orders
  BY Zenon, <1>1 DEF ToCancel, AccountOK, Proved!TypeOK, Proved!OrderMap
<1>3. IsFiniteSet(ToCancel) /\ \A x \in ToCancel : x \in Nat
  BY <1>2, ExchangeAssumption, FS_Subset
<1>4. StrictlyOrders(ToCancel, R)
  BY <1>3 DEF StrictlyOrders
<1>5. Cardinality(ToCancel) \in Nat /\ Lists(orders, ToCancel, R)
  BY <1>3, <1>4, InOrderLists
<1> HIDE DEF R, orders
<1> DEFINE n == Cardinality(ToCancel)
<1>6. orders = [k \in 1..n |-> orders[k]] /\ \A k \in 1..n : orders[k] \in ToCancel
  BY <1>5 DEF Lists
<1>7. DOMAIN orders = 1..n /\ n \in Nat
  BY <1>5, <1>6
<1> HIDE DEF n
<1>8. \A k \in 1..n : Cancellation(Maker, orders[k]) \in Command /\ ~MakerSubmission(Cancellation(Maker, orders[k]))
  <2>1. \A k \in 1..n : orders[k] \in Orders
    BY <1>2, <1>6
  <2> QED BY <2>1, MakerAssumption DEF Cancellation, Command, MakerSubmission
<1>9. commands = [k \in 1..n |-> Cancellation(Maker, orders[k])]
  BY <1>7
<1> HIDE DEF commands
<1>10. commands \in Seq(Command) /\ Len(commands) = n /\ \A k \in 1..Len(commands) : ~MakerSubmission(commands[k])
  BY <1>7, <1>8, <1>9
<1>11. IInv' /\ live' = live /\ nextEvent' = nextEvent
  BY Zenon, <1>1, ExchangeRests
<1>12. UNCHANGED Risk!vars /\ Current' = Current /\ UNCHANGED <<watermark, position, kill, riskLive, riskPending>>
  BY Zenon, <1>1, AccountRests
<1>13. traded' = traded
  BY Zenon, <1>1 DEF observed
<1>14. QueueOK' /\ Follows'
  <2>1. decideAt \in Nat
    BY Zenon, <1>1 DEF PhaseOK, IntentsOK
  <2> QED BY Zenon, <1>1, <1>10, <1>11, <1>12, <1>13, <2>1, EnqueueFollows
<1>15. AccountOK'
  BY Zenon, <1>1, <1>12, AccountStays
<1>16. EventsOK'
  BY Zenon, <1>1, <1>11, <1>12, <1>13, EventsRest
<1>17. PhaseOK'
  BY Zenon, <1>1 DEF PhaseOK, IntentsOK, Stage, Binding, Sides
<1>18. StallsOnMarketOrdersOnly'
  BY Zenon, <1>1 DEF StallsOnMarketOrdersOnly
<1> QED BY <1>11, <1>12, <1>14, <1>15, <1>16, <1>17, <1>18 DEF MakerInv

LEMMA StageNames ==
  ASSUME NEW side \in Sides
  PROVE  \/ /\ side = "Buy" /\ Admitting(side) = "admit Buy" /\ Binding(side) = "bind Buy"
            /\ NextStage(side) = "admit Sell"
         \/ /\ side = "Sell" /\ Admitting(side) = "admit Sell" /\ Binding(side) = "bind Sell"
            /\ NextStage(side) = "decided"
BY DEF Sides, Admitting, Binding, NextStage

\* A reservation that is bound to no command changes nothing for the queue.
LEMMA AdmittedReserved ==
  ASSUME Reserved(riskPending, queue), NEW i, i \notin DOMAIN riskPending, NEW new, new.ingress = 0
  PROVE  Reserved(Risk!With(riskPending, i, new), queue)
<1> DEFINE f == Risk!With(riskPending, i, new)
<1>1. DOMAIN f = DOMAIN riskPending \cup {i} /\ f[i] = new /\ \A j \in DOMAIN riskPending : f[j] = riskPending[j]
  BY DEF Risk!With
<1> HIDE DEF f
<1>2. ASSUME NEW k \in DOMAIN queue, MakerSubmission(queue[k].command)
      PROVE  \E j \in DOMAIN f : /\ f[j].ingress = queue[k].ingress
                                 /\ f[j].side = queue[k].command.request.side
                                 /\ f[j].quantity = queue[k].command.request.quantity
  <2>1. PICK j \in DOMAIN riskPending :
               /\ riskPending[j].ingress = queue[k].ingress
               /\ riskPending[j].side = queue[k].command.request.side
               /\ riskPending[j].quantity = queue[k].command.request.quantity
    BY <1>2 DEF Reserved
  <2> QED BY <1>1, <2>1
<1>3. ASSUME NEW j \in DOMAIN f, f[j].ingress # 0
      PROVE  j \in DOMAIN riskPending /\ f[j] = riskPending[j]
  BY <1>1, <1>3
<1>4. ASSUME NEW j \in DOMAIN f, f[j].ingress # 0
      PROVE  \E k \in DOMAIN queue : MakerSubmission(queue[k].command) /\ queue[k].ingress = f[j].ingress
  BY <1>3, <1>4 DEF Reserved
<1>5. ASSUME NEW j \in DOMAIN f, NEW k \in DOMAIN f, f[j].ingress = f[k].ingress, f[j].ingress # 0
      PROVE  j = k
  BY <1>3, <1>5 DEF Reserved
<1> QED BY <1>2, <1>4, <1>5 DEF Reserved, f

\* One side of a decision, up to the admission.
LEMMA AdmitSideKeeps ==
  ASSUME MakerInv, NEW side \in Sides, AdmitSide(side)
  PROVE  MakerInv' /\ [Risk!Next]_(Risk!vars)
<1>1. /\ IInv /\ QueueOK /\ AccountOK /\ EventsOK /\ PhaseOK /\ Follows
      /\ phase = Admitting(side) /\ UNCHANGED exchangeVars /\ UNCHANGED schedule /\ UNCHANGED observed
      /\ UNCHANGED <<events, lastTrade, until, decideAt, source>>
  BY DEF MakerInv, AdmitSide
<1>2. events = <<>> /\ decideAt <= until /\ phase \notin {"idle", "run"}
  BY Zenon, <1>1 DEF PhaseOK, Admitting
<1>3. IInv' /\ live' = live /\ nextEvent' = nextEvent
  BY <1>1, ExchangeRests
<1>4. QueueOK' /\ queue' = queue
  BY <1>1, QueueRests DEF schedule
<1>5. traded' = traded
  BY <1>1 DEF observed
<1>6. phase' \in {NextStage(side), Binding(side)} /\ nextIntent' \in {nextIntent, nextIntent + 1}
  BY DEF AdmitSide
<1>12. decideAt \in Nat \ {0} /\ nextIntent \in Nat \ {0} /\ nextIntent < 2 * decideAt + Stage
  BY Zenon, <1>1 DEF PhaseOK, IntentsOK
<1>7. StallsOnMarketOrdersOnly'
  BY <1>6 DEF StallsOnMarketOrdersOnly, NextStage, Binding
<1>8. ASSUME UNCHANGED account, phase' = NextStage(side)
      PROVE  MakerInv' /\ [Risk!Next]_(Risk!vars)
  <2>1. UNCHANGED Risk!vars /\ Current' = Current /\ UNCHANGED <<watermark, position, kill, riskLive, riskPending>>
    BY <1>8, AccountRests
  <2>2. Follows'
    BY <1>1, <1>3, <1>4, <1>5, <2>1, FollowsRests
  <2>3. AccountOK'
    BY <1>1, <2>1, AccountStays
  <2>4. EventsOK'
    BY <1>1, <1>3, <1>5, <2>1, EventsRest
  <2>5. PhaseOK'
    <3>1. Stage \in Nat /\ Stage' = Stage + 1
      <4>1. \/ phase = "admit Buy" /\ phase' = "admit Sell"
            \/ phase = "admit Sell" /\ phase' = "decided"
        BY <1>1, <1>8, StageNames, Zenon
      <4>2. CASE phase = "admit Buy" /\ phase' = "admit Sell"
        <5>1. Stage = 0 /\ Stage' = 1
          BY Zenon, <4>2 DEF Stage
        <5> QED BY <5>1
      <4>3. CASE phase = "admit Sell" /\ phase' = "decided"
        <5>1. Stage = 1 /\ Stage' = 2
          BY Zenon, <4>3 DEF Stage
        <5> QED BY <5>1
      <4> QED BY Zenon, <4>1, <4>2, <4>3
    <3>2. IntentsOK'
      <4>1. decideAt' = decideAt
        BY <1>1
      <4> QED BY <1>6, <1>12, <3>1, <4>1 DEF IntentsOK
    <3>3. phase' \in {"admit Sell", "decided"}
      BY Zenon, <1>8 DEF NextStage
    <3>4. \A other \in Sides : phase' # Binding(other)
      BY Zenon, <3>3 DEF Binding
    <3> QED BY Zenon, <1>1, <1>2, <3>2, <3>3, <3>4 DEF PhaseOK
  <2> QED BY <1>3, <1>4, <1>7, <2>1, <2>2, <2>3, <2>4, <2>5 DEF MakerInv
<1>9. ASSUME Risk!Admit(nextIntent, side, QuoteQuantity, TRUE), phase' = Binding(side), nextIntent' = nextIntent + 1
      PROVE  MakerInv' /\ Risk!Next
  <2> DEFINE new == Risk!Reservation(nextIntent, side, QuoteQuantity, TRUE)
  <2>1. /\ nextIntent \notin DOMAIN riskPending /\ riskPending' = Risk!With(riskPending, nextIntent, new)
        /\ UNCHANGED <<watermark, position, kill, riskLive>>
    BY <1>9 DEF Risk!Admit, Risk!IntentAcceptable
  <2>2. new.ingress = 0
    BY DEF Risk!Reservation
  <2>3. Risk!Next
    <3>1. nextIntent \in 1..(2 * (Horizon + 1))
      <4>1. Stage \in {0, 1}
        BY Zenon, <1>1 DEF Stage, Admitting
      <4>2. decideAt <= Horizon /\ Horizon \in Nat
        <5>1. until \in 0..Horizon /\ Horizon \in Nat
          BY Zenon, <1>1, MakerAssumption DEF PhaseOK
        <5> QED BY <1>2, <1>12, <5>1
      <4> QED BY <1>12, <4>1, <4>2
    <3>2. side \in Risk!Sides /\ QuoteQuantity \in Nat /\ TRUE \in {TRUE}
      BY MakerAssumption, LadderAssumption DEF Sides, Risk!Sides
    <3> QED BY <1>9, <3>1, <3>2, Zenon DEF Risk!Next
  <2> HIDE DEF new
  <2>4. Follows'
    <3>1. riskLive = OrdersOf(live) /\ position = traded /\ Reserved(riskPending, queue)
      BY <1>1, <1>2, QuietFollows
    <3>2. Reserved(riskPending', queue')
      BY <1>4, <2>1, <2>2, <3>1, AdmittedReserved
    <3>3. Leads(Current', events', Account(OrdersOf(live'), traded', riskPending'))
      <4>1. Current' = Account(OrdersOf(live'), traded', riskPending')
        BY <1>3, <1>5, <2>1, <3>1 DEF Current
      <4>2. events' = <<>>
        BY <1>1, <1>2
      <4> QED BY <4>1, <4>2, LeadsNowhere
    <3> QED BY <3>2, <3>3, Zenon DEF Follows
  <2>5. AccountOK'
    BY <1>1, <2>3, AccountStays
  <2>6. EventsOK'
    BY <1>1, <1>3, <1>5, <2>1, EventsRest
  <2>7. PhaseOK'
    <3>1. Stage \in Nat /\ Stage' = Stage + 1
      <4>1. \/ phase = "admit Buy" /\ phase' = "bind Buy"
            \/ phase = "admit Sell" /\ phase' = "bind Sell"
        BY <1>1, <1>9, StageNames, Zenon
      <4>2. CASE phase = "admit Buy" /\ phase' = "bind Buy"
        <5>1. Stage = 0 /\ Stage' = 1
          BY Zenon, <4>2 DEF Stage
        <5> QED BY <5>1
      <4>3. CASE phase = "admit Sell" /\ phase' = "bind Sell"
        <5>1. Stage = 1 /\ Stage' = 2
          BY Zenon, <4>3 DEF Stage
        <5> QED BY <5>1
      <4> QED BY Zenon, <4>1, <4>2, <4>3
    <3>2. IntentsOK'
      <4>1. decideAt' = decideAt
        BY <1>1
      <4> QED BY <1>6, <1>12, <3>1, <4>1 DEF IntentsOK
    <3>3. phase' \in {"bind Buy", "bind Sell"}
      BY Zenon, <1>9 DEF Binding
    <3>4. \A other \in Sides : phase' = Binding(other) => Unbound(nextIntent - 1, other)'
      <4>1. nextIntent' - 1 = nextIntent
        BY <1>9, <1>12
      <4>2. nextIntent \in DOMAIN riskPending' /\ riskPending'[nextIntent] = new
        BY <2>1 DEF Risk!With
      <4>3. Unbound(nextIntent - 1, side)'
        BY <4>1, <4>2 DEF Unbound, new, Risk!Reservation
      <4>4. \A other \in Sides : phase' = Binding(other) => other = side
        BY Zenon, <1>9, StageNames
      <4> QED BY <4>3, <4>4
    <3> QED BY Zenon, <1>1, <1>2, <3>2, <3>3, <3>4 DEF PhaseOK
  <2> QED BY <1>3, <1>4, <1>7, <2>3, <2>4, <2>5, <2>6, <2>7 DEF MakerInv
<1>10. \/ UNCHANGED account /\ phase' = NextStage(side)
       \/ Risk!Admit(nextIntent, side, QuoteQuantity, TRUE) /\ phase' = Binding(side) /\ nextIntent' = nextIntent + 1
  BY DEF AdmitSide
<1> QED BY <1>8, <1>9, <1>10

\* The reservation of an enqueued submission, bound to its ingress number.
LEMMA BoundReserved ==
  ASSUME QueueOK, Reserved(riskPending, queue), NEW side \in Sides, NEW i, Unbound(i, side),
         riskPending' = [riskPending EXCEPT ![i].ingress = nextIngress],
         NEW c \in Command, MakerSubmission(c), Fitting(c), c.request.side = side, c.request.quantity = QuoteQuantity,
         NEW at \in Nat, Enqueue(<<c>>, at)
  PROVE  QueueOK' /\ Reserved(riskPending', queue')
<1>1. /\ QueueOK'
      /\ \A j \in DOMAIN queue : \E k \in DOMAIN queue' : queue'[k] = queue[j]
      /\ \E k \in DOMAIN queue' : queue'[k] = EntryAt(c, at, nextIngress)
      /\ \A k \in DOMAIN queue' :
           \/ \E j \in DOMAIN queue : queue'[k] = queue[j]
           \/ queue'[k] = EntryAt(c, at, nextIngress)
  <2> DEFINE commands == <<c>>
  <2>1. commands \in Seq(Command) /\ Len(commands) = 1 /\ commands[1] = c /\ 1..1 = {1}
    OBVIOUS
  <2>2. Enqueue(commands, at)
    OBVIOUS
  <2> HIDE DEF commands
  <2>3. \A k \in 1..Len(commands) : Fitting(commands[k])
    BY <2>1
  <2>4. nextIngress + 1 - 1 = nextIngress
    BY DEF QueueOK
  <2>5. \A j \in 1..Len(commands) :
          EntryAt(commands[j], at, nextIngress + j - 1) = EntryAt(c, at, nextIngress)
    BY <2>1, <2>4
  <2>6. 1 \in 1..Len(commands)
    BY <2>1
  <2>7. /\ QueueOK'
        /\ \A j \in DOMAIN queue : \E k \in DOMAIN queue' : queue'[k] = queue[j]
        /\ \A j \in 1..Len(commands) :
             \E k \in DOMAIN queue' : queue'[k] = EntryAt(commands[j], at, nextIngress + j - 1)
        /\ \A k \in DOMAIN queue' :
             \/ \E j \in DOMAIN queue : queue'[k] = queue[j]
             \/ \E j \in 1..Len(commands) : queue'[k] = EntryAt(commands[j], at, nextIngress + j - 1)
    BY <2>1, <2>2, <2>3, EnqueueKeeps
  <2> QED BY <2>5, <2>6, <2>7
<1> DEFINE f == riskPending'
           entry == EntryAt(c, at, nextIngress)
<1>2. entry.ingress = nextIngress /\ entry.command = c
  BY DEF EntryAt
<1>3. /\ i \in DOMAIN riskPending /\ riskPending[i].ingress = 0
      /\ riskPending[i].side = side /\ riskPending[i].quantity = QuoteQuantity
  BY DEF Unbound, Risk!Reservation
<1>4. /\ DOMAIN f = DOMAIN riskPending /\ f[i].ingress = nextIngress
      /\ f[i].side = side /\ f[i].quantity = QuoteQuantity
      /\ \A j \in DOMAIN riskPending : j # i => f[j] = riskPending[j]
  <2>1. f[i] = [riskPending[i] EXCEPT !.ingress = nextIngress]
    BY <1>3
  <2>2. riskPending[i] = Risk!Reservation(i, side, QuoteQuantity, TRUE)
    BY DEF Unbound
  <2>3. f[i].ingress = nextIngress /\ f[i].side = side /\ f[i].quantity = QuoteQuantity
    BY <2>1, <2>2 DEF Risk!Reservation
  <2> QED BY <2>3
<1> HIDE DEF f, entry
<1>5. \A k \in DOMAIN queue : queue[k].ingress \in Nat \ {0} /\ queue[k].ingress # nextIngress
  <2>1. ASSUME NEW k \in DOMAIN queue PROVE queue[k] \in Entry /\ queue[k].ingress < nextIngress
    BY DEF QueueOK
  <2>2. nextIngress \in Nat
    BY DEF QueueOK
  <2>3. \A x \in Entry : x.ingress \in Nat \ {0}
    BY DEF Entry
  <2> QED BY <2>1, <2>2, <2>3
<1>6. ASSUME NEW k \in DOMAIN queue', MakerSubmission(queue'[k].command)
      PROVE  \E j \in DOMAIN f : /\ f[j].ingress = queue'[k].ingress
                                 /\ f[j].side = queue'[k].command.request.side
                                 /\ f[j].quantity = queue'[k].command.request.quantity
  <2>1. CASE queue'[k] = entry
    BY <1>2, <1>3, <1>4, <2>1
  <2>2. ASSUME NEW j \in DOMAIN queue, queue'[k] = queue[j]
        PROVE  \E x \in DOMAIN f : /\ f[x].ingress = queue'[k].ingress
                                   /\ f[x].side = queue'[k].command.request.side
                                   /\ f[x].quantity = queue'[k].command.request.quantity
    <3>1. PICK x \in DOMAIN riskPending :
                 /\ riskPending[x].ingress = queue[j].ingress
                 /\ riskPending[x].side = queue[j].command.request.side
                 /\ riskPending[x].quantity = queue[j].command.request.quantity
      BY <1>6, <2>2 DEF Reserved
    <3>2. x # i
      BY <1>3, <1>5, <3>1
    <3> QED BY <1>4, <2>2, <3>1, <3>2
  <2> QED BY <1>1, <2>1, <2>2 DEF entry
<1>7. ASSUME NEW j \in DOMAIN f, f[j].ingress # 0
      PROVE  \E k \in DOMAIN queue' : MakerSubmission(queue'[k].command) /\ queue'[k].ingress = f[j].ingress
  <2>1. CASE j = i
    <3>1. PICK k \in DOMAIN queue' : queue'[k] = entry
      BY <1>1 DEF entry
    <3>2. MakerSubmission(queue'[k].command) /\ queue'[k].ingress = f[j].ingress
      BY <1>2, <1>4, <2>1, <3>1
    <3> QED BY <3>2
  <2>2. CASE j # i
    <3>1. PICK x \in DOMAIN queue : MakerSubmission(queue[x].command) /\ queue[x].ingress = riskPending[j].ingress
      BY <1>4, <1>7, <2>2 DEF Reserved
    <3>2. PICK k \in DOMAIN queue' : queue'[k] = queue[x]
      BY <1>1
    <3>3. MakerSubmission(queue'[k].command) /\ queue'[k].ingress = f[j].ingress
      BY <1>4, <2>2, <3>1, <3>2
    <3> QED BY <3>3
  <2> QED BY <2>1, <2>2
<1>8. ASSUME NEW j \in DOMAIN f, j # i, f[j].ingress # 0 PROVE f[j].ingress # nextIngress
  <2>1. PICK k \in DOMAIN queue : queue[k].ingress = riskPending[j].ingress
    BY <1>4, <1>8 DEF Reserved
  <2> QED BY <1>4, <1>5, <1>8, <2>1
<1>9. ASSUME NEW j \in DOMAIN f, NEW k \in DOMAIN f, f[j].ingress = f[k].ingress, f[j].ingress # 0
      PROVE  j = k
  <2>1. CASE j = i /\ k # i
    BY <1>4, <1>8, <1>9, <2>1
  <2>2. CASE j # i /\ k = i
    BY <1>4, <1>8, <1>9, <2>2
  <2>3. CASE j # i /\ k # i
    BY <1>4, <1>9, <2>3 DEF Reserved
  <2> QED BY <2>1, <2>2, <2>3
<1> QED BY <1>1, <1>6, <1>7, <1>9 DEF Reserved, f

\* The admitted intent is enqueued and bound.
LEMMA BindSideKeeps ==
  ASSUME MakerInv, NEW side \in Sides, BindSide(side)
  PROVE  MakerInv' /\ Risk!Next
<1> DEFINE i == nextIntent - 1
           c == Submission(QuoteOf(side))
<1>1. /\ IInv /\ QueueOK /\ AccountOK /\ EventsOK /\ PhaseOK /\ Follows
      /\ phase = Binding(side) /\ phase' = NextStage(side) /\ Enqueue(<<c>>, decideAt)
      /\ Risk!BindIngress(i, nextIngress)
      /\ UNCHANGED exchangeVars /\ UNCHANGED observed
      /\ UNCHANGED <<events, lastTrade, until, decideAt, nextIntent, source>>
  BY DEF MakerInv, BindSide
<1>2. events = <<>> /\ decideAt <= until /\ Unbound(i, side)
  BY Zenon, <1>1, StageNames DEF PhaseOK
<1>3. decideAt \in Nat \ {0} /\ nextIntent \in Nat \ {0} /\ nextIntent < 2 * decideAt + Stage
  BY Zenon, <1>1 DEF PhaseOK, IntentsOK
<1> HIDE DEF i
<1>4. IInv' /\ live' = live /\ nextEvent' = nextEvent
  BY <1>1, ExchangeRests
<1>5. traded' = traded
  BY <1>1 DEF observed
<1>6. /\ riskPending' = [riskPending EXCEPT ![i].ingress = nextIngress] /\ i \in DOMAIN riskPending
      /\ UNCHANGED <<watermark, position, kill, riskLive>>
  BY <1>1 DEF Risk!BindIngress
<1>7. Risk!Next
  <2>1. i \in 1..(2 * (Horizon + 1))
    BY <1>1, <1>6 DEF AccountOK, Proved!TypeOK, Proved!OrderMap
  <2>2. nextIngress \in Nat \ {0}
    BY <1>1 DEF QueueOK
  <2> QED BY <1>1, <2>1, <2>2, Zenon DEF Risk!Next
<1>8. c \in Command /\ MakerSubmission(c) /\ Fitting(c) /\ c.request.side = side /\ c.request.quantity = QuoteQuantity
  <2>1. DesiredQuotes[side] \in Prices \cup {NoPrice}
    BY <1>1, AccountIsFair, QuotesInGrid DEF IInv, EventsOK, AccountOK, Proved!TypeOK
  <2>2. QuoteOf(side) \in SubmitOrderRequest
    BY <2>1, MakerAssumption DEF QuoteOf, SubmitOrderRequest
  <2>3. c.kind = "submit" /\ c.request = QuoteOf(side)
    BY DEF Submission
  <2>4. c \in Command
    BY <2>2 DEF Submission, Command
  <2> QED BY <2>3, <2>4 DEF MakerSubmission, Fitting, QuoteOf
<1> HIDE DEF c
<1>9. riskLive = OrdersOf(live) /\ position = traded /\ Reserved(riskPending, queue)
  BY <1>1, <1>2, QuietFollows
<1>10. QueueOK' /\ Reserved(riskPending', queue')
  BY <1>1, <1>2, <1>3, <1>6, <1>8, <1>9, BoundReserved
<1>11. Follows'
  <2>1. Current' = Account(OrdersOf(live'), traded', riskPending')
    BY <1>4, <1>5, <1>6, <1>9 DEF Current
  <2>2. Leads(Current', events', Account(OrdersOf(live'), traded', riskPending'))
    <3>1. events' = <<>>
      BY <1>1, <1>2
    <3> QED BY <2>1, <3>1, LeadsNowhere
  <2> QED BY <1>10, <2>2, Zenon DEF Follows
<1>12. AccountOK'
  BY <1>1, <1>7, AccountStays
<1>13. EventsOK'
  BY <1>1, <1>4, <1>5, <1>6, EventsRest
<1>14. PhaseOK'
  <2>1. \/ phase = "bind Buy" /\ phase' = "admit Sell"
        \/ phase = "bind Sell" /\ phase' = "decided"
    BY <1>1, StageNames, Zenon
  <2>2. Stage' = Stage
    BY Zenon, <2>1 DEF Stage
  <2>3. IntentsOK'
    BY <1>1, <1>3, <2>2 DEF IntentsOK
  <2>4. \A other \in Sides : phase' # Binding(other)
    BY Zenon, <2>1 DEF Binding
  <2> QED BY Zenon, <1>1, <1>2, <2>1, <2>3, <2>4 DEF PhaseOK
<1>15. StallsOnMarketOrdersOnly'
  BY <1>1 DEF StallsOnMarketOrdersOnly, NextStage
<1> QED BY <1>4, <1>7, <1>10, <1>11, <1>12, <1>13, <1>14, <1>15 DEF MakerInv

\* Steps that touch neither the exchange, nor the account, nor the queue.
LEMMA ControlKeeps ==
  ASSUME MakerInv, UNCHANGED <<exchangeVars, schedule, events, lastTrade, account, source>>, traded' = traded,
         PhaseOK', StallsOnMarketOrdersOnly'
  PROVE  MakerInv' /\ UNCHANGED Risk!vars
<1>1. IInv /\ QueueOK /\ AccountOK /\ EventsOK /\ Follows
  BY DEF MakerInv
<1>2. IInv' /\ live' = live /\ nextEvent' = nextEvent
  BY <1>1, ExchangeRests
<1>3. QueueOK' /\ queue' = queue
  BY <1>1, QueueRests DEF schedule
<1>4. UNCHANGED Risk!vars /\ Current' = Current /\ UNCHANGED <<watermark, position, kill, riskLive, riskPending>>
  BY <1>1, AccountRests
<1>5. Follows'
  BY <1>1, <1>2, <1>3, <1>4, FollowsRests
<1>6. AccountOK'
  BY <1>1, <1>4, AccountStays
<1>7. EventsOK'
  BY <1>1, <1>2, <1>4, EventsRest
<1> QED BY <1>2, <1>3, <1>4, <1>5, <1>6, <1>7 DEF MakerInv

LEMMA DecidedKeeps ==
  ASSUME MakerInv, Decided
  PROVE  MakerInv' /\ UNCHANGED Risk!vars
<1>1. /\ PhaseOK /\ phase = "decided" /\ decideAt' = decideAt + Interval /\ phase' = "run"
      /\ UNCHANGED <<exchangeVars, schedule, events, lastTrade, account, observed, until, nextIntent, source>>
  BY DEF MakerInv, Decided
<1>2. traded' = traded
  BY <1>1 DEF observed
<1>3. IntentsOK'
  <2>1. Stage = 2 /\ Stage' = 0
    BY <1>1 DEF Stage
  <2>2. decideAt \in Nat \ {0} /\ nextIntent \in Nat \ {0} /\ nextIntent < 2 * decideAt + Stage
    BY <1>1 DEF PhaseOK, IntentsOK
  <2>3. decideAt' = decideAt + Interval /\ nextIntent' = nextIntent /\ Interval \in Nat \ {0}
    BY <1>1, MakerAssumption
  <2> QED BY <2>1, <2>2, <2>3 DEF IntentsOK
<1>4. \A side \in Sides : phase' # Binding(side)
  BY <1>1 DEF Binding
<1>5. PhaseOK'
  BY <1>1, <1>3, <1>4 DEF PhaseOK
<1>6. StallsOnMarketOrdersOnly'
  BY <1>1 DEF StallsOnMarketOrdersOnly
<1> QED BY <1>1, <1>2, <1>5, <1>6, ControlKeeps

\* Between "run" and "idle" a decision's bookkeeping stays.
LEMMA RunAndIdle ==
  ASSUME PhaseOK, phase \in {"idle", "run"}, phase' \in {"idle", "run"}, until' \in 0..Horizon,
         UNCHANGED <<decideAt, nextIntent>>
  PROVE  PhaseOK'
<1>1. Stage = 0 /\ Stage' = 0
  BY Zenon DEF Stage
<1>2. IntentsOK'
  BY Zenon, <1>1 DEF PhaseOK, IntentsOK
<1>3. \A side \in Sides : phase' # Binding(side)
  BY Zenon DEF Binding
<1> QED BY Zenon, <1>2, <1>3 DEF PhaseOK

LEMMA ReturnKeeps ==
  ASSUME MakerInv, Return
  PROVE  MakerInv' /\ UNCHANGED Risk!vars
<1>1. /\ PhaseOK /\ phase = "run" /\ phase' = "idle" /\ until' = 0 /\ events = <<>>
      /\ UNCHANGED <<exchangeVars, schedule, events, lastTrade, account, observed, decideAt, nextIntent, source>>
  BY DEF MakerInv, Return
<1>2. traded' = traded
  BY <1>1 DEF observed
<1>3. PhaseOK'
  <2>1. 0 \in 0..Horizon
    BY MakerAssumption
  <2> QED BY <1>1, <2>1, RunAndIdle
<1>4. StallsOnMarketOrdersOnly'
  BY <1>1 DEF StallsOnMarketOrdersOnly
<1> QED BY <1>1, <1>2, <1>3, <1>4, ControlKeeps

LEMMA RunUntilKeeps ==
  ASSUME MakerInv, NEW time \in 1..Horizon, RunUntil(time)
  PROVE  MakerInv' /\ UNCHANGED Risk!vars
<1>1. /\ PhaseOK /\ phase = "idle" /\ phase' = "run" /\ until' = time
      /\ UNCHANGED <<exchangeVars, schedule, events, lastTrade, account, observed, decideAt, nextIntent, source>>
  BY DEF MakerInv, RunUntil
<1>2. traded' = traded
  BY <1>1 DEF observed
<1>3. PhaseOK'
  <2>1. time \in 0..Horizon
    BY MakerAssumption
  <2> QED BY <1>1, <2>1, RunAndIdle
<1>4. StallsOnMarketOrdersOnly'
  BY <1>1 DEF StallsOnMarketOrdersOnly
<1> QED BY <1>1, <1>2, <1>3, <1>4, ControlKeeps

\* Another caller's command.
LEMMA EnqueueExternalKeeps ==
  ASSUME MakerInv, NEW command \in External, NEW at \in 1..Horizon, EnqueueExternal(command, at)
  PROVE  MakerInv' /\ UNCHANGED Risk!vars
<1>1. /\ IInv /\ QueueOK /\ AccountOK /\ EventsOK /\ PhaseOK /\ Follows /\ StallsOnMarketOrdersOnly
      /\ phase = "idle" /\ Enqueue(<<command>>, at)
      /\ UNCHANGED <<exchangeVars, events, lastTrade, account, traded, control>>
  BY DEF MakerInv, EnqueueExternal
<1>2. command \in Command /\ ~MakerSubmission(command)
  <2>1. CASE \E r \in SubmitOrderRequest : r.trader # Maker /\ command = Submission(r)
    BY <2>1 DEF Submission, Command, MakerSubmission
  <2>2. CASE \E t \in Traders \ {Maker}, o \in Orders : command = Cancellation(t, o)
    BY <2>2 DEF Cancellation, Command, MakerSubmission
  <2>3. CASE \E target \in Statuses : command = Lifecycle(target)
    BY <2>3 DEF Lifecycle, Command, MakerSubmission
  <2> QED BY <2>1, <2>2, <2>3, ExternalAssumption
<1> DEFINE commands == <<command>>
<1>3. commands \in Seq(Command) /\ Len(commands) = 1 /\ commands[1] = command /\ 1..1 = {1}
  BY <1>2
<1>4. Enqueue(commands, at)
  BY <1>1
<1> HIDE DEF commands
<1>5. \A k \in 1..Len(commands) : ~MakerSubmission(commands[k])
  BY <1>2, <1>3
<1>6. IInv' /\ live' = live /\ nextEvent' = nextEvent
  BY <1>1, ExchangeRests
<1>7. UNCHANGED Risk!vars /\ Current' = Current /\ UNCHANGED <<watermark, position, kill, riskLive, riskPending>>
  BY <1>1, AccountRests
<1>8. QueueOK' /\ Follows'
  <2>1. at \in Nat
    BY MakerAssumption
  <2> QED BY <1>1, <1>3, <1>4, <1>5, <1>6, <1>7, <2>1, EnqueueFollows
<1>9. AccountOK'
  BY <1>1, <1>7, AccountStays
<1>10. source' = source /\ phase' = phase
  BY <1>1 DEF control
<1>11. EventsOK'
  BY <1>1, <1>6, <1>7, <1>10, EventsRest
<1>12. PhaseOK'
  BY <1>1, RunAndIdle DEF control, PhaseOK
<1>13. StallsOnMarketOrdersOnly'
  BY <1>1, <1>10 DEF StallsOnMarketOrdersOnly
<1> QED BY <1>6, <1>7, <1>8, <1>9, <1>11, <1>12, <1>13 DEF MakerInv

LEMMA ActivateKillSwitchKeeps ==
  ASSUME MakerInv, ActivateKillSwitch
  PROVE  MakerInv' /\ Risk!Next
<1>1. /\ IInv /\ QueueOK /\ AccountOK /\ EventsOK /\ PhaseOK /\ Follows /\ StallsOnMarketOrdersOnly
      /\ phase = "idle" /\ Risk!SetKillSwitch(TRUE)
      /\ UNCHANGED <<exchangeVars, schedule, events, lastTrade, observed, control>>
  BY DEF MakerInv, ActivateKillSwitch
<1>2. Risk!Next
  <2>1. TRUE \in BOOLEAN
    OBVIOUS
  <2> QED BY <1>1, <2>1, Zenon DEF Risk!Next
<1>3. UNCHANGED <<watermark, position, riskLive, riskPending>>
  BY <1>1 DEF Risk!SetKillSwitch
<1>4. IInv' /\ live' = live /\ nextEvent' = nextEvent
  BY <1>1, ExchangeRests
<1>5. QueueOK' /\ queue' = queue
  BY <1>1, QueueRests DEF schedule
<1>6. traded' = traded /\ source' = source /\ phase' = phase
  BY <1>1 DEF observed, control
<1>7. Follows'
  <2>1. Current' = Current
    BY <1>3 DEF Current
  <2> QED BY <1>1, <1>4, <1>5, <1>6, <2>1, FollowsRests
<1>8. AccountOK'
  BY <1>1, <1>2, AccountStays
<1>9. EventsOK'
  BY <1>1, <1>3, <1>4, <1>6, EventsRest
<1>10. PhaseOK'
  BY <1>1, RunAndIdle DEF control, PhaseOK
<1>11. StallsOnMarketOrdersOnly'
  BY <1>1, <1>6 DEF StallsOnMarketOrdersOnly
<1> QED BY <1>2, <1>4, <1>5, <1>7, <1>8, <1>9, <1>10, <1>11 DEF MakerInv

LEMMA MakerInvInit == MakerInit => MakerInv
<1> SUFFICES ASSUME MakerInit PROVE MakerInv
  OBVIOUS
<1>1. /\ ExchangeInit /\ Risk!Init
      /\ queue = <<>> /\ nextIngress = 1 /\ events = <<>> /\ phase = "idle" /\ until = 0 /\ decideAt = 1
      /\ nextIntent = 1 /\ lastTrade = NoPrice /\ source \in Sources /\ traded = 0
  BY DEF MakerInit
<1>2. IInv
  BY <1>1, InvInit
<1>3. QueueOK
  BY <1>1 DEF QueueOK
<1>4. Follows
  <2>1. DOMAIN live = {}
    BY <1>1 DEF ExchangeInit, Init, NoBook
  <2>2. riskLive = OrdersOf(live) /\ position = traded /\ riskPending = Risk!NoOrders
    BY <1>1, <2>1, OrdersOfNothing DEF Risk!Init
  <2>3. Reserved(riskPending, queue)
    BY <1>1, <2>2 DEF Reserved, Risk!NoOrders
  <2> QED BY <1>1, <2>2, <2>3, QuietFollows
<1>5. AccountOK
  BY <1>1, AccountStarts
<1>6. EventsOK
  <2>1. watermark = 0 /\ nextEvent = 1
    BY <1>1 DEF Risk!Init, ExchangeInit
  <2>2. events \in Seq(Event) /\ Len(events) = 0
    BY <1>1
  <2>3. watermark + Len(events) = nextEvent - 1
    BY <2>1, <2>2
  <2> QED BY <1>1, <2>2, <2>3 DEF EventsOK
<1>7. PhaseOK
  <2>1. Stage = 0
    BY <1>1 DEF Stage
  <2>2. IntentsOK
    BY <1>1, <2>1 DEF IntentsOK
  <2>3. \A side \in Sides : phase # Binding(side)
    BY <1>1 DEF Binding
  <2>4. until \in 0..Horizon
    BY <1>1, MakerAssumption
  <2> QED BY <1>1, <2>2, <2>3, <2>4 DEF PhaseOK
<1>8. StallsOnMarketOrdersOnly
  BY <1>1 DEF StallsOnMarketOrdersOnly
<1> QED BY <1>2, <1>3, <1>4, <1>5, <1>6, <1>7, <1>8 DEF MakerInv

\* Every step keeps the invariant, and is a step of the account's projection.
LEMMA MakerInvNext == MakerInv /\ [MakerNext]_makerVars => MakerInv' /\ [Risk!Next]_(Risk!vars)
<1> SUFFICES ASSUME MakerInv, [MakerNext]_makerVars
             PROVE  MakerInv' /\ [Risk!Next]_(Risk!vars)
  OBVIOUS
<1>1. CASE RunExchange
  BY <1>1, RunExchangeKeeps
<1>2. CASE Consume
  BY <1>2, ConsumeKeeps
<1>3. CASE ConsumeFails
  BY <1>3, ConsumeFailsKeeps
<1>4. CASE Decide
  BY <1>4, DecideKeeps
<1>5. CASE Decided
  BY <1>5, DecidedKeeps
<1>6. CASE Return
  BY <1>6, ReturnKeeps
<1>7. ASSUME NEW side \in Sides, AdmitSide(side) PROVE MakerInv' /\ [Risk!Next]_(Risk!vars)
  BY <1>7, AdmitSideKeeps
<1>8. ASSUME NEW side \in Sides, BindSide(side) PROVE MakerInv' /\ [Risk!Next]_(Risk!vars)
  BY <1>8, BindSideKeeps
<1>9. ASSUME NEW command \in External, NEW at \in 1..Horizon, EnqueueExternal(command, at)
      PROVE  MakerInv' /\ [Risk!Next]_(Risk!vars)
  BY <1>9, EnqueueExternalKeeps
<1>10. CASE ActivateKillSwitch
  BY <1>10, ActivateKillSwitchKeeps
<1>11. ASSUME NEW time \in 1..Horizon, RunUntil(time) PROVE MakerInv' /\ [Risk!Next]_(Risk!vars)
  BY <1>11, RunUntilKeeps
<1>12. CASE UNCHANGED makerVars
  <2>1. /\ UNCHANGED <<exchangeVars, schedule, events, lastTrade, account, source>> /\ traded' = traded
        /\ UNCHANGED <<phase, until, decideAt, nextIntent, riskPending>>
    BY <1>12 DEF makerVars, observed, control, account
  <2>2. PhaseOK'
    BY Zenon, <2>1 DEF MakerInv, PhaseOK, IntentsOK, Stage, Unbound, Binding, Sides
  <2>3. StallsOnMarketOrdersOnly'
    BY <2>1 DEF MakerInv, StallsOnMarketOrdersOnly
  <2> QED BY <2>1, <2>2, <2>3, ControlKeeps
<1> QED BY <1>1, <1>2, <1>3, <1>4, <1>5, <1>6, <1>7, <1>8, <1>9, <1>10, <1>11, <1>12, Zenon
        DEF MakerNext, Coordinator

-----------------------------------------------------------------------------
(* 7. The theorems. *)

\* The coordinator's invariant holds in every state: whatever the exchange has
\* executed, the events still to be consumed lead the account there.
THEOREM MakerInvariant == MakerSpec => []MakerInv
<1>1. MakerInit => MakerInv
  BY MakerInvInit
<1>2. MakerInv /\ [MakerNext]_makerVars => MakerInv'
  BY MakerInvNext
<1> QED BY <1>1, <1>2, PTL DEF MakerSpec

\* The coordinator uses its account as the projection is meant to be used: each
\* of its steps admits, binds, applies the next event, sets the kill switch, or
\* leaves the account alone.  What is proved of AccountRisk holds of it.
THEOREM CoordinatorKeepsAccount == MakerSpec => Risk!Spec
<1>1. MakerInit => Risk!Init
  BY DEF MakerInit
<1>2. MakerInv /\ [MakerNext]_makerVars => [Risk!Next]_(Risk!vars)
  BY MakerInvNext
<1> QED BY <1>1, <1>2, MakerInvariant, PTL DEF MakerSpec, Risk!Spec

\* run_until stops at an event for one reason only: the acknowledgement of a
\* market order.
THEOREM OnlyMarketOrdersStall == MakerSpec => []StallsOnMarketOrdersOnly
<1>1. MakerInv => StallsOnMarketOrdersOnly
  BY DEF MakerInv
<1> QED BY <1>1, MakerInvariant, PTL

\* Once every event has been consumed, the account's orders, position and
\* reservations are the exchange's.
THEOREM AccountAgrees == MakerSpec => []AccountAgreesWithExchange
<1>1. MakerInv => AccountAgreesWithExchange
  <2> SUFFICES ASSUME MakerInv, events = <<>>
               PROVE  /\ riskLive = [o \in OwnOrders |-> [id |-> o, side |-> live[o].side, quantity |-> live[o].remaining]]
                      /\ position = traded
                      /\ watermark = nextEvent - 1
                      /\ {riskPending[i].ingress : i \in DOMAIN riskPending} \ {0}
                           = {queue[k].ingress : k \in {j \in DOMAIN queue : ByMaker(queue[j].command)
                                                                              /\ queue[j].command.kind = "submit"}}
    BY Zenon DEF AccountAgreesWithExchange
  <2>1. riskLive = OrdersOf(live) /\ position = traded /\ Reserved(riskPending, queue)
    BY QuietFollows DEF MakerInv
  <2>2. riskLive = [o \in OwnOrders |-> [id |-> o, side |-> live[o].side, quantity |-> live[o].remaining]]
    BY <2>1 DEF OrdersOf, OwnOrders, RiskOrder
  <2>3. watermark = nextEvent - 1
    <3>1. watermark + Len(events) = nextEvent - 1 /\ watermark \in Nat /\ Len(events) = 0
      BY AccountIsFair DEF MakerInv, EventsOK
    <3> QED BY <3>1
  <2>4. \A c : ByMaker(c) /\ c.kind = "submit" <=> MakerSubmission(c)
    BY DEF ByMaker, MakerSubmission
  <2>5. \A k \in DOMAIN queue : queue[k].ingress # 0
    <3>1. \A k \in DOMAIN queue : queue[k] \in Entry
      BY DEF MakerInv, QueueOK
    <3>2. \A x \in Entry : x.ingress # 0
      BY DEF Entry
    <3> QED BY <3>1, <3>2
  <2>6. {riskPending[i].ingress : i \in DOMAIN riskPending} \ {0}
          = {queue[k].ingress : k \in {j \in DOMAIN queue : ByMaker(queue[j].command)
                                                             /\ queue[j].command.kind = "submit"}}
    <3>1. ASSUME NEW i \in DOMAIN riskPending, riskPending[i].ingress # 0
          PROVE  \E k \in DOMAIN queue : MakerSubmission(queue[k].command) /\ queue[k].ingress = riskPending[i].ingress
      BY <2>1, <3>1 DEF Reserved
    <3>2. ASSUME NEW k \in DOMAIN queue, MakerSubmission(queue[k].command)
          PROVE  \E i \in DOMAIN riskPending : riskPending[i].ingress = queue[k].ingress
      BY <2>1, <3>2 DEF Reserved
    <3> QED BY <2>4, <2>5, <3>1, <3>2
  <2> QED BY <2>1, <2>2, <2>3, <2>6
<1> QED BY <1>1, MakerInvariant, PTL

\* What the maker's orders have left in the book is the exposure of those orders.
LEMMA ExposureIsTotal ==
  ASSUME LiveMap(OrdersOf(live)), NEW side
  PROVE  Proved!Exposure(OrdersOf(live), side) = Total(live, {o \in OwnOrders : live[o].side = side})
<1> DEFINE orders == OrdersOf(live)
           mine == {o \in OwnOrders : live[o].side = side}
           f == [o \in mine |-> live[o].remaining]
<1>1. /\ DOMAIN orders = OwnOrders
      /\ \A o \in OwnOrders : orders[o].side = live[o].side /\ orders[o].quantity = live[o].remaining
  BY DEF OrdersOf, OwnOrders, RiskOrder
<1>2. \A o \in OwnOrders : live[o].remaining \in 1..MaxOrderQty
  BY <1>1 DEF LiveMap, Proved!OrderMap
<1>3. MaxOrderQty \in Nat
  BY LimitNumbers
<1> HIDE DEF orders
<1>4. Proved!Lots(orders, side) = UNION {{x} \X (1..f[x]) : x \in DOMAIN f}
  <2>1. ASSUME NEW lot \in Proved!Lots(orders, side) PROVE lot \in UNION {{x} \X (1..f[x]) : x \in DOMAIN f}
    <3>1. /\ lot = <<lot[1], lot[2]>> /\ lot[1] \in OwnOrders /\ lot[2] \in 1..MaxOrderQty
          /\ live[lot[1]].side = side /\ lot[2] <= live[lot[1]].remaining
      BY <1>1, <2>1 DEF Proved!Lots
    <3>2. lot[1] \in DOMAIN f /\ lot[2] \in 1..f[lot[1]]
      BY <1>2, <1>3, <3>1
    <3> HIDE DEF f
    <3>3. lot \in {lot[1]} \X (1..f[lot[1]])
      BY <3>1, <3>2
    <3> QED BY <3>2, <3>3
  <2>2. ASSUME NEW x \in mine, NEW lot \in {x} \X (1..f[x]) PROVE lot \in Proved!Lots(orders, side)
    <3>1. lot = <<x, lot[2]>> /\ lot[2] \in 1..live[x].remaining /\ x \in OwnOrders /\ live[x].side = side
      BY <2>2
    <3>2. lot[2] \in 1..MaxOrderQty /\ lot[2] <= live[x].remaining
      BY <1>2, <1>3, <3>1
    <3> QED BY <1>1, <3>1, <3>2 DEF Proved!Lots
  <2>3. DOMAIN f = mine
    OBVIOUS
  <2> HIDE DEF f, mine
  <2> QED BY <2>1, <2>2, <2>3
<1> HIDE DEF f
<1>5. \A S : Proved!Cardinality(S) = Cardinality(S)
  BY DEF Proved!Cardinality, Cardinality, Proved!IsFiniteSet, IsFiniteSet
<1> QED BY <1>4, <1>5, Zenon DEF Proved!Exposure, Total, Units, f, orders

\* Although the account learns of fills only when it consumes their events, what
\* the maker has really traded, and all it can still trade in the book, stays
\* within the position limit.
THEOREM TrueExposureSafe == MakerSpec => []TrueExposureWithinLimit
<1>1. MakerInv => TrueExposureWithinLimit
  <2> SUFFICES ASSUME MakerInv PROVE TrueExposureWithinLimit
    OBVIOUS
  <2>1. PICK reserved : Leads(Current, events, Account(OrdersOf(live), traded, reserved))
    BY Zenon DEF MakerInv, Follows
  <2> DEFINE end == Account(OrdersOf(live), traded, reserved)
  <2>2. Fair(Current) /\ events \in Seq(Event)
    BY AccountIsFair DEF MakerInv, EventsOK
  <2>3. Fair(end) /\ Narrower(Current, end)
    BY <2>1, <2>2, LeadsNarrower
  <2>4. end.live = OrdersOf(live) /\ end.net = traded /\ end.pending = reserved
    BY AccountParts
  <2>5. Current.live = riskLive /\ Current.net = position /\ Current.pending = riskPending
    BY AccountParts DEF Current
  <2> HIDE DEF end
  <2>6. /\ LiveMap(OrdersOf(live)) /\ PendingMap(reserved) /\ traded \in Int
        /\ LiveMap(riskLive) /\ PendingMap(riskPending) /\ position \in Int
    BY <2>2, <2>3, <2>4, <2>5 DEF Fair
  <2> DEFINE buys == Proved!Exposure(OrdersOf(live), "Buy")
             sells == Proved!Exposure(OrdersOf(live), "Sell")
             bought == Proved!Exposure(reserved, "Buy")
             sold == Proved!Exposure(reserved, "Sell")
  <2>7. buys \in Nat /\ sells \in Nat /\ bought \in Nat /\ sold \in Nat
    BY <2>6, MapsAreOrderly
  <2>8. Highest(end) = traded + buys + bought /\ Lowest(end) = traded - sells - sold
    BY <2>4 DEF Highest, Lowest
  <2>9. Highest(Current) <= MaxPosition /\ Lowest(Current) >= -MaxPosition
    <3>1. Proved!WithinPosition(position, Proved!Buys, Proved!Sells)
      BY DEF MakerInv, AccountOK, Proved!Limits, Proved!WorstCasePosition
    <3>2. /\ \A s : Proved!Exposure(riskLive, s) \in Nat
          /\ \A s : Proved!Exposure(riskPending, s) \in Nat
      BY <2>6, MapsAreOrderly
    <3> DEFINE lb == Proved!Exposure(riskLive, "Buy")
               ls == Proved!Exposure(riskLive, "Sell")
               pb == Proved!Exposure(riskPending, "Buy")
               ps == Proved!Exposure(riskPending, "Sell")
    <3>3. Highest(Current) = position + lb + pb /\ Lowest(Current) = position - ls - ps
      BY <2>5 DEF Highest, Lowest
    <3>4. position + (lb + pb) <= MaxPosition /\ position - (ls + ps) >= -MaxPosition
      BY <3>1 DEF Proved!WithinPosition, Proved!Buys, Proved!Sells
    <3>5. lb \in Nat /\ ls \in Nat /\ pb \in Nat /\ ps \in Nat
      BY <3>2
    <3>6. MaxPosition \in Nat
      BY LimitNumbers
    <3> HIDE DEF lb, ls, pb, ps
    <3> QED BY <2>6, <3>3, <3>4, <3>5, <3>6
  <2>10. /\ Highest(end) <= Highest(Current) /\ Lowest(Current) <= Lowest(end)
         /\ Highest(Current) \in Int /\ Lowest(Current) \in Int
    BY <2>2, <2>3, ExtremesAreNumbers DEF Narrower
  <2>11. /\ Total(live, {o \in OwnOrders : live[o].side = "Buy"}) = buys
         /\ Total(live, {o \in OwnOrders : live[o].side = "Sell"}) = sells
    BY <2>6, ExposureIsTotal
  <2> HIDE DEF buys, sells, bought, sold
  <2>12. traded + buys <= MaxPosition /\ traded - sells >= -MaxPosition
    <3>1. MaxPosition \in Nat
      BY LimitNumbers
    <3> QED BY <2>6, <2>7, <2>8, <2>9, <2>10, <3>1
  <2> QED BY <2>11, <2>12 DEF TrueExposureWithinLimit, Risk!WithinPosition
<1> QED BY <1>1, MakerInvariant, PTL

-----------------------------------------------------------------------------
(* 8. How the maker quotes. *)

MakerCancellation(c) == c.kind = "cancel" /\ c.trader = Maker

\* The maker's cancellation of order o is on its way.
Leaving(o) == \E k \in DOMAIN queue : MakerCancellation(queue[k].command) /\ queue[k].command.order = o

Deciding == phase \notin {"idle", "run"}

Sorted == \A j, k \in DOMAIN queue : j < k => queue[j].at <= queue[k].at

\* The maker's commands run in the call that decided them, before any others.
OwnFirst ==
  /\ \A j, k \in DOMAIN queue : j < k /\ ByMaker(queue[k].command) => ByMaker(queue[j].command)
  /\ \A k \in DOMAIN queue :
       ByMaker(queue[k].command) => phase # "idle" /\ queue[k].at <= decideAt /\ queue[k].at <= until
  /\ Deciding => \A k \in DOMAIN queue : queue[k].at <= decideAt => ByMaker(queue[k].command)

\* They cancel orders that are there, each once, and then submit.
CancellationsOK ==
  /\ \A k \in DOMAIN queue : MakerCancellation(queue[k].command) => queue[k].command.order \in OwnOrders
  /\ \A j, k \in DOMAIN queue :
       /\ MakerCancellation(queue[j].command) /\ MakerCancellation(queue[k].command)
       /\ queue[j].command.order = queue[k].command.order
       => j = k
  /\ \A j, k \in DOMAIN queue :
       j < k /\ MakerSubmission(queue[j].command) => ~MakerCancellation(queue[k].command)

\* The quote meets no order of the other side.
Behind(r) ==
  \A o \in DOMAIN live : live[o].side # r.side =>
    IF r.side = "Buy" THEN r.price < live[o].price ELSE r.price > live[o].price

\* One quote of a side is submitted, when no order of the side stays.
SubmissionsOK ==
  /\ \A k \in DOMAIN queue : MakerSubmission(queue[k].command) =>
       /\ queue[k].command.request.price \in Prices
       /\ queue[k].command.request.quantity = QuoteQuantity
       /\ Behind(queue[k].command.request)
       /\ \A o \in OwnOrders : live[o].side = queue[k].command.request.side => Leaving(o)
  /\ \A j, k \in DOMAIN queue :
       MakerSubmission(queue[j].command) /\ MakerSubmission(queue[k].command) =>
         /\ queue[j].command.request.side = queue[k].command.request.side => j = k
         /\ queue[j].command.request.side = "Buy" /\ queue[k].command.request.side = "Sell" =>
              queue[j].command.request.price < queue[k].command.request.price

\* The sides whose quotes a decision has been through at a stage.
DecidedSides ==
  IF phase \in {"admit Sell", "bind Sell"} THEN {"Buy"} ELSE IF phase = "decided" THEN Sides ELSE {}

\* What the steps of a decision leave to the next.
DecisionOK ==
  Deciding =>
    /\ \A o \in ToCancel : Leaving(o)
    /\ \A k \in DOMAIN queue : MakerSubmission(queue[k].command) =>
         /\ queue[k].command.request.side \in DecidedSides
         /\ queue[k].command.request.price = DesiredQuotes[queue[k].command.request.side]
    /\ \A side \in Sides : phase = Binding(side) => DesiredQuotes[side] # NoPrice /\ ~HasMatching(side)

\* The account knows price and time of each order, which desired_quotes compares.
QuotedOK == DOMAIN quoted = DOMAIN riskLive /\ \A o \in DOMAIN quoted : quoted[o].price \in Prices

\* After a decision under the kill switch all orders are leaving.
WithdrawnOK ==
  withdrawn =>
    /\ kill /\ \A o \in OwnOrders : Leaving(o)
    /\ \A k \in DOMAIN queue : ~MakerSubmission(queue[k].command)

QuotingInv ==
  /\ Sorted /\ OwnFirst /\ CancellationsOK /\ SubmissionsOK /\ DecisionOK /\ QuotedOK /\ WithdrawnOK
  /\ OneQuotePerSide

\* The book can take a quote more: no number and no level is used up.
RoomLeft ==
  /\ nextPriority <= MaxPriority
  /\ \A side \in Sides, p \in Prices : levels[side][p].total + QuoteQuantity <= MaxAggregate

\* Nothing of the maker is queued.
NoneQueued == \A k \in DOMAIN queue : ~ByMaker(queue[k].command)

\* What is left of the invariant when nothing of the maker is queued.
Quiet ==
  /\ Sorted /\ NoneQueued /\ ~Deciding /\ QuotedOK /\ OneQuotePerSide
  /\ withdrawn => kill /\ OwnOrders = {}

LEMMA OwnCommands ==
  \A c : /\ MakerSubmission(c) => ByMaker(c) /\ c.kind = "submit"
         /\ MakerCancellation(c) => ByMaker(c) /\ c.kind = "cancel"
         /\ ByMaker(c) => MakerSubmission(c) \/ MakerCancellation(c)
BY DEF MakerSubmission, MakerCancellation, ByMaker

LEMMA QuietQuotes ==
  ASSUME Quiet'
  PROVE  QuotingInv'
<1>1. /\ Sorted' /\ QuotedOK' /\ OneQuotePerSide' /\ ~Deciding'
      /\ \A k \in DOMAIN queue' : ~ByMaker(queue'[k].command)
      /\ withdrawn' => kill' /\ OwnOrders' = {}
  BY DEF Quiet, NoneQueued
<1>2. \A k \in DOMAIN queue' : ~MakerSubmission(queue'[k].command) /\ ~MakerCancellation(queue'[k].command)
  BY <1>1, OwnCommands
<1>3. OwnFirst'
  BY <1>1 DEF OwnFirst
<1>4. CancellationsOK' /\ SubmissionsOK'
  BY <1>2 DEF CancellationsOK, SubmissionsOK
<1>5. DecisionOK' /\ WithdrawnOK'
  BY <1>1, <1>2 DEF DecisionOK, WithdrawnOK
<1> QED BY <1>1, <1>3, <1>4, <1>5 DEF QuotingInv

LEMMA QuietNow ==
  ASSUME QuotingInv, NoneQueued, ~Deciding
  PROVE  Quiet
<1>1. \A k \in DOMAIN queue : ~MakerCancellation(queue[k].command)
  BY OwnCommands DEF NoneQueued
<1>2. withdrawn => kill /\ OwnOrders = {}
  BY <1>1 DEF QuotingInv, WithdrawnOK, Leaving
<1> QED BY <1>2 DEF QuotingInv, Quiet

LEMMA EarlierOfTwo ==
  decideAt \in Nat /\ until \in Nat =>
    Min({decideAt, until}) = IF decideAt <= until THEN decideAt ELSE until
BY LesserOfTwo

\* The maker's commands are due.
LEMMA NoneLeft ==
  ASSUME QuotingInv, QueueOK, PhaseOK, phase \in {"idle", "run"}, phase = "run" => ~Due
  PROVE  NoneQueued /\ Quiet
<1>1. /\ OwnFirst /\ decideAt \in Nat /\ until \in Nat
      /\ queue \in Seq(Entry)
  <2>1. Horizon \in Nat
    BY MakerAssumption
  <2>2. decideAt \in Nat \ {0} /\ until \in 0..Horizon
    BY Zenon DEF PhaseOK, IntentsOK
  <2>3. OwnFirst /\ queue \in Seq(Entry)
    BY DEF QuotingInv, QueueOK
  <2> QED BY <2>1, <2>2, <2>3
<1>2. NoneQueued
  <2> SUFFICES ASSUME NEW k \in DOMAIN queue, ByMaker(queue[k].command) PROVE FALSE
    BY DEF NoneQueued
  <2>1. k \in 1..Len(queue) /\ Len(queue) \in Nat /\ queue # <<>> /\ Head(queue) = queue[1] /\ 1 \in DOMAIN queue
    BY <1>1
  <2>2. ByMaker(queue[1].command)
    <3>1. 1 < k \/ k = 1
      BY <2>1
    <3> QED BY <1>1, <2>1, <3>1 DEF OwnFirst
  <2>3. phase # "idle" /\ queue[1].at <= decideAt /\ queue[1].at <= until
    BY <1>1, <2>1, <2>2, Zenon DEF OwnFirst
  <2>4. Due
    BY <1>1, <2>1, <2>3, EarlierOfTwo DEF Due
  <2> QED BY <2>3, <2>4
<1>3. ~Deciding
  BY DEF Deciding
<1> QED BY <1>2, <1>3, QuietNow

\* An account whose orders, quotes and book stay is sound where it was.
LEMMA QuietRests ==
  ASSUME Quiet, UNCHANGED <<queue, live, riskLive, quoted, withdrawn>>, ~Deciding', kill => kill'
  PROVE  QuotingInv'
<1>1. Sorted' /\ NoneQueued' /\ QuotedOK'
  BY DEF Quiet, Sorted, NoneQueued, QuotedOK
<1>2. OwnOrders' = OwnOrders
  BY DEF OwnOrders
<1>3. OneQuotePerSide' /\ (withdrawn' => kill' /\ OwnOrders' = {})
  BY <1>2 DEF Quiet, OneQuotePerSide
<1> QED BY <1>1, <1>3, QuietQuotes DEF Quiet

\* Where the commands that are enqueued at a time come: behind what is due by
\* then, which are the first p of the queue.
Slotted(commands, at, p) ==
  /\ p \in 0..Len(queue)
  /\ \A k \in DOMAIN queue : k <= p <=> queue[k].at <= at
  /\ \A k \in DOMAIN queue' :
       \/ k <= p /\ k \in DOMAIN queue /\ queue'[k] = queue[k]
       \/ k - p \in 1..Len(commands) /\ queue'[k].at = at /\ queue'[k].command = commands[k - p]
       \/ /\ p + Len(commands) < k /\ k - Len(commands) \in DOMAIN queue
          /\ queue'[k] = queue[k - Len(commands)]

LEMMA QueueNumbers ==
  ASSUME QueueOK
  PROVE  /\ queue \in Seq(Entry) /\ Len(queue) \in Nat /\ DOMAIN queue = 1..Len(queue)
         /\ \A k \in DOMAIN queue : queue[k].at \in Nat /\ queue[k].command \in Command
<1>1. queue \in Seq(Entry)
  BY DEF QueueOK
<1>2. \A x \in Entry : x.at \in Nat /\ x.command \in Command
  BY DEF Entry
<1>3. Len(queue) \in Nat /\ DOMAIN queue = 1..Len(queue) /\ \A k \in DOMAIN queue : queue[k] \in Entry
  BY <1>1
<1> QED BY <1>1, <1>2, <1>3

LEMMA EnqueueSlots ==
  ASSUME QueueOK, Sorted, NEW commands \in Seq(Command), NEW at \in Nat, Enqueue(commands, at)
  PROVE  /\ Sorted'
         /\ \E p : /\ Slotted(commands, at, p)
                   /\ \A j \in 1..Len(commands) :
                        p + j \in DOMAIN queue' /\ queue'[p + j].at = at /\ queue'[p + j].command = commands[j]
         /\ \A j \in DOMAIN queue : \E k \in DOMAIN queue' : queue'[k] = queue[j]
<1> DEFINE n == Len(queue)
           m == Len(commands)
           S == {k \in DOMAIN queue : queue[k].at <= at}
<1>1. /\ n \in Nat /\ m \in Nat /\ DOMAIN queue = 1..n
      /\ \A k \in 1..n : queue[k].at \in Nat
  <2>1. m \in Nat
    OBVIOUS
  <2> QED BY <2>1, QueueNumbers
<1>2. PICK p \in 0..n :
           /\ p = Cardinality(S)
           /\ queue' \in Seq(Entry) /\ Len(queue') = n + m
           /\ \A j \in 1..p : queue'[j] = queue[j]
           /\ \A k \in 1..m : queue'[p + k] = EntryAt(commands[k], at, nextIngress + k - 1)
           /\ \A j \in (p + 1)..n : queue'[j + m] = queue[j]
  BY EnqueuePlaces
<1>3. DOMAIN queue' = 1..(n + m)
  BY <1>2
<1>4. \A j \in 1..m : /\ EntryAt(commands[j], at, nextIngress + j - 1).at = at
                      /\ EntryAt(commands[j], at, nextIngress + j - 1).command = commands[j]
  BY DEF EntryAt
<1>5. \A k \in 1..n : k <= p <=> queue[k].at <= at
  <2>1. S \in SUBSET (1..n)
    BY <1>1
  <2>2. \A k \in S : \A j \in 1..k : j \in S
    <3> SUFFICES ASSUME NEW k \in S, NEW j \in 1..k PROVE j \in S
      OBVIOUS
    <3>1. k \in 1..n /\ j \in 1..n /\ (j < k \/ j = k) /\ queue[k].at <= at
      BY <1>1
    <3>2. queue[j].at <= queue[k].at
      BY <1>1, <3>1 DEF Sorted
    <3> QED BY <1>1, <3>1, <3>2
  <2> HIDE DEF S, n
  <2>3. S = 1..p
    BY <1>1, <1>2, <2>1, <2>2, NoGaps
  <2> QED BY <1>1, <1>2, <2>3 DEF S
<1> HIDE DEF n, m, S
<1>6. ASSUME NEW k \in 1..(n + m)
      PROVE  \/ k <= p /\ k \in 1..n /\ queue'[k] = queue[k]
             \/ k - p \in 1..m /\ queue'[k].at = at /\ queue'[k].command = commands[k - p]
             \/ p + m < k /\ k - m \in 1..n /\ queue'[k] = queue[k - m]
  <2>1. CASE k <= p
    BY <1>1, <1>2, <2>1
  <2>2. CASE p + m < k
    <3>1. k - m \in (p + 1)..n /\ (k - m) + m = k /\ k - m \in 1..n
      BY <1>1, <2>2
    <3>2. queue'[(k - m) + m] = queue[k - m]
      BY <1>2, <3>1, Zenon
    <3> QED BY <2>2, <3>1, <3>2
  <2>3. CASE ~(k <= p) /\ ~(p + m < k)
    <3>1. k - p \in 1..m /\ p + (k - p) = k
      BY <1>1, <2>3
    <3>2. queue'[p + (k - p)] = EntryAt(commands[k - p], at, nextIngress + (k - p) - 1)
      BY <1>2, <3>1, Zenon
    <3> QED BY <1>4, <3>1, <3>2
  <2> QED BY <2>1, <2>2, <2>3
<1>7. Sorted'
  <2> SUFFICES ASSUME NEW j \in 1..(n + m), NEW k \in 1..(n + m), j < k
               PROVE  queue'[j].at <= queue'[k].at
    BY <1>3 DEF Sorted
  <2>1. \A a, b \in 1..n : a < b => queue[a].at <= queue[b].at
    BY <1>1 DEF Sorted
  <2>2. CASE k <= p
    <3>1. j <= p /\ ~(j - p \in 1..m) /\ ~(p + m < j) /\ ~(k - p \in 1..m) /\ ~(p + m < k)
      BY <1>1, <2>2
    <3> QED BY <1>6, <2>1, <3>1
  <2>3. CASE p + m < j
    <3>1. ~(j <= p) /\ ~(j - p \in 1..m) /\ ~(k <= p) /\ ~(k - p \in 1..m)
      BY <1>1, <2>3
    <3>2. /\ j - m \in 1..n /\ queue'[j] = queue[j - m] /\ k - m \in 1..n /\ queue'[k] = queue[k - m]
          /\ j - m < k - m
      BY <1>1, <1>6, <3>1
    <3> QED BY <2>1, <3>2
  <2>4. CASE ~(k <= p) /\ ~(p + m < j)
    <3>1. queue'[j].at <= at /\ queue'[j].at \in Nat
      <4>1. ~(p + m < j)
        BY <2>4
      <4> QED BY <1>1, <1>5, <1>6, <4>1
    <3>2. at <= queue'[k].at /\ queue'[k].at \in Nat
      <4>1. \/ k - p \in 1..m /\ queue'[k].at = at
            \/ p + m < k /\ k - m \in 1..n /\ queue'[k] = queue[k - m]
        <5>1. k \in 1..(n + m) /\ ~(k <= p)
          BY <2>4
        <5> QED BY <1>6, <5>1
      <4>2. p + m < k => ~(k - m <= p)
        BY <1>1
      <4> QED BY <1>1, <1>5, <4>1, <4>2
    <3> QED BY <3>1, <3>2
  <2> QED BY <2>2, <2>3, <2>4
<1>8. \A j \in DOMAIN queue : \E k \in DOMAIN queue' : queue'[k] = queue[j]
  <2> SUFFICES ASSUME NEW j \in 1..n PROVE \E k \in 1..(n + m) : queue'[k] = queue[j]
    BY <1>1, <1>3
  <2>1. CASE j <= p
    <3>1. j \in 1..(n + m) /\ j \in 1..p
      BY <1>1, <2>1
    <3> QED BY <1>2, <3>1
  <2>2. CASE ~(j <= p)
    <3>1. j + m \in 1..(n + m) /\ j \in (p + 1)..n
      BY <1>1, <2>2
    <3> QED BY <1>2, <3>1
  <2> QED BY <2>1, <2>2
<1>9. Slotted(commands, at, p)
  BY <1>1, <1>2, <1>3, <1>5, <1>6 DEF Slotted, n, m
<1>10. \A j \in 1..m : p + j \in DOMAIN queue' /\ queue'[p + j].at = at /\ queue'[p + j].command = commands[j]
  <2>1. \A j \in 1..m : p + j \in 1..(n + m)
    BY <1>1
  <2> QED BY <1>2, <1>3, <1>4, <2>1
<1> QED BY <1>7, <1>8, <1>9, <1>10 DEF m

LEMMA ConsumeQuotes ==
  ASSUME MakerInv, QuotingInv, Consume
  PROVE  QuotingInv'
<1> DEFINE e == Head(events)
<1>1. /\ QueueOK /\ PhaseOK /\ phase = "run" /\ ~Due /\ events # <<>> /\ events \in Seq(Event)
      /\ Apply(e) /\ quoted' = Quotes(e)
      /\ UNCHANGED exchangeVars /\ UNCHANGED schedule /\ UNCHANGED control
  BY DEF MakerInv, EventsOK, Consume
<1>2. e \in Event
  BY <1>1
<1> HIDE DEF e
<1>3. Quiet
  BY <1>1, NoneLeft
<1>4. live' = live /\ queue' = queue /\ phase' = phase /\ withdrawn' = withdrawn
  BY <1>1 DEF exchangeVars, vars, schedule, control
<1>5. kill' = kill
  BY <1>1 DEF Apply, ApplyAcknowledged, ApplyExecuted, Risk!ApplyOther, Risk!ApplyAcknowledged, Risk!ApplyFill,
              Risk!ApplyOutcome, Risk!ApplyRejected, Risk!ApplyCancellation
<1>6. \/ DOMAIN riskLive' \subseteq DOMAIN riskLive
      \/ e.kind = "acknowledged" /\ IsLimit(e.order)
  <2>1. \/ e.kind = "acknowledged" /\ IsLimit(e.order)
        \/ Risk!ApplyOther(Sequence)
        \/ Risk!ApplyFill(Sequence, e.order, e.side, e.quantity)
        \/ Risk!ApplyOutcome(Sequence, e.order, e.remaining)
        \/ Risk!ApplyRejected(Sequence, e.ingress)
        \/ Risk!ApplyCancellation(Sequence, e.order)
    BY <1>1 DEF Apply, ApplyAcknowledged, ApplyExecuted
  <2>2. Risk!ApplyOther(Sequence) \/ Risk!ApplyRejected(Sequence, e.ingress) => riskLive' = riskLive
    BY DEF Risk!ApplyOther, Risk!ApplyRejected
  <2>3. Risk!ApplyFill(Sequence, e.order, e.side, e.quantity) => DOMAIN riskLive' \subseteq DOMAIN riskLive
    BY DEF Risk!ApplyFill, Risk!Without
  <2>4. Risk!ApplyOutcome(Sequence, e.order, e.remaining) => DOMAIN riskLive' \subseteq DOMAIN riskLive
    BY DEF Risk!ApplyOutcome, Risk!Without
  <2>5. Risk!ApplyCancellation(Sequence, e.order) => DOMAIN riskLive' \subseteq DOMAIN riskLive
    BY DEF Risk!ApplyCancellation, Risk!Without
  <2> QED BY <2>1, <2>2, <2>3, <2>4, <2>5
<1>7. e.kind = "acknowledged" /\ IsLimit(e.order) => e.order.price \in Prices
  <2>1. e.kind = "acknowledged" => e.order \in Incoming
    BY <1>2, EventFields
  <2> QED BY <2>1 DEF Incoming, IsLimit
<1>8. QuotedOK'
  <2>1. quoted' = [o \in DOMAIN riskLive' |->
                     IF o \in DOMAIN quoted THEN quoted[o] ELSE [price |-> e.order.price, at |-> e.at]]
    BY <1>1 DEF Quotes
  <2>2. DOMAIN quoted = DOMAIN riskLive /\ \A o \in DOMAIN quoted : quoted[o].price \in Prices
    BY <1>3 DEF Quiet, QuotedOK
  <2>3. \A o \in DOMAIN quoted' : quoted'[o].price \in Prices
    <3> SUFFICES ASSUME NEW o \in DOMAIN riskLive' PROVE quoted'[o].price \in Prices
      BY <2>1
    <3>1. CASE o \in DOMAIN quoted
      BY <2>1, <2>2, <3>1
    <3>2. CASE o \notin DOMAIN quoted
      <4>1. quoted'[o].price = e.order.price
        BY <2>1, <3>2
      <4>2. e.kind = "acknowledged" /\ IsLimit(e.order)
        BY <1>6, <2>2, <3>2
      <4> QED BY <1>7, <4>1, <4>2
    <3> QED BY <3>1, <3>2
  <2> QED BY <2>1, <2>3 DEF QuotedOK
<1>9. Quiet'
  <2>1. Sorted' /\ NoneQueued' /\ ~Deciding'
    BY <1>3, <1>4 DEF Quiet, Sorted, NoneQueued, Deciding
  <2>2. OwnOrders' = OwnOrders
    BY <1>4 DEF OwnOrders
  <2>3. OneQuotePerSide' /\ (withdrawn' => kill' /\ OwnOrders' = {})
    BY <1>3, <1>4, <1>5, <2>2 DEF Quiet, OneQuotePerSide
  <2> QED BY <1>8, <2>1, <2>3 DEF Quiet
<1> QED BY <1>9, QuietQuotes

LEMMA PauseQuotes ==
  ASSUME MakerInv, QuotingInv, ConsumeFails \/ Return \/ (\E time \in 1..Horizon : RunUntil(time)) \/ ActivateKillSwitch
  PROVE  QuotingInv'
<1>1. /\ QueueOK /\ PhaseOK /\ phase \in {"idle", "run"} /\ (phase = "run" => ~Due)
      /\ UNCHANGED exchangeVars /\ UNCHANGED schedule /\ riskLive' = riskLive /\ quoted' = quoted
      /\ withdrawn' = withdrawn /\ phase' \in {"idle", "run"} /\ (kill => kill')
  <2>1. CASE ConsumeFails
    BY <2>1 DEF MakerInv, ConsumeFails, account
  <2>2. CASE Return
    BY <2>2 DEF MakerInv, Return, account
  <2>3. CASE \E time \in 1..Horizon : RunUntil(time)
    BY <2>3 DEF MakerInv, RunUntil, account
  <2>4. CASE ActivateKillSwitch
    BY <2>4 DEF MakerInv, ActivateKillSwitch, Risk!SetKillSwitch, control
  <2> QED BY <2>1, <2>2, <2>3, <2>4
<1>2. Quiet
  BY <1>1, NoneLeft
<1>3. UNCHANGED <<queue, live, riskLive, quoted, withdrawn>> /\ ~Deciding'
  BY <1>1 DEF exchangeVars, vars, schedule, Deciding
<1> QED BY <1>1, <1>2, <1>3, QuietRests

LEMMA OthersCommands ==
  ASSUME NEW command \in External
  PROVE  command \in Command /\ ~ByMaker(command)
<1>1. CASE \E r \in SubmitOrderRequest : r.trader # Maker /\ command = Submission(r)
  BY <1>1 DEF Submission, Command, ByMaker
<1>2. CASE \E t \in Traders \ {Maker}, o \in Orders : command = Cancellation(t, o)
  BY <1>2 DEF Cancellation, Command, ByMaker
<1>3. CASE \E target \in Statuses : command = Lifecycle(target)
  BY <1>3 DEF Lifecycle, Command, ByMaker
<1> QED BY <1>1, <1>2, <1>3, ExternalAssumption

LEMMA EnqueueExternalQuotes ==
  ASSUME MakerInv, QuotingInv, NEW command \in External, NEW at \in 1..Horizon, EnqueueExternal(command, at)
  PROVE  QuotingInv'
<1>1. /\ QueueOK /\ PhaseOK /\ phase = "idle" /\ Enqueue(<<command>>, at)
      /\ UNCHANGED exchangeVars /\ UNCHANGED account /\ UNCHANGED control /\ quoted' = quoted
  BY DEF MakerInv, EnqueueExternal
<1>2. Quiet
  BY <1>1, NoneLeft
<1>3. live' = live /\ riskLive' = riskLive /\ kill' = kill /\ phase' = phase /\ withdrawn' = withdrawn
  BY <1>1 DEF exchangeVars, vars, account, control
<1> DEFINE commands == <<command>>
<1>4. commands \in Seq(Command) /\ Len(commands) = 1 /\ commands[1] = command /\ ~ByMaker(command)
  BY OthersCommands
<1>5. Enqueue(commands, at) /\ Sorted /\ NoneQueued
  BY <1>1, <1>2 DEF Quiet
<1> HIDE DEF commands
<1>6. Sorted' /\ \E p : Slotted(commands, at, p)
  <2>1. at \in Nat
    BY MakerAssumption
  <2> QED BY <1>1, <1>4, <1>5, <2>1, EnqueueSlots
<1>7. NoneQueued'
  <2>1. PICK p : Slotted(commands, at, p)
    BY <1>6
  <2> SUFFICES ASSUME NEW k \in DOMAIN queue' PROVE ~ByMaker(queue'[k].command)
    BY DEF NoneQueued
  <2>2. \/ \E j \in DOMAIN queue : queue'[k] = queue[j]
        \/ \E j \in 1..Len(commands) : queue'[k].command = commands[j]
    BY <2>1, Zenon DEF Slotted
  <2>3. \A j \in 1..Len(commands) : commands[j] = command
    BY <1>4
  <2> QED BY <1>4, <1>5, <2>2, <2>3, Zenon DEF NoneQueued
<1>8. Quiet'
  <2>1. QuotedOK' /\ ~Deciding'
    BY <1>1, <1>2, <1>3 DEF Quiet, QuotedOK, Deciding
  <2>2. OwnOrders' = OwnOrders
    BY <1>3 DEF OwnOrders
  <2>3. OneQuotePerSide' /\ (withdrawn' => kill' /\ OwnOrders' = {})
    BY <1>2, <1>3, <2>2 DEF Quiet, OneQuotePerSide
  <2> QED BY <1>6, <1>7, <2>1, <2>3 DEF Quiet
<1> QED BY <1>8, QuietQuotes

LEMMA DecidedQuotes ==
  ASSUME MakerInv, QuotingInv, Decided
  PROVE  QuotingInv'
<1>1. /\ phase = "decided" /\ phase' = "run" /\ decideAt' = decideAt + Interval
      /\ UNCHANGED <<live, queue, riskLive, quoted, kill, until, withdrawn>>
      /\ decideAt \in Nat /\ QueueOK
  BY DEF MakerInv, PhaseOK, IntentsOK, Decided, exchangeVars, vars, schedule, account
<1>2. Interval \in Nat
  BY MakerAssumption
<1>3. OwnOrders' = OwnOrders /\ (\A o : Leaving(o)' <=> Leaving(o)) /\ \A r : Behind(r)' <=> Behind(r)
  BY <1>1 DEF OwnOrders, Leaving, Behind
<1>4. Sorted' /\ CancellationsOK' /\ SubmissionsOK' /\ QuotedOK' /\ WithdrawnOK' /\ OneQuotePerSide'
  BY <1>1, <1>3 DEF QuotingInv, Sorted, CancellationsOK, SubmissionsOK, QuotedOK, WithdrawnOK, OneQuotePerSide
<1>5. DecisionOK' /\ ~Deciding'
  BY <1>1 DEF DecisionOK, Deciding
<1>6. OwnFirst'
  <2>1. \A k \in DOMAIN queue : queue[k].at \in Nat
    BY <1>1, QueueNumbers
  <2>2. \A k \in DOMAIN queue : queue[k].at <= decideAt => queue[k].at <= decideAt'
    BY <1>1, <1>2, <2>1
  <2>3. OwnFirst /\ phase' # "idle" /\ queue' = queue /\ until' = until
    BY <1>1 DEF QuotingInv
  <2> QED BY <1>5, <2>2, <2>3 DEF OwnFirst
<1> QED BY <1>4, <1>5, <1>6 DEF QuotingInv

LEMMA StutterQuotes ==
  ASSUME QuotingInv, UNCHANGED makerVars
  PROVE  QuotingInv'
<1>1. /\ UNCHANGED <<live, queue, riskLive, quoted, kill, until, withdrawn, decideAt, phase, position, source, lastTrade>>
      /\ view' = view
  BY DEF makerVars, exchangeVars, vars, market, schedule, account, control
<1>2. OwnOrders' = OwnOrders /\ (\A o : Leaving(o)' <=> Leaving(o)) /\ \A r : Behind(r)' <=> Behind(r)
  BY <1>1 DEF OwnOrders, Leaving, Behind
<1>3. DesiredQuotes' = DesiredQuotes
  BY <1>1 DEF DesiredQuotes, ReferencePrice, Best, Center
<1>4. ToCancel' = ToCancel /\ \A side : HasMatching(side)' <=> HasMatching(side)
  BY <1>1, <1>3 DEF ToCancel, HasMatching, Kept
<1>5. Deciding' = Deciding /\ DecidedSides' = DecidedSides
  BY <1>1 DEF Deciding, DecidedSides
<1>6. DecisionOK'
  BY <1>1, <1>2, <1>3, <1>4, <1>5 DEF QuotingInv, DecisionOK
<1>7. Sorted' /\ OwnFirst' /\ CancellationsOK' /\ SubmissionsOK' /\ QuotedOK' /\ WithdrawnOK' /\ OneQuotePerSide'
  BY <1>1, <1>2, <1>5 DEF QuotingInv, Sorted, OwnFirst, CancellationsOK, SubmissionsOK, QuotedOK, WithdrawnOK,
                          OneQuotePerSide
<1> QED BY <1>6, <1>7 DEF QuotingInv

\* The commands of a decision cancel each order of ToCancel once.
LEMMA CancellationsListed ==
  ASSUME ToCancel \subseteq Orders
  PROVE  \E commands \in Seq(Command) :
           /\ LET orders == InOrder(ToCancel, {e \in ToCancel \X ToCancel : e[1] < e[2]})
              IN commands = [k \in DOMAIN orders |-> Cancellation(Maker, orders[k])]
           /\ \A k \in 1..Len(commands) : MakerCancellation(commands[k]) /\ commands[k].order \in ToCancel
           /\ \A o \in ToCancel : \E k \in 1..Len(commands) : commands[k].order = o
           /\ \A j, k \in 1..Len(commands) : commands[j].order = commands[k].order => j = k
<1> DEFINE R == {e \in ToCancel \X ToCancel : e[1] < e[2]}
           orders == InOrder(ToCancel, R)
           commands == [k \in DOMAIN orders |-> Cancellation(Maker, orders[k])]
           n == Cardinality(ToCancel)
<1>1. IsFiniteSet(ToCancel) /\ \A x \in ToCancel : x \in Nat
  BY ExchangeAssumption, FS_Subset
<1>2. StrictlyOrders(ToCancel, R)
  BY <1>1 DEF StrictlyOrders
<1>3. n \in Nat /\ Lists(orders, ToCancel, R)
  BY <1>1, <1>2, InOrderLists
<1>4. \A x, y : <<x, y>> \in R => x < y
  OBVIOUS
<1> HIDE DEF R, orders, n
<1>5. /\ DOMAIN orders = 1..n /\ (\A k \in 1..n : orders[k] \in ToCancel)
      /\ \A x \in ToCancel : \E k \in 1..n : orders[k] = x
      /\ \A i, j \in 1..n : i < j => orders[i] < orders[j]
  BY <1>3, <1>4 DEF Lists, n
<1>6. commands = [k \in 1..n |-> Cancellation(Maker, orders[k])]
  BY <1>5
<1>7. \A k \in 1..n : /\ Cancellation(Maker, orders[k]) \in Command
                      /\ MakerCancellation(Cancellation(Maker, orders[k]))
                      /\ Cancellation(Maker, orders[k]).order = orders[k]
  <2>1. \A k \in 1..n : orders[k] \in Orders
    BY <1>5
  <2> QED BY <2>1, MakerAssumption DEF Cancellation, Command, MakerCancellation
<1>8. \A k \in 1..n : commands[k] = Cancellation(Maker, orders[k])
  BY <1>6
<1>9. commands \in Seq(Command) /\ Len(commands) = n
  <2>1. commands \in [1..n -> Command]
    BY <1>6, <1>7
  <2> QED BY <1>3, <1>6, <2>1
<1>10. commands = [k \in DOMAIN orders |-> Cancellation(Maker, orders[k])]
  OBVIOUS
<1> HIDE DEF commands
<1>11. \A k \in 1..n : MakerCancellation(commands[k]) /\ commands[k].order = orders[k]
  BY <1>7, <1>8
<1>12. \A j, k \in 1..n : commands[j].order = commands[k].order => j = k
  <2> SUFFICES ASSUME NEW j \in 1..n, NEW k \in 1..n, orders[j] = orders[k], j # k PROVE FALSE
    BY <1>11
  <2>1. orders[j] \in Nat /\ orders[k] \in Nat
    BY <1>1, <1>5
  <2>2. j < k \/ k < j
    BY <1>3
  <2> QED BY <1>5, <2>1, <2>2
<1>13. \A o \in ToCancel : \E k \in 1..n : commands[k].order = o
  BY <1>5, <1>11
<1>14. LET listed == InOrder(ToCancel, {e \in ToCancel \X ToCancel : e[1] < e[2]})
       IN commands = [k \in DOMAIN listed |-> Cancellation(Maker, listed[k])]
  BY <1>10 DEF orders, R
<1>15. /\ \A k \in 1..Len(commands) : MakerCancellation(commands[k]) /\ commands[k].order \in ToCancel
       /\ \A o \in ToCancel : \E k \in 1..Len(commands) : commands[k].order = o
       /\ \A j, k \in 1..Len(commands) : commands[j].order = commands[k].order => j = k
  BY <1>5, <1>9, <1>11, <1>12, <1>13
<1> QED BY <1>9, <1>14, <1>15

\* What a decision reads.
LEMMA SameQuotes ==
  ASSUME UNCHANGED <<kill, source, lastTrade, position, view, riskLive, quoted, decideAt>>
  PROVE  /\ DesiredQuotes' = DesiredQuotes /\ ToCancel' = ToCancel
         /\ \A side : HasMatching(side)' <=> HasMatching(side)
<1>1. DesiredQuotes' = DesiredQuotes
  BY DEF DesiredQuotes, ReferencePrice, Best, Center
<1>2. ToCancel' = ToCancel /\ \A side : HasMatching(side)' <=> HasMatching(side)
  BY <1>1 DEF ToCancel, HasMatching, Kept
<1> QED BY <1>1, <1>2

LEMMA KilledQuotes ==
  ASSUME kill
  PROVE  (\A side \in Sides : DesiredQuotes[side] = NoPrice) /\ (QuotedOK => \A o \in DOMAIN riskLive : riskLive[o].side \in Sides => o \in ToCancel)
<1>1. \A side \in Sides : DesiredQuotes[side] = NoPrice
  BY DEF DesiredQuotes, NoQuotes
<1>2. NoPrice \notin Prices
  BY LadderAssumption
<1> QED BY <1>1, <1>2 DEF QuotedOK, ToCancel, Kept

\* The account's orders while every event is consumed.
LEMMA QuietOrders ==
  ASSUME IInv, Follows, events = <<>>
  PROVE  /\ DOMAIN riskLive = OwnOrders /\ ToCancel \subseteq OwnOrders /\ OwnOrders \subseteq Orders
         /\ \A o \in OwnOrders : riskLive[o].side = live[o].side /\ live[o].side \in Sides
<1>1. riskLive = OrdersOf(live)
  BY QuietFollows
<1>2. Nodes(live)
  BY BookParts DEF IInv, BookInv, BookOK, Sound
<1>3. OwnOrders \subseteq Orders /\ \A o \in OwnOrders : live[o].side \in Sides
  BY <1>2, NodeFields DEF OwnOrders, Nodes
<1>4. DOMAIN riskLive = OwnOrders /\ \A o \in OwnOrders : riskLive[o].side = live[o].side
  BY <1>1 DEF OrdersOf, OwnOrders, RiskOrder
<1> QED BY <1>3, <1>4 DEF ToCancel

LEMMA DecideQuotes ==
  ASSUME MakerInv, QuotingInv, Decide
  PROVE  QuotingInv'
<1>1. /\ QueueOK /\ PhaseOK /\ IInv /\ Follows /\ phase = "run" /\ ~Due /\ decideAt <= until /\ events = <<>>
      /\ LET orders == InOrder(ToCancel, {e \in ToCancel \X ToCancel : e[1] < e[2]})
         IN Enqueue([k \in DOMAIN orders |-> Cancellation(Maker, orders[k])], decideAt)
      /\ withdrawn' = kill /\ phase' = "admit Buy"
      /\ UNCHANGED exchangeVars /\ UNCHANGED account
      /\ UNCHANGED <<quoted, lastTrade, source, until, decideAt>>
  BY Zenon DEF MakerInv, Decide
<1>2. Quiet
  BY Zenon, <1>1, NoneLeft
<1>3. /\ UNCHANGED <<live, view, riskLive, kill, position>> /\ Deciding' /\ DecidedSides' = {}
      /\ \A side \in Sides : phase' # Binding(side)
  BY Zenon, <1>1 DEF exchangeVars, vars, market, account, Deciding, DecidedSides, Binding
<1>4. /\ DOMAIN riskLive = OwnOrders /\ ToCancel \subseteq OwnOrders /\ OwnOrders \subseteq Orders
      /\ \A o \in OwnOrders : riskLive[o].side = live[o].side /\ live[o].side \in Sides
  BY Zenon, <1>1, QuietOrders
<1>5. /\ decideAt \in Nat /\ until \in Nat /\ decideAt <= until
      /\ queue \in Seq(Entry) /\ Len(queue) \in Nat /\ DOMAIN queue = 1..Len(queue)
      /\ \A k \in DOMAIN queue : queue[k].at \in Nat
  <2>1. decideAt \in Nat \ {0} /\ until \in 0..Horizon /\ Horizon \in Nat
    BY Zenon, <1>1, MakerAssumption DEF PhaseOK, IntentsOK
  <2>2. /\ queue \in Seq(Entry) /\ Len(queue) \in Nat /\ DOMAIN queue = 1..Len(queue)
        /\ \A k \in DOMAIN queue : queue[k].at \in Nat
    BY Zenon, <1>1, QueueNumbers
  <2>3. decideAt \in Nat /\ until \in Nat
    BY <2>1
  <2>4. decideAt <= until
    BY Zenon, <1>1
  <2> QED BY <2>2, <2>3, <2>4
<1>6. PICK commands \in Seq(Command) :
           /\ LET orders == InOrder(ToCancel, {e \in ToCancel \X ToCancel : e[1] < e[2]})
              IN commands = [k \in DOMAIN orders |-> Cancellation(Maker, orders[k])]
           /\ \A k \in 1..Len(commands) : MakerCancellation(commands[k]) /\ commands[k].order \in ToCancel
           /\ \A o \in ToCancel : \E k \in 1..Len(commands) : commands[k].order = o
           /\ \A j, k \in 1..Len(commands) : commands[j].order = commands[k].order => j = k
  <2>1. ToCancel \subseteq Orders
    BY <1>4
  <2> QED BY <2>1, CancellationsListed
<1>7. Enqueue(commands, decideAt)
  BY Zenon, <1>1, <1>6
<1>8. Sorted'
  BY Zenon, <1>1, <1>2, <1>5, <1>7, EnqueueSlots DEF Quiet
<1> DEFINE n == Len(commands)
<1>9. PICK p : /\ Slotted(commands, decideAt, p)
               /\ \A j \in 1..n :
                    p + j \in DOMAIN queue' /\ queue'[p + j].at = decideAt /\ queue'[p + j].command = commands[j]
  BY Zenon, <1>1, <1>2, <1>5, <1>7, EnqueueSlots DEF Quiet
<1>10. \A k \in DOMAIN queue : ~(queue[k].at <= decideAt)
  <2> SUFFICES ASSUME NEW k \in DOMAIN queue, queue[k].at <= decideAt PROVE FALSE
    OBVIOUS
  <2>1. 1 \in DOMAIN queue /\ Head(queue) = queue[1] /\ queue # <<>> /\ (1 < k \/ k = 1)
    BY <1>5
  <2>2. 1 < k => queue[1].at <= queue[k].at
    BY <1>2, <2>1 DEF Quiet, Sorted
  <2>3. queue[1].at <= decideAt
    BY <1>5, <2>1, <2>2
  <2> QED BY Zenon, <1>1, <1>5, <2>1, <2>3, EarlierOfTwo DEF Due
<1>11. p = 0
  <2>1. p \in 0..Len(queue) /\ \A k \in DOMAIN queue : ~(k <= p)
    BY <1>9, <1>10 DEF Slotted
  <2>2. 1 <= p => 1 \in DOMAIN queue
    BY <1>5, <2>1
  <2> QED BY <1>5, <2>1, <2>2
<1>12. n \in Nat
  OBVIOUS
<1>24. /\ \A k \in 1..n : MakerCancellation(commands[k]) /\ ByMaker(commands[k]) /\ commands[k].order \in ToCancel
       /\ \A o \in ToCancel : \E k \in 1..n : commands[k].order = o
       /\ \A j, k \in 1..n : commands[j].order = commands[k].order => j = k
  <2>1. \A k \in 1..n : MakerCancellation(commands[k]) /\ commands[k].order \in ToCancel
    BY <1>6
  <2> QED BY <1>6, <2>1, OwnCommands
<1>25. \A k \in DOMAIN queue' : k \in Nat
  <2>1. QueueOK'
    BY DecideKeeps DEF MakerInv
  <2>2. queue' \in Seq(Entry)
    BY <2>1 DEF QueueOK
  <2> QED BY <2>2
<1> HIDE DEF n
<1>13. \A j \in 1..n : j \in DOMAIN queue' /\ queue'[j].at = decideAt /\ queue'[j].command = commands[j]
  <2>1. \A j \in 1..n : p + j = j
    BY <1>11
  <2> QED BY <1>9, <2>1
<1>14. \A k \in DOMAIN queue' :
         \/ k \in 1..n /\ queue'[k].at = decideAt /\ queue'[k].command = commands[k]
         \/ n < k /\ ~ByMaker(queue'[k].command) /\ ~(queue'[k].at <= decideAt)
  <2> SUFFICES ASSUME NEW k \in DOMAIN queue'
               PROVE  \/ k \in 1..n /\ queue'[k].at = decideAt /\ queue'[k].command = commands[k]
                      \/ n < k /\ ~ByMaker(queue'[k].command) /\ ~(queue'[k].at <= decideAt)
    OBVIOUS
  <2>1. \/ k <= p /\ k \in DOMAIN queue
        \/ k - p \in 1..n /\ queue'[k].at = decideAt /\ queue'[k].command = commands[k - p]
        \/ p + n < k /\ k - n \in DOMAIN queue /\ queue'[k] = queue[k - n]
    BY <1>9, Zenon DEF Slotted, n
  <2>2. k \in DOMAIN queue => ~(k <= p)
    BY <1>5, <1>11
  <2>3. CASE k - p \in 1..n /\ queue'[k].at = decideAt /\ queue'[k].command = commands[k - p]
    <3>1. k \in Nat
      BY <1>25
    <3>2. k - p = k
      BY <1>11, <3>1
    <3> QED BY <2>3, <3>2
  <2>4. CASE p + n < k /\ k - n \in DOMAIN queue /\ queue'[k] = queue[k - n]
    <3>1. p + n = n
      BY <1>11, <1>12
    <3> QED BY <1>2, <1>10, <2>4, <3>1 DEF Quiet, NoneQueued
  <2> QED BY <2>1, <2>2, <2>3, <2>4
<1>15. \A k \in DOMAIN queue' : ByMaker(queue'[k].command) => k \in 1..n /\ MakerCancellation(queue'[k].command)
  BY <1>14, <1>24
<1>16. \A k \in DOMAIN queue' : MakerCancellation(queue'[k].command) => k \in 1..n /\ queue'[k].command = commands[k]
  BY <1>14, <1>15, OwnCommands
<1>17. \A k \in DOMAIN queue' : ~MakerSubmission(queue'[k].command)
  BY <1>15, OwnCommands DEF MakerSubmission, MakerCancellation
<1>18. OwnOrders' = OwnOrders /\ \A o \in ToCancel : Leaving(o)'
  <2>1. OwnOrders' = OwnOrders
    BY <1>3 DEF OwnOrders
  <2>2. ASSUME NEW o \in ToCancel PROVE Leaving(o)'
    <3>1. PICK k \in 1..n : commands[k].order = o /\ MakerCancellation(commands[k])
      BY <1>24
    <3>2. k \in DOMAIN queue' /\ queue'[k].command = commands[k]
      BY <1>13
    <3> QED BY <3>1, <3>2 DEF Leaving
  <2> QED BY <2>1, <2>2
<1>19. OwnFirst'
  <2>1. ASSUME NEW j \in DOMAIN queue', NEW k \in DOMAIN queue', j < k, ByMaker(queue'[k].command)
        PROVE  ByMaker(queue'[j].command)
    <3>1. k \in 1..n /\ ~(n < j)
      <4>1. k \in 1..n
        BY <1>15, <2>1
      <4>2. j \in Int
        BY <1>25
      <4> QED BY <1>12, <2>1, <4>1, <4>2
    <3>2. queue'[j].command = commands[j] /\ j \in 1..n
      BY <1>14, <3>1
    <3> QED BY <1>24, <3>2
  <2>2. ASSUME NEW k \in DOMAIN queue', ByMaker(queue'[k].command)
        PROVE  phase' # "idle" /\ queue'[k].at <= decideAt' /\ queue'[k].at <= until'
    <3>1. queue'[k].at = decideAt
      BY <1>14, <2>2
    <3>2. decideAt <= decideAt /\ decideAt <= until
      BY <1>5
    <3>3. decideAt' = decideAt /\ until' = until /\ phase' # "idle"
      BY Zenon, <1>1
    <3> QED BY <3>1, <3>2, <3>3
  <2>3. ASSUME NEW k \in DOMAIN queue', queue'[k].at <= decideAt' PROVE ByMaker(queue'[k].command)
    <3>1. queue'[k].command = commands[k] /\ k \in 1..n
      BY Zenon, <1>1, <1>14, <2>3
    <3> QED BY <1>24, <3>1
  <2> QED BY <2>1, <2>2, <2>3 DEF OwnFirst
<1>20. CancellationsOK'
  <2>1. \A k \in DOMAIN queue' : MakerCancellation(queue'[k].command) => queue'[k].command.order \in OwnOrders'
    BY <1>4, <1>16, <1>18, <1>24
  <2>2. ASSUME NEW j \in DOMAIN queue', NEW k \in DOMAIN queue',
               MakerCancellation(queue'[j].command), MakerCancellation(queue'[k].command),
               queue'[j].command.order = queue'[k].command.order
        PROVE  j = k
    BY <1>16, <1>24, <2>2
  <2> QED BY <1>17, <2>1, <2>2 DEF CancellationsOK
<1>21. SubmissionsOK' /\ QuotedOK' /\ OneQuotePerSide'
  <2>1. SubmissionsOK'
    BY <1>17 DEF SubmissionsOK
  <2>2. QuotedOK'
    BY Zenon, <1>1, <1>2, <1>3 DEF Quiet, QuotedOK
  <2>3. OneQuotePerSide'
    BY <1>2, <1>3, <1>18 DEF Quiet, OneQuotePerSide
  <2> QED BY <2>1, <2>2, <2>3
<1>22. DecisionOK'
  <2>1. ToCancel' = ToCancel
    BY Zenon, <1>1, <1>3, SameQuotes
  <2> QED BY <1>3, <1>17, <1>18, <2>1 DEF DecisionOK
<1>23. WithdrawnOK'
  <2>1. kill => \A o \in OwnOrders : o \in ToCancel
    BY <1>2, <1>4, KilledQuotes DEF Quiet
  <2> QED BY Zenon, <1>1, <1>3, <1>17, <1>18, <2>1 DEF WithdrawnOK
<1> QED BY <1>8, <1>19, <1>20, <1>21, <1>22, <1>23 DEF QuotingInv

LEMMA AdmitSideQuotes ==
  ASSUME MakerInv, QuotingInv, NEW side \in Sides, AdmitSide(side)
  PROVE  QuotingInv'
<1>1. /\ phase = Admitting(side)
      /\ UNCHANGED <<live, view, queue, lastTrade, source, quoted, until, decideAt, withdrawn>>
      /\ phase' \in {NextStage(side), Binding(side)} /\ (phase' = Binding(side) => Wanted(side))
      /\ UNCHANGED <<kill, position, riskLive>>
  <2>1. /\ phase = Admitting(side)
        /\ UNCHANGED <<live, view, queue, lastTrade, source, quoted, until, decideAt, withdrawn>>
    BY DEF AdmitSide, exchangeVars, vars, market, schedule
  <2>2. UNCHANGED account \/ Risk!Admit(nextIntent, side, QuoteQuantity, TRUE)
    BY DEF AdmitSide
  <2>3. UNCHANGED <<kill, position, riskLive>>
    BY <2>2 DEF account, Risk!Admit
  <2>4. NextStage(side) # Binding(side)
    BY Zenon DEF NextStage, Binding
  <2>5. phase' \in {NextStage(side), Binding(side)} /\ (phase' = Binding(side) => Wanted(side))
    BY <2>4 DEF AdmitSide
  <2> QED BY <2>1, <2>3, <2>5
<1>2. /\ Deciding /\ Deciding' /\ DecidedSides \subseteq DecidedSides'
      /\ \A other \in Sides : phase' = Binding(other) => other = side
  <2>1. \/ phase = "admit Buy" /\ phase' = "admit Sell"
        \/ phase = "admit Sell" /\ phase' = "decided"
        \/ phase = "admit Buy" /\ phase' = "bind Buy" /\ side = "Buy"
        \/ phase = "admit Sell" /\ phase' = "bind Sell" /\ side = "Sell"
    BY <1>1, StageNames, Zenon
  <2>2. DecidedSides \subseteq DecidedSides'
    BY Zenon, <2>1 DEF DecidedSides, Sides
  <2>3. \A other \in Sides : phase' = Binding(other) => other = side
    BY Zenon, <2>1 DEF Binding, Sides
  <2> QED BY Zenon, <2>1, <2>2, <2>3 DEF Deciding
<1>3. OwnOrders' = OwnOrders /\ (\A o : Leaving(o)' <=> Leaving(o)) /\ \A r : Behind(r)' <=> Behind(r)
  BY <1>1 DEF OwnOrders, Leaving, Behind
<1>4. /\ DesiredQuotes' = DesiredQuotes /\ ToCancel' = ToCancel
      /\ \A s : HasMatching(s)' <=> HasMatching(s)
  BY <1>1, SameQuotes
<1>5. DecisionOK'
  <2>1. \A o \in ToCancel' : Leaving(o)'
    BY <1>2, <1>3, <1>4 DEF QuotingInv, DecisionOK
  <2>2. \A k \in DOMAIN queue' : MakerSubmission(queue'[k].command) =>
          /\ queue'[k].command.request.side \in DecidedSides'
          /\ queue'[k].command.request.price = DesiredQuotes'[queue'[k].command.request.side]
    BY <1>1, <1>2, <1>4 DEF QuotingInv, DecisionOK
  <2>3. \A other \in Sides : phase' = Binding(other) => DesiredQuotes'[other] # NoPrice /\ ~HasMatching(other)'
    BY <1>1, <1>2, <1>4 DEF Wanted
  <2> QED BY <2>1, <2>2, <2>3 DEF DecisionOK
<1>6. Sorted' /\ CancellationsOK' /\ SubmissionsOK' /\ QuotedOK' /\ WithdrawnOK' /\ OneQuotePerSide'
  BY <1>1, <1>3 DEF QuotingInv, Sorted, CancellationsOK, SubmissionsOK, QuotedOK, WithdrawnOK, OneQuotePerSide
<1>7. OwnFirst'
  <2>1. phase' # "idle" /\ OwnFirst
    BY <1>2 DEF Deciding, QuotingInv
  <2> QED BY <1>1, <1>2, <2>1 DEF OwnFirst
<1> QED BY <1>5, <1>6, <1>7 DEF QuotingInv

LEMMA BestBounds ==
  ASSUME ViewIsBook, Sound(Book), NEW o \in DOMAIN live
  PROVE  LET side == live[o].side
         IN /\ Best(side) \in Prices
            /\ side = "Buy" => Best(side) >= live[o].price
            /\ side = "Sell" => Best(side) <= live[o].price
<1> DEFINE side == live[o].side
           p == live[o].price
           ticks == {l[2] : l \in {m \in view : m[1] = side}}
           entry == <<side, p, levels[side][p].total, levels[side][p].count>>
<1>1. Nodes(live) /\ LevelOK(levels[side][p], live, Mine(live, side, p)) /\ side \in Sides /\ p \in Prices
  BY BookParts, NodeFields DEF Sound
<1>2. levels[side][p].count # 0
  <2>1. o \in Mine(live, side, p) /\ IsFiniteSet(Mine(live, side, p))
    BY <1>1, FS_Subset DEF Mine, Nodes
  <2>2. levels[side][p].count = Cardinality(Mine(live, side, p))
    BY <1>1 DEF LevelOK
  <2> HIDE DEF side, p
  <2> QED BY <2>1, <2>2, FS_EmptySet
<1>3. \A x : x \in view <=>
        \E s \in Sides, q \in Prices :
          levels[s][q].count # 0 /\ x = <<s, q, levels[s][q].total, levels[s][q].count>>
  BY DisplayedLevels DEF ViewIsBook
<1>4. entry \in view
  BY <1>1, <1>2, <1>3
<1>5. entry[1] = side /\ entry[2] = p
  OBVIOUS
<1>6. \A x \in view : x[2] \in Prices
  BY <1>3
<1> HIDE DEF entry
<1>7. ticks \subseteq Prices /\ p \in ticks
  BY <1>4, <1>5, <1>6
<1>8. Best(side) = IF side = "Buy" THEN Max(ticks) ELSE Min(ticks)
  BY <1>7 DEF Best
<1> HIDE DEF ticks, side, p
<1>9. Max(ticks) \in Prices /\ Min(ticks) \in Prices /\ Max(ticks) >= p /\ Min(ticks) <= p
  BY <1>7, PriceExtremes
<1>10. Best(side) \in Prices /\ (side = "Buy" => Best(side) >= p) /\ (side = "Sell" => Best(side) <= p)
  BY <1>8, <1>9
<1> QED BY <1>10 DEF side, p

\* A quote is behind every order of the other side.
LEMMA QuoteIsBehind ==
  ASSUME IInv, EventsOK, position \in Int, NEW side \in Sides, DesiredQuotes[side] # NoPrice
  PROVE  /\ Behind(QuoteOf(side)) /\ DesiredQuotes[side] \in Prices
         /\ DesiredQuotes["Buy"] < DesiredQuotes["Sell"]
<1>1. ViewIsBook /\ Sound(Book)
  BY DEF IInv, BookInv, BookOK
<1>2. /\ DesiredQuotes["Buy"] \in Prices /\ DesiredQuotes["Sell"] \in Prices
      /\ DesiredQuotes["Buy"] < DesiredQuotes["Sell"]
      /\ Best("Sell") # NoPrice => DesiredQuotes["Buy"] < Best("Sell")
      /\ Best("Buy") # NoPrice => DesiredQuotes["Sell"] > Best("Buy")
  BY <1>1, QuotedPair DEF EventsOK
<1>3. Prices \subseteq Nat /\ NoPrice \notin Prices
  BY LadderAssumption
<1>4. ASSUME NEW o \in DOMAIN live, live[o].side # side
      PROVE  IF side = "Buy" THEN DesiredQuotes[side] < live[o].price ELSE DesiredQuotes[side] > live[o].price
  <2>1. live[o].price \in Prices /\ live[o].side \in Sides
    BY <1>1, BookParts, NodeFields DEF Sound
  <2>2. /\ Best(live[o].side) \in Prices
        /\ live[o].side = "Buy" => Best("Buy") >= live[o].price
        /\ live[o].side = "Sell" => Best("Sell") <= live[o].price
    BY <1>1, BestBounds
  <2>3. CASE side = "Buy"
    <3>1. live[o].side = "Sell" /\ Best("Sell") \in Prices /\ Best("Sell") <= live[o].price
      BY <1>4, <2>1, <2>2, <2>3 DEF Sides
    <3>2. DesiredQuotes["Buy"] < Best("Sell")
      BY <1>2, <1>3, <3>1
    <3>3. DesiredQuotes["Buy"] \in Nat /\ Best("Sell") \in Nat /\ live[o].price \in Nat
      BY <1>2, <1>3, <2>1, <3>1
    <3>4. DesiredQuotes["Buy"] < live[o].price
      BY <3>1, <3>2, <3>3
    <3> QED BY <2>3, <3>4
  <2>4. CASE side = "Sell"
    <3>1. live[o].side = "Buy" /\ Best("Buy") \in Prices /\ Best("Buy") >= live[o].price
      BY <1>4, <2>1, <2>2, <2>4 DEF Sides
    <3>2. DesiredQuotes["Sell"] > Best("Buy")
      BY <1>2, <1>3, <3>1
    <3>3. DesiredQuotes["Sell"] \in Nat /\ Best("Buy") \in Nat /\ live[o].price \in Nat
      BY <1>2, <1>3, <2>1, <3>1
    <3>4. DesiredQuotes["Sell"] > live[o].price
      BY <3>1, <3>2, <3>3
    <3> QED BY <2>4, <3>4
  <2> QED BY <2>3, <2>4 DEF Sides
<1>5. QuoteOf(side).side = side /\ QuoteOf(side).price = DesiredQuotes[side]
  BY DEF QuoteOf
<1> HIDE DEF QuoteOf
<1>6. Behind(QuoteOf(side))
  BY <1>4, <1>5 DEF Behind
<1> QED BY <1>2, <1>6 DEF Sides

\* A side's quote is queued behind the commands of the decision, and before all
\* others.
LEMMA BindSideQuotes ==
  ASSUME MakerInv, QuotingInv, NEW side \in Sides, BindSide(side)
  PROVE  QuotingInv'
<1> DEFINE c == Submission(QuoteOf(side))
           commands == <<c>>
<1>1. /\ IInv /\ QueueOK /\ AccountOK /\ EventsOK /\ PhaseOK /\ Follows
      /\ phase = Binding(side) /\ phase' = NextStage(side) /\ Enqueue(commands, decideAt)
      /\ Risk!BindIngress(nextIntent - 1, nextIngress)
      /\ UNCHANGED exchangeVars
      /\ UNCHANGED <<lastTrade, quoted, until, decideAt, source, withdrawn>>
  BY DEF MakerInv, BindSide
<1>2. events = <<>> /\ decideAt <= until /\ decideAt \in Nat /\ position \in Int
  <2>1. events = <<>> /\ decideAt <= until
    BY Zenon, <1>1, StageNames DEF PhaseOK
  <2>2. decideAt \in Nat
    BY Zenon, <1>1 DEF PhaseOK, IntentsOK
  <2>3. position \in Int
    BY <1>1 DEF AccountOK, Proved!TypeOK
  <2> QED BY <2>1, <2>2, <2>3
<1>3. UNCHANGED <<live, view, kill, position, riskLive>>
  BY <1>1 DEF exchangeVars, vars, market, Risk!BindIngress
<1>4. /\ Deciding /\ Deciding' /\ side \notin DecidedSides /\ DecidedSides' = DecidedSides \cup {side}
      /\ \A other \in Sides : phase' # Binding(other)
  <2>1. \/ phase = "bind Buy" /\ phase' = "admit Sell" /\ side = "Buy"
        \/ phase = "bind Sell" /\ phase' = "decided" /\ side = "Sell"
    BY <1>1, StageNames, Zenon
  <2>2. CASE phase = "bind Buy" /\ phase' = "admit Sell" /\ side = "Buy"
    BY Zenon, <2>2 DEF Deciding, DecidedSides, Binding
  <2>3. CASE phase = "bind Sell" /\ phase' = "decided" /\ side = "Sell"
    BY Zenon, <2>3 DEF Deciding, DecidedSides, Binding, Sides
  <2> QED BY Zenon, <2>1, <2>2, <2>3
<1>5. DesiredQuotes[side] # NoPrice /\ ~HasMatching(side) /\ ~kill /\ ~withdrawn
  <2>1. DesiredQuotes[side] # NoPrice /\ ~HasMatching(side)
    BY <1>1, <1>4 DEF QuotingInv, DecisionOK
  <2>2. ~kill
    BY <2>1, KilledQuotes
  <2> QED BY <2>1, <2>2 DEF QuotingInv, WithdrawnOK
<1>6. /\ DOMAIN riskLive = OwnOrders
      /\ \A o \in OwnOrders : riskLive[o].side = live[o].side
  BY <1>1, <1>2, QuietOrders
<1>7. /\ Behind(QuoteOf(side)) /\ DesiredQuotes[side] \in Prices
      /\ DesiredQuotes["Buy"] < DesiredQuotes["Sell"]
  BY <1>1, <1>2, <1>5, QuoteIsBehind
<1>8. /\ c.request = QuoteOf(side) /\ MakerSubmission(c) /\ ByMaker(c)
      /\ c.request.side = side /\ c.request.price = DesiredQuotes[side] /\ c.request.quantity = QuoteQuantity
  BY DEF Submission, QuoteOf, MakerSubmission, ByMaker
<1>9. c \in Command
  <2>1. QuoteOf(side) \in SubmitOrderRequest
    BY <1>7, MakerAssumption DEF QuoteOf, SubmitOrderRequest
  <2> QED BY <2>1 DEF Submission, Command
<1> HIDE DEF c
<1>10. commands \in Seq(Command) /\ Len(commands) = 1 /\ commands[1] = c
  BY <1>9
<1> HIDE DEF commands
<1>11. /\ Sorted'
       /\ \A j \in DOMAIN queue : \E k \in DOMAIN queue' : queue'[k] = queue[j]
       /\ \E p : /\ Slotted(commands, decideAt, p)
                 /\ \A j \in 1..Len(commands) : p + j \in DOMAIN queue' /\ queue'[p + j].command = commands[j]
  BY <1>1, <1>2, <1>10, EnqueueSlots DEF QuotingInv
<1>12. PICK p : /\ Slotted(commands, decideAt, p)
                /\ \A j \in 1..Len(commands) : p + j \in DOMAIN queue' /\ queue'[p + j].command = commands[j]
  BY <1>11
<1>13. /\ Len(queue) \in Nat /\ DOMAIN queue = 1..Len(queue)
       /\ \A k \in DOMAIN queue : queue[k].at \in Nat
  BY <1>1, QueueNumbers
<1>14. \A k \in DOMAIN queue' : k \in Nat
  <2>1. queue' \in Seq(Entry)
    BY BindSideKeeps DEF MakerInv, QueueOK
  <2> QED BY <2>1
<1>15. p \in Nat /\ p <= Len(queue)
  BY <1>12, <1>13 DEF Slotted
<1> DEFINE Old(k) == k <= p /\ k \in DOMAIN queue /\ queue'[k] = queue[k] /\ ByMaker(queue[k].command)
           New(k) == k = p + 1 /\ queue'[k].at = decideAt /\ queue'[k].command = c
           Late(k) == p + 1 < k /\ ~ByMaker(queue'[k].command) /\ ~(queue'[k].at <= decideAt)
<1>16. /\ \A j, k \in DOMAIN queue : j < k /\ ByMaker(queue[k].command) => ByMaker(queue[j].command)
       /\ \A k \in DOMAIN queue :
            ByMaker(queue[k].command) => queue[k].at <= decideAt /\ queue[k].at <= until
       /\ \A k \in DOMAIN queue : queue[k].at <= decideAt => ByMaker(queue[k].command)
  BY <1>4 DEF QuotingInv, OwnFirst
<1>17. ASSUME NEW k \in DOMAIN queue' PROVE Old(k) \/ New(k) \/ Late(k)
  <2>1. /\ \A j \in DOMAIN queue : j <= p <=> queue[j].at <= decideAt
        /\ \/ k <= p /\ k \in DOMAIN queue /\ queue'[k] = queue[k]
           \/ k - p \in 1..1 /\ queue'[k].at = decideAt /\ queue'[k].command = commands[k - p]
           \/ p + 1 < k /\ k - 1 \in DOMAIN queue /\ queue'[k] = queue[k - 1]
    BY <1>10, <1>12, Zenon DEF Slotted
  <2>2. CASE k <= p /\ k \in DOMAIN queue /\ queue'[k] = queue[k]
    BY <1>16, <2>1, <2>2
  <2>3. CASE k - p \in 1..1 /\ queue'[k].at = decideAt /\ queue'[k].command = commands[k - p]
    <3>1. k - p = 1 /\ k = p + 1
      BY <1>14, <1>15, <2>3
    <3> QED BY <1>10, <2>3, <3>1
  <2>4. CASE p + 1 < k /\ k - 1 \in DOMAIN queue /\ queue'[k] = queue[k - 1]
    <3>1. ~(k - 1 <= p)
      BY <1>14, <1>15, <2>4
    <3>2. ~(queue[k - 1].at <= decideAt)
      BY <2>1, <2>4, <3>1
    <3>3. ~ByMaker(queue[k - 1].command)
      BY <1>16, <2>4, <3>2
    <3> QED BY <2>4, <3>2, <3>3
  <2> QED BY <2>1, <2>2, <2>3, <2>4
<1>18. \A k \in DOMAIN queue' : ByMaker(queue'[k].command) => Old(k) \/ New(k)
  BY <1>17
<1>19. \A k \in DOMAIN queue' : MakerCancellation(queue'[k].command) => Old(k)
  <2>1. ~MakerCancellation(c)
    BY <1>8 DEF MakerSubmission, MakerCancellation
  <2> QED BY <1>18, <2>1, OwnCommands
<1>20. \A k \in DOMAIN queue' : MakerSubmission(queue'[k].command) => Old(k) \/ New(k)
  BY <1>18, OwnCommands
<1>21. \A j, k \in DOMAIN queue' : j < k /\ (Old(k) \/ New(k)) => Old(j)
  <2> SUFFICES ASSUME NEW j \in DOMAIN queue', NEW k \in DOMAIN queue', j < k, Old(k) \/ New(k) PROVE Old(j)
    OBVIOUS
  <2>1. k <= p + 1
    BY <1>14, <1>15
  <2>2. ~(j = p + 1) /\ ~(p + 1 < j)
    BY <1>14, <1>15, <2>1
  <2> QED BY <1>17, <2>2
<1>22. \A j, k : New(j) /\ New(k) => j = k
  OBVIOUS
<1> DEFINE Same(k) == queue'[k] = queue[k] /\ k \in DOMAIN queue
<1>23. \A k : Old(k) => Same(k)
  OBVIOUS
<1>24. \A k : New(k) => queue'[k].at = decideAt /\ queue'[k].command = c
  OBVIOUS
<1>25. \A k : Old(k) => ByMaker(queue[k].command)
  OBVIOUS
<1>26. \A k \in DOMAIN queue' : queue'[k].at <= decideAt => Old(k) \/ New(k)
  BY <1>17
<1> HIDE DEF Old, New, Late
<1>27. OwnFirst'
  <2>1. ASSUME NEW j \in DOMAIN queue', NEW k \in DOMAIN queue', j < k, ByMaker(queue'[k].command)
        PROVE  ByMaker(queue'[j].command)
    BY <1>18, <1>21, <1>23, <1>25, <2>1
  <2>2. ASSUME NEW k \in DOMAIN queue', ByMaker(queue'[k].command)
        PROVE  queue'[k].at <= decideAt /\ queue'[k].at <= until
    <3>1. CASE Old(k)
      BY <1>16, <1>23, <1>25, <3>1
    <3>2. CASE New(k)
      BY <1>2, <1>24, <3>2
    <3> QED BY <1>18, <2>2, <3>1, <3>2
  <2>3. ASSUME NEW k \in DOMAIN queue', queue'[k].at <= decideAt PROVE ByMaker(queue'[k].command)
    BY <1>8, <1>23, <1>24, <1>25, <1>26, <2>3
  <2>4. phase' # "idle" /\ decideAt' = decideAt /\ until' = until
    BY <1>1, <1>4 DEF Deciding
  <2> QED BY <2>1, <2>2, <2>3, <2>4 DEF OwnFirst
<1>28. OwnOrders' = OwnOrders /\ (\A o : Leaving(o) => Leaving(o)') /\ \A r : Behind(r)' <=> Behind(r)
  <2>1. ASSUME NEW o, Leaving(o) PROVE Leaving(o)'
    <3>1. PICK j \in DOMAIN queue : MakerCancellation(queue[j].command) /\ queue[j].command.order = o
      BY <2>1 DEF Leaving
    <3>2. PICK k \in DOMAIN queue' : queue'[k] = queue[j]
      BY <1>11
    <3> QED BY <3>1, <3>2 DEF Leaving
  <2> QED BY <1>3, <2>1 DEF OwnOrders, Behind
<1>29. CancellationsOK'
  <2>1. CancellationsOK
    BY DEF QuotingInv
  <2>2. \A k \in DOMAIN queue' : MakerCancellation(queue'[k].command) => queue'[k].command.order \in OwnOrders'
    BY <1>19, <1>23, <1>28, <2>1 DEF CancellationsOK
  <2>3. ASSUME NEW j \in DOMAIN queue', NEW k \in DOMAIN queue',
               MakerCancellation(queue'[j].command), MakerCancellation(queue'[k].command),
               queue'[j].command.order = queue'[k].command.order
        PROVE  j = k
    <3>1. Same(j) /\ Same(k)
      BY <1>19, <1>23, <2>3
    <3> QED BY <2>1, <2>3, <3>1 DEF CancellationsOK
  <2>4. ASSUME NEW j \in DOMAIN queue', NEW k \in DOMAIN queue', j < k, MakerSubmission(queue'[j].command)
        PROVE  ~MakerCancellation(queue'[k].command)
    <3> SUFFICES ASSUME MakerCancellation(queue'[k].command) PROVE FALSE
      OBVIOUS
    <3>1. Same(j) /\ Same(k)
      BY <1>19, <1>21, <1>23, <2>4
    <3> QED BY <2>1, <2>4, <3>1 DEF CancellationsOK
  <2> QED BY <2>2, <2>3, <2>4 DEF CancellationsOK
<1>30. \A o \in ToCancel : Leaving(o)
  BY <1>4 DEF QuotingInv, DecisionOK
<1>31. ASSUME NEW k \in DOMAIN queue', Old(k), MakerSubmission(queue'[k].command)
       PROVE  /\ queue'[k].command.request.side \in DecidedSides
              /\ queue'[k].command.request.price = DesiredQuotes[queue'[k].command.request.side]
  BY <1>4, <1>23, <1>31 DEF QuotingInv, DecisionOK
<1>32. ASSUME NEW k \in DOMAIN queue', New(k)
       PROVE  /\ queue'[k].command.request.side = side
              /\ queue'[k].command.request.price = DesiredQuotes[side]
              /\ queue'[k].command.request.quantity = QuoteQuantity
              /\ queue'[k].command.request = QuoteOf(side)
  BY <1>8, <1>24, <1>32
<1>33. SubmissionsOK'
  <2>1. SubmissionsOK
    BY DEF QuotingInv
  <2>2. ASSUME NEW k \in DOMAIN queue', MakerSubmission(queue'[k].command)
        PROVE  /\ queue'[k].command.request.price \in Prices
               /\ queue'[k].command.request.quantity = QuoteQuantity
               /\ Behind(queue'[k].command.request)
               /\ \A o \in OwnOrders : live[o].side = queue'[k].command.request.side => Leaving(o)
    <3>1. CASE Old(k)
      BY <1>23, <2>1, <2>2, <3>1 DEF SubmissionsOK
    <3>2. CASE New(k)
      <4>1. ASSUME NEW o \in OwnOrders, live[o].side = side PROVE Leaving(o)
        <5>1. o \in DOMAIN riskLive /\ riskLive[o].side = side
          BY <1>6, <4>1
        <5>2. o \in ToCancel
          BY <1>5, <5>1 DEF HasMatching, ToCancel
        <5> QED BY <1>30, <5>2
      <4> QED BY <1>7, <1>32, <3>2, <4>1
    <3> QED BY <1>20, <2>2, <3>1, <3>2
  <2>3. ASSUME NEW j \in DOMAIN queue', NEW k \in DOMAIN queue',
               MakerSubmission(queue'[j].command), MakerSubmission(queue'[k].command)
        PROVE  /\ queue'[j].command.request.side = queue'[k].command.request.side => j = k
               /\ queue'[j].command.request.side = "Buy" /\ queue'[k].command.request.side = "Sell" =>
                    queue'[j].command.request.price < queue'[k].command.request.price
    <3>1. CASE Old(j) /\ Old(k)
      BY <1>23, <2>1, <2>3, <3>1 DEF SubmissionsOK
    <3>2. CASE New(j) /\ New(k)
      <4>1. j = k
        BY <1>22, <3>2
      <4> QED BY <4>1
    <3>3. CASE Old(j) /\ New(k)
      BY <1>4, <1>7, <1>31, <1>32, <2>3, <3>3
    <3>4. CASE New(j) /\ Old(k)
      BY <1>4, <1>7, <1>31, <1>32, <2>3, <3>4
    <3> QED BY <1>20, <2>3, <3>1, <3>2, <3>3, <3>4
  <2> QED BY <1>3, <1>28, <2>2, <2>3 DEF SubmissionsOK
<1>34. DecisionOK'
  <2>1. DesiredQuotes' = DesiredQuotes /\ ToCancel' = ToCancel
    BY <1>1, <1>3, SameQuotes
  <2>2. \A o \in ToCancel' : Leaving(o)'
    BY <1>28, <1>30, <2>1
  <2>3. \A k \in DOMAIN queue' : MakerSubmission(queue'[k].command) =>
          /\ queue'[k].command.request.side \in DecidedSides'
          /\ queue'[k].command.request.price = DesiredQuotes'[queue'[k].command.request.side]
    BY <1>4, <1>20, <1>31, <1>32, <2>1
  <2> QED BY <1>4, <2>2, <2>3 DEF DecisionOK
<1>35. QuotedOK' /\ OneQuotePerSide' /\ WithdrawnOK'
  <2>1. QuotedOK' /\ OneQuotePerSide'
    BY <1>1, <1>3, <1>28 DEF QuotingInv, QuotedOK, OneQuotePerSide
  <2> QED BY <1>1, <1>5, <2>1 DEF WithdrawnOK
<1> QED BY <1>11, <1>27, <1>29, <1>33, <1>34, <1>35 DEF QuotingInv

\* Another trader's command takes orders of the maker away, and gives it none.
LEMMA OthersKeepSides ==
  ASSUME IInv, NEW s \in Entry, Process(s), ~ByMaker(s.command)
  PROVE  OwnOrders' \subseteq OwnOrders /\ \A o \in OwnOrders' : live'[o].side = live[o].side
<1>1. s.command \in Command
  BY DEF Entry
<1>2. CASE live' = live
  BY <1>2 DEF OwnOrders
<1>3. CASE s.command.kind = "submit"
  <2> DEFINE r == s.command.request
             in == OrderOf(r)
  <2>1. r \in SubmitOrderRequest /\ ProcessSubmit(r) /\ r.trader # Maker
    BY <1>1, <1>3, CommandFields DEF Process, ByMaker
  <2>2. Reject \/ (nextOrder \in Orders /\ Accept(r))
    BY <2>1, Zenon DEF ProcessSubmit
  <2>3. CASE nextOrder \in Orders /\ Accept(r)
    <3>1. in \in Incoming /\ Submit(in) /\ in.trader # Maker
      BY <2>1, <2>3, IncomingOrder DEF Accept, OrderOf
    <3> HIDE DEF in
    <3>2. BookInv /\ Sound(Book) /\ Submittable(in) /\ nextPriority \in Nat
      BY <3>1, IncomingFields, LadderAssumption DEF IInv, BookInv, BookOK
    <3>3. PICK n : PlanOK(in, n)
      BY <3>2, PlanIsOK
    <3>4. SubmitAccepted(in) /\ live' = Submitted(in).live
      BY <3>1, SubmitIs
    <3> DEFINE filled == Filled(in).live
    <3>5. /\ Shrunk(filled, live)
          /\ live' = IF Rests(in, PlanMatches(in))
                     THEN [x \in DOMAIN filled \cup {in.id} |-> IF x = in.id THEN NewNode(in) ELSE filled[x]]
                     ELSE filled
      BY <3>1, <3>2, <3>3, <3>4, SubmittedIsOK DEF BookInv
    <3> HIDE DEF filled
    <3>6. NewNode(in).trader # Maker
      BY <3>1 DEF NewNode
    <3>7. \A o \in DOMAIN live' : live'[o].trader = Maker => o \in DOMAIN filled /\ live'[o] = filled[o]
      BY <3>5, <3>6
    <3> QED BY <3>5, <3>7 DEF Shrunk, OwnOrders
  <2>4. Reject => live' = live
    BY DEF Reject, vars
  <2> QED BY <1>2, <2>2, <2>3, <2>4
<1>4. CASE s.command.kind = "cancel"
  <2>1. ProcessCancel(s.command.trader, s.command.order)
    BY <1>4 DEF Process
  <2>2. Reject \/ Cancel(s.command.order)
    BY <2>1, Zenon DEF ProcessCancel
  <2>3. CASE Cancel(s.command.order)
    <3>1. live' = [x \in DOMAIN live \ {s.command.order} |-> live[x]]
      BY <2>3, CancelKeepsBook DEF IInv
    <3> QED BY <3>1 DEF OwnOrders
  <2>4. Reject => live' = live
    BY DEF Reject, vars
  <2> QED BY <1>2, <2>2, <2>3, <2>4
<1>5. CASE s.command.kind = "lifecycle"
  <2> DEFINE target == s.command.target
  <2>1. target \in Statuses /\ ProcessLifecycle(target)
    BY <1>1, <1>5, CommandFields DEF Process
  <2> HIDE DEF target
  <2>2. \/ Reject
        \/ /\ ValidTransition(status, target) /\ HasCapacity(1) /\ status' = target
           /\ UNCHANGED <<nextPriority, nextTrade, nextOrder>>
           /\ IF target = "Closed" THEN CloseBook ELSE UNCHANGED <<live, levels>> /\ Emit(1)
    BY <2>1, Zenon DEF ProcessLifecycle
  <2>3. ASSUME ValidTransition(status, target), HasCapacity(1), status' = target,
               UNCHANGED <<nextPriority, nextTrade, nextOrder>>,
               IF target = "Closed" THEN CloseBook ELSE UNCHANGED <<live, levels>> /\ Emit(1)
        PROVE  DOMAIN live' \subseteq DOMAIN live /\ \A o \in DOMAIN live' : live'[o] = live[o]
    BY <2>1, <2>3, LifecycleKeeps
  <2>4. Reject => live' = live
    BY DEF Reject, vars
  <2>5. DOMAIN live' \subseteq DOMAIN live /\ \A o \in DOMAIN live' : live'[o] = live[o]
    BY <2>2, <2>3, <2>4
  <2> QED BY <2>5 DEF OwnOrders
<1> QED BY <1>1, <1>3, <1>4, <1>5, CommandFields

\* The maker's cancellation of an order that is there is not refused.
LEMMA CancellationRuns ==
  ASSUME IInv, NEW s \in Entry, Process(s), MakerCancellation(s.command), s.command.order \in OwnOrders
  PROVE  /\ Cancel(s.command.order) /\ Emit(1)
         /\ live' = [x \in DOMAIN live \ {s.command.order} |-> live[x]]
<1>1. ProcessCancel(Maker, s.command.order)
  BY DEF Process, MakerCancellation
<1>2. OwnsLive(Maker, s.command.order)
  BY DEF OwnsLive, OwnOrders
<1>3. status # "Settled"
  <2>1. live # NoBook.live
    BY <1>2, EmptyBook DEF OwnsLive
  <2> QED BY <2>1 DEF IInv, ClosedMarketsAreEmpty
<1>4. Cancel(s.command.order) /\ Emit(1)
  BY <1>1, <1>2, <1>3, Zenon DEF ProcessCancel
<1> QED BY <1>4, CancelKeepsBook DEF IInv

\* The maker's submission is refused, or rests.
LEMMA SubmissionRuns ==
  ASSUME IInv, NEW s \in Entry, Process(s), MakerSubmission(s.command), Fitting(s.command)
  PROVE  \/ live' = live
         \/ \E o, node :
              /\ live' = [x \in DOMAIN live \cup {o} |-> IF x = o THEN node ELSE live[x]]
              /\ o \notin DOMAIN live /\ node.trader = Maker
              /\ node.side = s.command.request.side /\ node.price = s.command.request.price
<1> DEFINE r == s.command.request
           in == OrderOf(r)
<1>1. s.command \in Command /\ s.command.kind = "submit" /\ r.trader = Maker /\ r.post_only
  BY DEF Entry, MakerSubmission, Fitting
<1>2. r \in SubmitOrderRequest /\ ProcessSubmit(r)
  BY <1>1, CommandFields DEF Process
<1>3. Reject \/ (nextOrder \in Orders /\ ~Invalid(r) /\ Accept(r))
  BY <1>2, Zenon DEF ProcessSubmit
<1>4. CASE Reject
  BY <1>4 DEF Reject, vars
<1>5. CASE nextOrder \in Orders /\ ~Invalid(r) /\ Accept(r)
  <2>1. in \in Incoming /\ in.trader = Maker /\ in.side = r.side /\ in.price = r.price /\ Submit(in)
    BY <1>1, <1>2, <1>5, IncomingOrder DEF OrderOf, Accept
  <2>2. PlanOK(in, 0) /\ Rests(in, PlanMatches(in))
    BY <1>1, <1>2, <1>5, PostOnlyRests
  <2> HIDE DEF in, r
  <2>3. BookInv /\ nextPriority \in Nat
    BY LadderAssumption DEF IInv, BookInv
  <2>4. SubmitAccepted(in) /\ live' = Submitted(in).live
    BY <2>1, SubmitIs
  <2>5. /\ MatchedOK(in, 0, Filled(in))
        /\ Submitted(in).live
             = IF Rests(in, PlanMatches(in))
               THEN [x \in DOMAIN Filled(in).live \cup {in.id} |->
                       IF x = in.id THEN NewNode(in) ELSE Filled(in).live[x]]
               ELSE Filled(in).live
    BY <2>1, <2>2, <2>3, <2>4, SubmittedIsOK DEF BookInv
  <2>6. Filled(in).live = live
    BY <2>5, BookParts DEF MatchedOK
  <2>7. live' = [x \in DOMAIN live \cup {in.id} |-> IF x = in.id THEN NewNode(in) ELSE live[x]]
    BY <2>2, <2>4, <2>5, <2>6
  <2>8. /\ in.id \notin DOMAIN live /\ NewNode(in).trader = Maker
        /\ NewNode(in).side = r.side /\ NewNode(in).price = r.price
    BY <2>1, <2>4 DEF SubmitAccepted, NewNode
  <2> QED BY <2>7, <2>8 DEF r
<1> QED BY <1>3, <1>4, <1>5

\* What is left of the queue is as it was before.
LEMMA TailIs ==
  ASSUME QueueOK, queue # <<>>, queue' = Tail(queue)
  PROVE  /\ Head(queue) = queue[1] /\ 1 \in DOMAIN queue /\ Head(queue) \in Entry /\ Fitting(Head(queue).command)
         /\ \A k \in DOMAIN queue' : k + 1 \in DOMAIN queue /\ queue'[k] = queue[k + 1] /\ 1 < k + 1 /\ k + 1 # 1
         /\ \A j, k \in DOMAIN queue' : (j < k => j + 1 < k + 1) /\ (j + 1 = k + 1 => j = k)
         /\ \A k \in DOMAIN queue : k # 1 => 1 < k /\ \E j \in DOMAIN queue' : queue'[j] = queue[k]
<1> DEFINE rest == Tail(queue)
<1>1. /\ Head(queue) = queue[1] /\ 1 \in DOMAIN queue /\ Head(queue) \in Entry /\ Fitting(Head(queue).command)
      /\ rest \in Seq(Entry)
      /\ \A k \in DOMAIN rest : k + 1 \in DOMAIN queue /\ rest[k] = queue[k + 1]
      /\ \A k \in DOMAIN queue : k # 1 => k - 1 \in DOMAIN rest /\ rest[k - 1] = queue[k]
  BY TakenFromQueue
<1>2. \A k \in DOMAIN queue : k \in Nat /\ k >= 1
  BY QueueNumbers
<1>3. rest = queue'
  OBVIOUS
<1> HIDE DEF rest
<1>4. \A k \in DOMAIN rest : k \in Nat /\ k >= 1
  BY <1>1
<1>5. \A k \in DOMAIN rest : 1 < k + 1 /\ k + 1 # 1
  BY <1>4
<1>6. \A j, k \in DOMAIN rest : (j < k => j + 1 < k + 1) /\ (j + 1 = k + 1 => j = k)
  BY <1>4
<1>7. \A k \in DOMAIN queue : k # 1 => 1 < k
  BY <1>2
<1>8. \A k \in DOMAIN queue : k # 1 => \E j \in DOMAIN rest : rest[j] = queue[k]
  BY <1>1
<1> QED BY <1>1, <1>3, <1>5, <1>6, <1>7, <1>8

\* The order of the queue, and whose commands come first.
LEMMA TailStays ==
  ASSUME QueueOK, queue # <<>>, queue' = Tail(queue), Sorted, OwnFirst, ~Deciding',
         phase' # "idle", decideAt' = decideAt, until' = until
  PROVE  Sorted' /\ OwnFirst'
<1>1. /\ \A k \in DOMAIN queue' : k + 1 \in DOMAIN queue /\ queue'[k] = queue[k + 1]
      /\ \A j, k \in DOMAIN queue' : j < k => j + 1 < k + 1
  BY TailIs
<1>2. Sorted'
  BY <1>1 DEF Sorted
<1>3. \A j, k \in DOMAIN queue' : j < k /\ ByMaker(queue'[k].command) => ByMaker(queue'[j].command)
  BY <1>1 DEF OwnFirst
<1>4. \A k \in DOMAIN queue' :
        ByMaker(queue'[k].command) => queue'[k].at <= decideAt /\ queue'[k].at <= until
  BY <1>1 DEF OwnFirst
<1> QED BY <1>2, <1>3, <1>4 DEF OwnFirst

\* An order that was leaving is still, unless it has left.
LEMMA StillLeaving ==
  ASSUME QueueOK, queue # <<>>, queue' = Tail(queue), NEW o, Leaving(o),
         ~(MakerCancellation(queue[1].command) /\ queue[1].command.order = o)
  PROVE  Leaving(o)'
<1>1. PICK k \in DOMAIN queue : MakerCancellation(queue[k].command) /\ queue[k].command.order = o
  BY DEF Leaving
<1>2. k # 1
  BY <1>1
<1>3. PICK j \in DOMAIN queue' : queue'[j] = queue[k]
  BY <1>2, TailIs
<1> QED BY <1>1, <1>3 DEF Leaving

LEMMA OthersRunQuotes ==
  ASSUME IInv, QueueOK, QuotingInv, ~Deciding, queue # <<>>, queue' = Tail(queue), Process(Head(queue)),
         UNCHANGED <<phase, kill, riskLive, quoted, decideAt, until, withdrawn>>, phase = "run",
         ~ByMaker(Head(queue).command)
  PROVE  QuotingInv'
<1>1. /\ Head(queue) = queue[1] /\ 1 \in DOMAIN queue /\ Head(queue) \in Entry
      /\ \A k \in DOMAIN queue' : k + 1 \in DOMAIN queue /\ queue'[k] = queue[k + 1]
      /\ \A k \in DOMAIN queue : k # 1 => 1 < k
  BY TailIs
<1>2. NoneQueued
  <2> SUFFICES ASSUME NEW k \in DOMAIN queue, ByMaker(queue[k].command) PROVE FALSE
    BY DEF NoneQueued
  <2>1. k # 1 /\ 1 < k
    BY <1>1
  <2> QED BY <1>1, <2>1 DEF QuotingInv, OwnFirst
<1>3. Quiet
  BY <1>2, QuietNow
<1>4. ~Deciding'
  BY DEF Deciding
<1>5. OwnOrders' \subseteq OwnOrders /\ \A o \in OwnOrders' : live'[o].side = live[o].side
  BY <1>1, OthersKeepSides
<1>6. Sorted'
  BY <1>4, TailStays DEF QuotingInv
<1>7. NoneQueued' /\ QuotedOK'
  BY <1>1, <1>3 DEF Quiet, NoneQueued, QuotedOK
<1>8. OneQuotePerSide' /\ (withdrawn' => kill' /\ OwnOrders' = {})
  BY <1>3, <1>5 DEF Quiet, OneQuotePerSide
<1> QED BY <1>4, <1>6, <1>7, <1>8, QuietQuotes DEF Quiet

\* Behind in the book of the next state.
BehindNext(r) ==
  \A o \in DOMAIN live' : live'[o].side # r.side =>
    IF r.side = "Buy" THEN r.price < live'[o].price ELSE r.price > live'[o].price

LEMMA CancellationQuotes ==
  ASSUME IInv, QueueOK, QuotingInv, ~Deciding, queue # <<>>, queue' = Tail(queue), Process(Head(queue)),
         UNCHANGED <<phase, kill, riskLive, quoted, decideAt, until, withdrawn>>, phase = "run",
         MakerCancellation(Head(queue).command)
  PROVE  QuotingInv'
<1> DEFINE gone == Head(queue).command.order
<1>1. /\ Head(queue) = queue[1] /\ 1 \in DOMAIN queue /\ Head(queue) \in Entry
      /\ \A k \in DOMAIN queue' : k + 1 \in DOMAIN queue /\ queue'[k] = queue[k + 1] /\ k + 1 # 1
      /\ \A j, k \in DOMAIN queue' : (j < k => j + 1 < k + 1) /\ (j + 1 = k + 1 => j = k)
  BY TailIs
<1>2. MakerCancellation(queue[1].command) /\ queue[1].command.order = gone
  BY <1>1
<1>3. CancellationsOK /\ SubmissionsOK /\ WithdrawnOK /\ QuotedOK /\ OneQuotePerSide
  BY DEF QuotingInv
<1>4. gone \in OwnOrders
  BY <1>1, <1>2, <1>3 DEF CancellationsOK
<1>5. live' = [x \in DOMAIN live \ {gone} |-> live[x]]
  BY <1>1, <1>4, CancellationRuns
<1> HIDE DEF gone
<1>6. OwnOrders' = OwnOrders \ {gone} /\ \A o \in DOMAIN live' : o \in DOMAIN live /\ live'[o] = live[o]
  BY <1>5 DEF OwnOrders
<1>7. \A r : Behind(r) => BehindNext(r)
  BY <1>6 DEF Behind, BehindNext
<1>8. \A o \in OwnOrders' : Leaving(o) => Leaving(o)'
  BY <1>2, <1>6, StillLeaving
<1>9. ~Deciding'
  BY DEF Deciding
<1>10. Sorted' /\ OwnFirst'
  BY <1>9, TailStays DEF QuotingInv
<1>11. CancellationsOK'
  <2>1. ASSUME NEW k \in DOMAIN queue', MakerCancellation(queue'[k].command)
        PROVE  queue'[k].command.order \in OwnOrders'
    <3>1. k + 1 \in DOMAIN queue /\ queue'[k] = queue[k + 1] /\ k + 1 # 1
      BY <1>1
    <3>2. queue'[k].command.order # gone
      BY <1>1, <1>2, <1>3, <2>1, <3>1 DEF CancellationsOK
    <3> QED BY <1>3, <1>6, <2>1, <3>1, <3>2 DEF CancellationsOK
  <2>2. ASSUME NEW j \in DOMAIN queue', NEW k \in DOMAIN queue',
               MakerCancellation(queue'[j].command), MakerCancellation(queue'[k].command),
               queue'[j].command.order = queue'[k].command.order
        PROVE  j = k
    <3>1. j + 1 = k + 1
      BY <1>1, <1>3, <2>2 DEF CancellationsOK
    <3> QED BY <1>1, <3>1
  <2>3. ASSUME NEW j \in DOMAIN queue', NEW k \in DOMAIN queue', j < k, MakerSubmission(queue'[j].command)
        PROVE  ~MakerCancellation(queue'[k].command)
    BY <1>1, <1>3, <2>3 DEF CancellationsOK
  <2> QED BY <2>1, <2>2, <2>3 DEF CancellationsOK
<1>12. SubmissionsOK'
  <2>1. ASSUME NEW k \in DOMAIN queue', MakerSubmission(queue'[k].command)
        PROVE  /\ queue'[k].command.request.price \in Prices
               /\ queue'[k].command.request.quantity = QuoteQuantity
               /\ Behind(queue'[k].command.request)
               /\ \A o \in OwnOrders : live[o].side = queue'[k].command.request.side => Leaving(o)
    BY <1>1, <1>3, <2>1 DEF SubmissionsOK
  <2>2. ASSUME NEW j \in DOMAIN queue', NEW k \in DOMAIN queue',
               MakerSubmission(queue'[j].command), MakerSubmission(queue'[k].command)
        PROVE  /\ queue'[j].command.request.side = queue'[k].command.request.side => j = k
               /\ queue'[j].command.request.side = "Buy" /\ queue'[k].command.request.side = "Sell" =>
                    queue'[j].command.request.price < queue'[k].command.request.price
    BY <1>1, <1>3, <2>2 DEF SubmissionsOK
  <2>3. ASSUME NEW k \in DOMAIN queue', MakerSubmission(queue'[k].command)
        PROVE  BehindNext(queue'[k].command.request)
    BY <1>7, <2>1, <2>3
  <2>4. ASSUME NEW k \in DOMAIN queue', MakerSubmission(queue'[k].command),
               NEW o \in OwnOrders', live'[o].side = queue'[k].command.request.side
        PROVE  Leaving(o)'
    <3>1. o \in OwnOrders /\ live[o].side = queue'[k].command.request.side
      BY <1>6, <2>4 DEF OwnOrders
    <3> QED BY <1>8, <2>1, <2>4, <3>1
  <2> QED BY <2>1, <2>2, <2>3, <2>4 DEF SubmissionsOK, Behind, BehindNext
<1>13. DecisionOK' /\ QuotedOK' /\ OneQuotePerSide'
  <2>1. OneQuotePerSide'
    BY <1>3, <1>6 DEF OneQuotePerSide, OwnOrders
  <2> QED BY <1>3, <1>9, <2>1 DEF DecisionOK, QuotedOK
<1>14. WithdrawnOK'
  BY <1>1, <1>3, <1>6, <1>8 DEF WithdrawnOK
<1> QED BY <1>10, <1>11, <1>12, <1>13, <1>14 DEF QuotingInv

LEMMA SubmissionQuotes ==
  ASSUME IInv, QueueOK, QuotingInv, ~Deciding, queue # <<>>, queue' = Tail(queue), Process(Head(queue)),
         UNCHANGED <<phase, kill, riskLive, quoted, decideAt, until, withdrawn>>, phase = "run",
         MakerSubmission(Head(queue).command)
  PROVE  QuotingInv'
<1> DEFINE mine == queue[1].command.request
<1>1. /\ Head(queue) = queue[1] /\ 1 \in DOMAIN queue /\ Head(queue) \in Entry /\ Fitting(Head(queue).command)
      /\ \A k \in DOMAIN queue' : k + 1 \in DOMAIN queue /\ queue'[k] = queue[k + 1] /\ 1 < k + 1 /\ k + 1 # 1
      /\ \A j, k \in DOMAIN queue' : (j < k => j + 1 < k + 1) /\ (j + 1 = k + 1 => j = k)
      /\ \A k \in DOMAIN queue : k # 1 => 1 < k
  BY TailIs
<1>2. MakerSubmission(queue[1].command)
  BY <1>1
<1>3. CancellationsOK /\ SubmissionsOK /\ WithdrawnOK /\ QuotedOK /\ OneQuotePerSide
  BY DEF QuotingInv
<1>4. \A k \in DOMAIN queue : ~MakerCancellation(queue[k].command)
  <2> SUFFICES ASSUME NEW k \in DOMAIN queue, MakerCancellation(queue[k].command) PROVE FALSE
    OBVIOUS
  <2>1. k # 1
    BY <1>2 DEF MakerSubmission, MakerCancellation
  <2> QED BY <1>1, <1>2, <1>3, <2>1 DEF CancellationsOK
<1>5. \A o : ~Leaving(o)
  BY <1>4 DEF Leaving
<1>6. ~withdrawn
  BY <1>1, <1>2, <1>3 DEF WithdrawnOK
<1>7. \A o \in OwnOrders : live[o].side # mine.side
  BY <1>1, <1>2, <1>3, <1>5 DEF SubmissionsOK
<1>8. \A k \in DOMAIN queue', o \in OwnOrders :
        MakerSubmission(queue'[k].command) => live[o].side # queue'[k].command.request.side
  BY <1>1, <1>3, <1>5 DEF SubmissionsOK
<1>9. \/ live' = live
      \/ \E o, node :
           /\ live' = [x \in DOMAIN live \cup {o} |-> IF x = o THEN node ELSE live[x]]
           /\ o \notin DOMAIN live /\ node.trader = Maker
           /\ node.side = mine.side /\ node.price = mine.price
  BY <1>1, SubmissionRuns
<1>10. /\ \A o \in DOMAIN live' : (o \in DOMAIN live /\ live'[o] = live[o])
                                   \/ (o \notin DOMAIN live /\ live'[o].side = mine.side /\ live'[o].price = mine.price)
       /\ \A o, p \in DOMAIN live' \ DOMAIN live : o = p
  <2>1. CASE live' = live
    BY <2>1
  <2>2. ASSUME NEW o, NEW node, live' = [x \in DOMAIN live \cup {o} |-> IF x = o THEN node ELSE live[x]],
               o \notin DOMAIN live, node.side = mine.side, node.price = mine.price
        PROVE  /\ \A x \in DOMAIN live' : (x \in DOMAIN live /\ live'[x] = live[x])
                     \/ (x \notin DOMAIN live /\ live'[x].side = mine.side /\ live'[x].price = mine.price)
               /\ \A x, y \in DOMAIN live' \ DOMAIN live : x = y
    BY <2>2
  <2> QED BY <1>9, <2>1, <2>2
<1> HIDE DEF mine
<1>11. OneQuotePerSide'
  <2> SUFFICES ASSUME NEW o \in OwnOrders', NEW p \in OwnOrders', live'[o].side = live'[p].side PROVE o = p
    BY DEF OneQuotePerSide
  <2>1. \A x \in OwnOrders' : x \in DOMAIN live' /\ (x \in DOMAIN live => live'[x] = live[x] /\ x \in OwnOrders)
    BY <1>10 DEF OwnOrders
  <2>2. \A x \in OwnOrders' : x \notin DOMAIN live => live'[x].side = mine.side
    BY <1>10, <2>1
  <2>3. CASE o \in DOMAIN live /\ p \in DOMAIN live
    BY <1>3, <2>1, <2>3 DEF OneQuotePerSide
  <2>4. CASE o \notin DOMAIN live /\ p \notin DOMAIN live
    BY <1>10, <2>1, <2>4
  <2>5. CASE (o \in DOMAIN live /\ p \notin DOMAIN live) \/ (o \notin DOMAIN live /\ p \in DOMAIN live)
    BY <1>7, <2>1, <2>2, <2>5
  <2> QED BY <2>3, <2>4, <2>5
<1>12. ~Deciding'
  BY DEF Deciding
<1>13. Sorted' /\ OwnFirst'
  BY <1>12, TailStays DEF QuotingInv
<1>14. CancellationsOK' /\ WithdrawnOK' /\ QuotedOK' /\ DecisionOK'
  <2>1. \A k \in DOMAIN queue' : ~MakerCancellation(queue'[k].command)
    BY <1>1, <1>4
  <2> QED BY <1>3, <1>6, <1>12, <2>1 DEF CancellationsOK, WithdrawnOK, QuotedOK, DecisionOK
<1>15. SubmissionsOK'
  <2>1. ASSUME NEW k \in DOMAIN queue', MakerSubmission(queue'[k].command)
        PROVE  /\ queue'[k].command.request.price \in Prices
               /\ queue'[k].command.request.quantity = QuoteQuantity
               /\ Behind(queue'[k].command.request)
               /\ queue'[k].command.request.side # mine.side
               /\ mine.side = "Buy" /\ queue'[k].command.request.side = "Sell" =>
                    mine.price < queue'[k].command.request.price
               /\ queue'[k].command.request.side = "Buy" /\ mine.side = "Sell" =>
                    queue'[k].command.request.price < mine.price
    BY <1>1, <1>2, <1>3, <2>1 DEF SubmissionsOK, mine
  <2>2. ASSUME NEW j \in DOMAIN queue', NEW k \in DOMAIN queue',
               MakerSubmission(queue'[j].command), MakerSubmission(queue'[k].command)
        PROVE  /\ queue'[j].command.request.side = queue'[k].command.request.side => j = k
               /\ queue'[j].command.request.side = "Buy" /\ queue'[k].command.request.side = "Sell" =>
                    queue'[j].command.request.price < queue'[k].command.request.price
    BY <1>1, <1>3, <2>2 DEF SubmissionsOK
  <2>3. /\ mine.side \in Sides /\ mine.price \in Prices
        /\ \A k \in DOMAIN queue' : MakerSubmission(queue'[k].command) => queue'[k].command.request.side \in Sides
    <3>1. \A k \in DOMAIN queue : MakerSubmission(queue[k].command) => queue[k].command.request.side \in Sides
      BY QueueNumbers DEF MakerSubmission, Command, SubmitOrderRequest
    <3>2. mine.price \in Prices
      BY <1>1, <1>2, <1>3 DEF SubmissionsOK, mine
    <3> QED BY <1>1, <1>2, <3>1, <3>2 DEF mine
  <2>4. ASSUME NEW k \in DOMAIN queue', MakerSubmission(queue'[k].command)
        PROVE  BehindNext(queue'[k].command.request)
    <3> DEFINE r == queue'[k].command.request
    <3>1. /\ r.price \in Prices /\ Behind(r) /\ r.side # mine.side /\ r.side \in Sides
          /\ mine.side = "Buy" /\ r.side = "Sell" => mine.price < r.price
          /\ r.side = "Buy" /\ mine.side = "Sell" => r.price < mine.price
      BY <2>1, <2>3, <2>4
    <3> HIDE DEF r
    <3>2. Prices \subseteq Nat
      BY LadderAssumption
    <3>3. ASSUME NEW o \in DOMAIN live', live'[o].side # r.side
          PROVE  IF r.side = "Buy" THEN r.price < live'[o].price ELSE r.price > live'[o].price
      <4>1. CASE o \in DOMAIN live /\ live'[o] = live[o]
        BY <3>1, <3>3, <4>1 DEF Behind
      <4>2. CASE live'[o].side = mine.side /\ live'[o].price = mine.price
        <5>1. r.price \in Nat /\ mine.price \in Nat
          BY <2>3, <3>1, <3>2
        <5>2. IF r.side = "Buy" THEN r.price < mine.price ELSE r.price > mine.price
          BY <2>3, <3>1, <5>1 DEF Sides
        <5> QED BY <4>2, <5>2
      <4> QED BY <1>10, <4>1, <4>2
    <3>4. BehindNext(r)
      BY <3>3 DEF BehindNext
    <3> QED BY <3>4 DEF r
  <2>5. ASSUME NEW k \in DOMAIN queue', MakerSubmission(queue'[k].command),
               NEW o \in OwnOrders', live'[o].side = queue'[k].command.request.side
        PROVE  FALSE
    <3>1. o \in DOMAIN live' /\ live'[o].trader = Maker
      BY DEF OwnOrders
    <3>2. live'[o].side # mine.side
      BY <2>1, <2>5
    <3>3. o \in DOMAIN live /\ live'[o] = live[o]
      BY <1>10, <3>1, <3>2
    <3>4. o \in OwnOrders
      BY <3>1, <3>3 DEF OwnOrders
    <3> QED BY <1>8, <2>5, <3>3, <3>4
  <2> QED BY <2>1, <2>2, <2>4, <2>5 DEF SubmissionsOK, Behind, BehindNext
<1> QED BY <1>11, <1>13, <1>14, <1>15 DEF QuotingInv

LEMMA RunExchangeQuotes ==
  ASSUME MakerInv, QuotingInv, RunExchange
  PROVE  QuotingInv'
<1>1. /\ IInv /\ QueueOK /\ ~Deciding /\ queue # <<>> /\ queue' = Tail(queue) /\ Process(Head(queue))
      /\ UNCHANGED <<phase, kill, riskLive, quoted, decideAt, until, withdrawn>> /\ phase = "run"
  BY DEF MakerInv, RunExchange, Due, account, control, Deciding
<1>2. \/ ~ByMaker(Head(queue).command) \/ MakerSubmission(Head(queue).command)
      \/ MakerCancellation(Head(queue).command)
  BY OwnCommands
<1> QED BY <1>1, <1>2, OthersRunQuotes, CancellationQuotes, SubmissionQuotes

LEMMA QuotingInit == MakerInit => QuotingInv
<1> SUFFICES ASSUME MakerInit PROVE QuotingInv
  OBVIOUS
<1>1. /\ DOMAIN live = {} /\ queue = <<>> /\ phase = "idle" /\ ~withdrawn
      /\ DOMAIN riskLive = {} /\ DOMAIN quoted = {}
  BY DEF MakerInit, ExchangeInit, Init, NoBook, Risk!Init, Risk!NoOrders
<1>2. DOMAIN queue = {} /\ OwnOrders = {} /\ ~Deciding
  BY <1>1 DEF OwnOrders, Deciding
<1>3. Sorted /\ OwnFirst /\ CancellationsOK /\ SubmissionsOK
  BY <1>2 DEF Sorted, OwnFirst, CancellationsOK, SubmissionsOK
<1>4. DecisionOK /\ QuotedOK /\ WithdrawnOK /\ OneQuotePerSide
  BY <1>1, <1>2 DEF DecisionOK, QuotedOK, WithdrawnOK, OneQuotePerSide
<1> QED BY <1>3, <1>4 DEF QuotingInv

\* Every step of the system leaves the quotes as they should be.
LEMMA QuotingNext == MakerInv /\ QuotingInv /\ [MakerNext]_makerVars => QuotingInv'
<1> SUFFICES ASSUME MakerInv, QuotingInv, [MakerNext]_makerVars PROVE QuotingInv'
  OBVIOUS
<1>1. CASE RunExchange
  BY <1>1, RunExchangeQuotes
<1>2. CASE Consume
  BY <1>2, ConsumeQuotes
<1>3. CASE ConsumeFails
  BY <1>3, PauseQuotes
<1>4. CASE Decide
  BY <1>4, DecideQuotes
<1>5. CASE Decided
  BY <1>5, DecidedQuotes
<1>6. CASE Return
  BY <1>6, PauseQuotes
<1>7. ASSUME NEW side \in Sides, AdmitSide(side) PROVE QuotingInv'
  BY <1>7, AdmitSideQuotes
<1>8. ASSUME NEW side \in Sides, BindSide(side) PROVE QuotingInv'
  BY <1>8, BindSideQuotes
<1>9. ASSUME NEW command \in External, NEW at \in 1..Horizon, EnqueueExternal(command, at)
      PROVE  QuotingInv'
  BY <1>9, EnqueueExternalQuotes
<1>10. CASE ActivateKillSwitch
  BY <1>10, PauseQuotes
<1>11. CASE \E time \in 1..Horizon : RunUntil(time)
  BY <1>11, PauseQuotes
<1>12. CASE UNCHANGED makerVars
  BY <1>12, StutterQuotes
<1> QED BY <1>1, <1>2, <1>3, <1>4, <1>5, <1>6, <1>7, <1>8, <1>9, <1>10, <1>11, <1>12, Zenon
        DEF MakerNext, Coordinator

\* The maker's commands run before all others, once a side, and every decision
\* to cancel is on its way: in every state.
THEOREM QuotingInvariant == MakerSpec => []QuotingInv
<1>1. MakerInit => QuotingInv
  BY QuotingInit
<1>2. MakerInv /\ QuotingInv /\ [MakerNext]_makerVars => QuotingInv'
  BY QuotingNext
<1> QED BY <1>1, <1>2, MakerInvariant, PTL DEF MakerSpec

\* The maker never has two orders on a side of the book.
THEOREM QuotesOnceASide == MakerSpec => []OneQuotePerSide
<1>1. QuotingInv => OneQuotePerSide
  BY DEF QuotingInv
<1> QED BY <1>1, QuotingInvariant, PTL

\* Once run_until has returned after a decision under the kill switch, no order
\* of the maker is in the market and no command of it is queued.
THEOREM KilledMakersLeave == MakerSpec => []KilledMakerLeaves
<1>1. MakerInv /\ QuotingInv => KilledMakerLeaves
  <2> SUFFICES ASSUME MakerInv, QuotingInv, withdrawn, phase = "idle"
               PROVE  OwnOrders = {} /\ NoneQueued
    BY DEF KilledMakerLeaves, NoneQueued
  <2>1. NoneQueued /\ Quiet
    BY NoneLeft DEF MakerInv
  <2> QED BY <2>1 DEF Quiet
<1> QED BY <1>1, MakerInvariant, QuotingInvariant, PTL

\* A quote behind the book takes nothing.
LEMMA BehindTakesNothing ==
  ASSUME IInv, NEW r \in SubmitOrderRequest, r.price \in Prices, Behind(r)
  PROVE  ~WouldTake(r)
<1> DEFINE in == OrderOf(r)
           other == Opposite(r.side)
<1> SUFFICES ASSUME NEW best \in Occupied(other), Crosses(in, best) PROVE FALSE
  BY DEF WouldTake
<1>1. Sound(Book) /\ r.side \in Sides /\ other \in Sides /\ other # r.side
  BY DEF IInv, BookInv, BookOK, SubmitOrderRequest, Sides, Opposite
<1>2. best \in Prices /\ levels[other][best].occupied
  BY DEF Occupied
<1> HIDE DEF other
<1>3. PICK o \in DOMAIN live : live[o].side = other /\ live[o].price = best
  BY <1>1, <1>2, QueuedOrders DEF Mine
<1>4. IF r.side = "Buy" THEN r.price < best ELSE r.price > best
  BY <1>1, <1>3 DEF Behind
<1>5. IF r.side = "Buy" THEN r.price >= best ELSE r.price <= best
  BY LadderAssumption DEF Crosses, IsLimit, OrderOf
<1>6. r.price \in Nat /\ best \in Nat
  BY <1>2, LadderAssumption
<1>7. CASE r.side = "Buy"
  <2>1. r.price < best /\ r.price >= best
    BY <1>4, <1>5, <1>7
  <2> QED BY <1>6, <2>1
<1>8. CASE r.side # "Buy"
  <2>1. r.price > best /\ r.price <= best
    BY <1>4, <1>5, <1>8
  <2> QED BY <1>6, <2>1
<1> QED BY <1>7, <1>8

\* In an open market with room the book takes the quote.
LEMMA QuoteIsTaken ==
  ASSUME IInv, RoomLeft, status = "Open", NEW r \in SubmitOrderRequest, ProcessSubmit(r),
         r.post_only, r.valid, r.price \in Prices, r.quantity = QuoteQuantity, Behind(r)
  PROVE  /\ nextOrder' # nextOrder /\ PlanMatches(OrderOf(r)).matches = <<>>
         /\ OrderOf(r) \in Incoming /\ PlanOK(OrderOf(r), 0)
<1>1. ~Invalid(r)
  <2>1. IsLimit(OrderOf(r)) /\ IsLimit(r)
    BY LadderAssumption DEF IsLimit, OrderOf
  <2> QED BY <2>1, BehindTakesNothing DEF Invalid
<1>2. /\ nextOrder \in Orders
      /\ Accept(r) \/ (~SubmitAccepted(OrderOf(r)) /\ Reject)
  BY <1>1, Zenon DEF ProcessSubmit, TakesOrders
<1> DEFINE in == OrderOf(r)
<1>3. /\ in.id = nextOrder /\ in.side \in Sides /\ in.price \in Prices /\ in \in Incoming
  BY <1>2, IncomingOrder DEF OrderOf, SubmitOrderRequest
<1>4. /\ PlanOK(in, 0) /\ PlanMatches(in).matches = <<>>
      /\ Unmatched(in, PlanMatches(in)) = QuoteQuantity
  BY <1>1, <1>2, PostOnlyRests
<1>5. SubmitAccepted(in)
  <2> HIDE DEF in
  <2>1. in.id \notin DOMAIN live
    <3>1. \A o \in DOMAIN live : o < nextOrder
      BY DEF IInv, OrderNumbers
    <3>2. ~(nextOrder < nextOrder)
      BY DEF IInv, OrderNumbers
    <3> QED BY <1>3, <3>1, <3>2
  <2>2. /\ nextPriority <= MaxPriority
        /\ levels[in.side][in.price].total + Unmatched(in, PlanMatches(in)) <= MaxAggregate
    BY <1>3, <1>4 DEF RoomLeft
  <2>3. nextTrade + Len(PlanMatches(in).matches) <= MaxTrade + 1
    <3>1. nextTrade \in 1..(MaxTrade + 1) /\ MaxTrade \in Nat
      BY LadderAssumption DEF IInv, BookInv
    <3>2. Len(PlanMatches(in).matches) = 0
      BY <1>4
    <3> QED BY <3>1, <3>2
  <2> QED BY <2>1, <2>2, <2>3 DEF SubmitAccepted
<1>6. nextOrder' = nextOrder + 1
  BY <1>2, <1>5 DEF Accept
<1>7. nextOrder \in Nat
  BY DEF IInv, OrderNumbers
<1> QED BY <1>3, <1>4, <1>6, <1>7

\* The first event of a batch says whether it is a refusal.
LEMMA FirstOfBatch ==
  ASSUME NEW told \in Seq(Event), NEW batch \in Seq(Event), NEW refusal, batch[1] # refusal
  PROVE  SubSeq(told \o batch, Len(told) + 1, Len(told \o batch)) # <<refusal>>
<1>1. SubSeq(told \o batch, Len(told) + 1, Len(told \o batch)) = batch
  OBVIOUS
<1>2. batch # <<refusal>>
  OBVIOUS
<1> QED BY <1>1, <1>2, Zenon

\* What the exchange says first to a command of the maker is not a refusal.
LEMMA NoRefusal ==
  ASSUME MakerInv, QuotingInv, RoomLeft, RunExchange, status = "Open", ByMaker(Head(queue).command)
  PROVE  \E batch \in Seq(Event) : events' = events \o batch /\ batch[1] # Rejected(Head(queue))
<1> DEFINE s == Head(queue)
<1>1. IInv /\ QueueOK /\ queue # <<>> /\ queue' = Tail(queue) /\ Process(s)
  BY DEF MakerInv, RunExchange, Due
<1>2. s = queue[1] /\ 1 \in DOMAIN queue /\ s \in Entry /\ Fitting(s.command) /\ s.command \in Command
  BY <1>1, TakenFromQueue DEF Entry
<1>3. MakerSubmission(s.command) \/ MakerCancellation(s.command)
  BY OwnCommands
<1> HIDE DEF s
<1>4. CASE MakerSubmission(s.command)
  <2> DEFINE r == s.command.request
             in == OrderOf(r)
  <2>1. s.command.kind = "submit" /\ r.post_only /\ r.valid
    BY <1>2, <1>4 DEF MakerSubmission, Fitting
  <2>2. r \in SubmitOrderRequest /\ ProcessSubmit(r) /\ events' = events \o SubmitEvents(s)
    BY <1>1, <1>2, <2>1, CommandFields DEF Process
  <2>3. r.price \in Prices /\ r.quantity = QuoteQuantity /\ Behind(r)
    BY <1>2, <1>4 DEF QuotingInv, SubmissionsOK
  <2>4. nextOrder' # nextOrder /\ PlanMatches(in).matches = <<>> /\ in \in Incoming /\ PlanOK(in, 0)
    BY <1>1, <2>1, <2>2, <2>3, QuoteIsTaken
  <2> HIDE DEF r
  <2>5. SubmitEvents(s) = AcceptedEvents(s, in)
    BY <2>4 DEF SubmitEvents, AcceptedEvents, Acknowledgement, Executions, FinalOutcome, r
  <2> HIDE DEF in
  <2>6. /\ Acknowledgement(s, in) \in Event /\ FinalOutcome(in) \in Event
        /\ Executions(in) = <<>> /\ DepthEvent \in Seq(Event)
    BY <1>1, <1>2, <2>4, FinalEvents, DepthTold DEF Executions
  <2>7. AcceptedEvents(s, in) \in Seq(Event) /\ AcceptedEvents(s, in)[1] = Acknowledgement(s, in)
    BY <2>6 DEF AcceptedEvents
  <2>8. Acknowledgement(s, in) # Rejected(s)
    BY DEF Acknowledgement, Rejected
  <2> QED BY <2>2, <2>5, <2>7, <2>8 DEF s
<1>5. CASE MakerCancellation(s.command)
  <2> DEFINE o == s.command.order
  <2>1. o \in OwnOrders
    BY <1>2, <1>5 DEF QuotingInv, CancellationsOK
  <2>2. events' = events \o CancelEvents(s) /\ o \in Orders
    BY <1>1, <1>2, <1>5, CommandFields DEF Process, MakerCancellation
  <2>3. live' # live
    <3>1. live' = [x \in DOMAIN live \ {o} |-> live[x]]
      BY <1>1, <1>2, <1>5, <2>1, CancellationRuns
    <3>2. o \in DOMAIN live
      BY <2>1 DEF OwnOrders
    <3> HIDE DEF o
    <3> QED BY <3>1, <3>2
  <2>4. CancelEvents(s) = <<Cancelled(o)>> \o DepthEvent
    BY <2>3 DEF CancelEvents
  <2> HIDE DEF o
  <2>5. Cancelled(o) \in Event /\ DepthEvent \in Seq(Event)
    BY <2>2, CancellationTold, DepthTold
  <2>6. CancelEvents(s) \in Seq(Event) /\ CancelEvents(s)[1] = Cancelled(o)
    BY <2>4, <2>5
  <2>7. Cancelled(o) # Rejected(s)
    BY DEF Cancelled, Rejected
  <2> QED BY <2>2, <2>6, <2>7 DEF s
<1> QED BY <1>3, <1>4, <1>5

\* No step of the system has a command of the maker refused.
LEMMA AcceptedNext ==
  MakerInv /\ QuotingInv /\ RoomLeft /\ MakerCommandsAccepted /\ [MakerNext]_makerVars
    => MakerCommandsAccepted'
<1> SUFFICES ASSUME MakerInv, QuotingInv, RoomLeft, refusals = 0, [MakerNext]_makerVars PROVE refusals' = 0
  BY DEF MakerCommandsAccepted
<1>1. CASE RunExchange
  <2> DEFINE s == Head(queue)
             refused == ByMaker(s.command) /\ status = "Open"
                          /\ SubSeq(events', Len(events) + 1, Len(events')) = <<Rejected(s)>>
  <2>1. refusals' = refusals + (IF refused THEN 1 ELSE 0)
    BY <1>1 DEF RunExchange, Observed
  <2>2. ~refused
    <3> SUFFICES ASSUME refused PROVE FALSE
      OBVIOUS
    <3>1. PICK batch \in Seq(Event) : events' = events \o batch /\ batch[1] # Rejected(s)
      BY <1>1, NoRefusal
    <3>2. events \in Seq(Event)
      BY DEF MakerInv, EventsOK
    <3> HIDE DEF s
    <3> QED BY <3>1, <3>2, FirstOfBatch
  <2> HIDE DEF refused
  <2> QED BY <2>1, <2>2
<1>2. CASE UNCHANGED observed
  BY <1>2 DEF observed
<1>3. ASSUME NEW command \in External, NEW at \in 1..Horizon, EnqueueExternal(command, at)
      PROVE  refusals' = refusals
  BY <1>3 DEF EnqueueExternal
<1>4. Consume \/ ConsumeFails \/ Decide \/ Decided \/ Return => UNCHANGED observed
  BY Zenon DEF Consume, ConsumeFails, Decide, Decided, Return
<1>5. ASSUME NEW side \in Sides PROVE AdmitSide(side) \/ BindSide(side) => UNCHANGED observed
  BY DEF AdmitSide, BindSide
<1>6. ActivateKillSwitch \/ (\E time \in 1..Horizon : RunUntil(time)) => UNCHANGED observed
  BY DEF ActivateKillSwitch, RunUntil
<1>7. UNCHANGED makerVars => UNCHANGED observed
  BY DEF makerVars
<1> QED BY <1>1, <1>2, <1>3, <1>4, <1>5, <1>6, <1>7, Zenon DEF MakerNext, Coordinator

\* While the book has room, the maker quotes once a side and none of its
\* commands is refused in an open market.
THEOREM MakerQuotesSoundly == MakerSpec /\ []RoomLeft => []QuotesAreSound
<1>1. MakerInit => MakerCommandsAccepted
  BY DEF MakerInit, MakerCommandsAccepted
<1>2. MakerInv /\ QuotingInv /\ RoomLeft /\ MakerCommandsAccepted /\ [MakerNext]_makerVars
        => MakerCommandsAccepted'
  BY AcceptedNext
<1>3. QuotingInv /\ MakerCommandsAccepted => QuotesAreSound
  BY DEF QuotingInv, QuotesAreSound
<1> QED BY <1>1, <1>2, <1>3, MakerInvariant, QuotingInvariant, PTL DEF MakerSpec

=============================================================================
