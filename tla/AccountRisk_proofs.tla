------------------------- MODULE AccountRisk_proofs -------------------------
(***************************************************************************)
(* The account stays within its limits for every set of limits, every      *)
(* event stream and every checkpoint document: proofs about AccountRisk.   *)
(*                                                                         *)
(* Section 1 computes what each change of a map of orders does to its      *)
(* exposure, which is a cardinality.  Section 2 proves the type invariant. *)
(* Section 3 proves the limits, from the type invariant and one lemma per  *)
(* kind of change.  Section 4 is the kill-switch action property.          *)
(***************************************************************************)
EXTENDS AccountRisk, FiniteSetTheorems, TLAPS

-----------------------------------------------------------------------------
(* 1. Exposure. *)

\* A finite map of orders whose quantities are positive and within the limit.
Orderly(f) ==
  /\ IsFiniteSet(DOMAIN f)
  /\ IsMap(f)
  /\ \A x \in DOMAIN f : f[x].quantity \in 1..MaxOrderQty

\* What order x contributes to the exposure of side s.
Part(f, x, s) == IF x \in DOMAIN f /\ f[x].side = s THEN f[x].quantity ELSE 0

\* An order of q units has q lots.
LEMMA ColumnOfLots ==
  ASSUME NEW x, NEW q \in Nat
  PROVE  IsFiniteSet({x} \X (1..q)) /\ Cardinality({x} \X (1..q)) = q
<1>1. IsFiniteSet({x}) /\ Cardinality({x}) = 1
  BY FS_Singleton
<1>2. IsFiniteSet(1..q) /\ Cardinality(1..q) = q
  BY FS_Interval
<1>3. IsFiniteSet({x} \X (1..q)) /\ Cardinality({x} \X (1..q)) = Cardinality({x}) * Cardinality(1..q)
  <2>1. \A S, T : IsFiniteSet(S) /\ IsFiniteSet(T)
          => IsFiniteSet(S \X T) /\ Cardinality(S \X T) = Cardinality(S) * Cardinality(T)
    BY FS_Product
  <2> QED BY <1>1, <1>2, <2>1, Zenon
<1>4. Cardinality({x}) * Cardinality(1..q) = q
  BY <1>1, <1>2
<1> QED BY <1>3, <1>4

\* An exposure is a natural number.
LEMMA ExposureType ==
  ASSUME NEW f, IsFiniteSet(DOMAIN f), NEW s
  PROVE  IsFiniteSet(Lots(f, s)) /\ Exposure(f, s) \in Nat
<1>1. IsFiniteSet(1..MaxOrderQty)
  BY LimitsAssumption, FS_Interval
<1>2. IsFiniteSet((DOMAIN f) \X (1..MaxOrderQty))
  BY <1>1, FS_Product
<1>3. Lots(f, s) \in SUBSET ((DOMAIN f) \X (1..MaxOrderQty))
  BY DEF Lots
<1>4. IsFiniteSet(Lots(f, s))
  BY <1>2, <1>3, FS_Subset
<1> QED BY <1>4, FS_CardinalityType DEF Exposure

\* Erasing order x takes its quantity, and nothing else, off its side.
LEMMA ExposureWithout ==
  ASSUME NEW f, Orderly(f), NEW x, NEW s
  PROVE  /\ Orderly(Without(f, x))
         /\ Exposure(Without(f, x), s) = Exposure(f, s) - Part(f, x, s)
<1> DEFINE g == Without(f, x)
<1>1. DOMAIN g = DOMAIN f \ {x} /\ \A y \in DOMAIN g : g[y] = f[y]
  BY DEF Without
<1>2. IsFiniteSet(DOMAIN g)
  BY <1>1, FS_RemoveElement DEF Orderly
<1>3. Orderly(g)
  BY <1>1, <1>2 DEF Orderly, Without, IsMap
<1>4. Exposure(g, s) = Exposure(f, s) - Part(f, x, s)
  <2>1. CASE x \in DOMAIN f /\ f[x].side = s
    <3> DEFINE q == f[x].quantity
               column == {x} \X (1..q)
    <3>1. q \in Nat /\ q <= MaxOrderQty
      BY <2>1, LimitsAssumption DEF Orderly
    <3>2. Lots(f, s) = Lots(g, s) \cup column
      BY <1>1, <2>1, <3>1, LimitsAssumption DEF Lots
    <3>3. Lots(g, s) \cap column = {}
      BY <1>1 DEF Lots
    <3>4. IsFiniteSet(column) /\ Cardinality(column) = q
      BY <3>1, ColumnOfLots
    <3>5. IsFiniteSet(Lots(g, s)) /\ Exposure(g, s) \in Nat
      BY <1>2, ExposureType
    <3>6. Cardinality(Lots(g, s) \cap column) = 0
      BY <3>3, FS_EmptySet
    <3>7. Cardinality(Lots(g, s) \cup column)
            = Cardinality(Lots(g, s)) + Cardinality(column) - Cardinality(Lots(g, s) \cap column)
      BY <3>4, <3>5, FS_Union
    <3>8. Exposure(f, s) = Exposure(g, s) + q
      BY <3>1, <3>2, <3>4, <3>5, <3>6, <3>7 DEF Exposure
    <3> QED BY <2>1, <3>1, <3>5, <3>8 DEF Part
  <2>2. CASE ~(x \in DOMAIN f /\ f[x].side = s)
    <3>1. Lots(f, s) = Lots(g, s)
      BY <1>1, <2>2 DEF Lots
    <3>2. Exposure(f, s) \in Nat
      BY ExposureType DEF Orderly
    <3> QED BY <2>2, <3>1, <3>2 DEF Part, Exposure
  <2> QED BY <2>1, <2>2
<1> QED BY <1>3, <1>4

\* Adding an order under a new identifier adds its quantity to its side.
LEMMA ExposureWith ==
  ASSUME NEW f, Orderly(f), NEW x, x \notin DOMAIN f, NEW s,
         NEW v, v.quantity \in 1..MaxOrderQty
  PROVE  /\ Orderly(With(f, x, v))
         /\ Exposure(With(f, x, v), s) = Exposure(f, s) + IfSide(s, v.side, v.quantity)
<1> DEFINE g == With(f, x, v)
<1>1. DOMAIN g = DOMAIN f \cup {x} /\ g[x] = v /\ \A y \in DOMAIN f : g[y] = f[y]
  BY DEF With
<1>2. Orderly(g)
  <2>1. IsFiniteSet(DOMAIN g)
    BY <1>1, FS_AddElement DEF Orderly
  <2> QED BY <1>1, <2>1 DEF Orderly, With, IsMap
<1>3. Without(g, x) = f
  BY <1>1 DEF Without, Orderly, IsMap
<1>4. Exposure(f, s) = Exposure(g, s) - Part(g, x, s)
  BY <1>2, <1>3, ExposureWithout
<1>5. Part(g, x, s) = IfSide(s, v.side, v.quantity)
  BY <1>1 DEF Part, IfSide
<1>6. Exposure(g, s) \in Nat
  BY <1>2, ExposureType DEF Orderly
<1>7. IfSide(s, v.side, v.quantity) \in Nat
  BY LimitsAssumption DEF IfSide
<1> QED BY <1>2, <1>4, <1>5, <1>6, <1>7

\* Replacing the record of order x moves its side by the difference.
LEMMA ExposureReplaced ==
  ASSUME NEW f, Orderly(f), NEW x \in DOMAIN f, NEW s,
         NEW v, v.quantity \in 1..MaxOrderQty
  PROVE  /\ Orderly([f EXCEPT ![x] = v])
         /\ Exposure([f EXCEPT ![x] = v], s)
              = Exposure(f, s) - Part(f, x, s) + IfSide(s, v.side, v.quantity)
<1> DEFINE rest == Without(f, x)
<1>1. Orderly(rest) /\ Exposure(rest, s) = Exposure(f, s) - Part(f, x, s)
  BY ExposureWithout
<1>2. x \notin DOMAIN rest
  BY DEF Without
<1>3. /\ Orderly(With(rest, x, v))
      /\ Exposure(With(rest, x, v), s) = Exposure(rest, s) + IfSide(s, v.side, v.quantity)
  BY <1>1, <1>2, ExposureWith
<1>4. [f EXCEPT ![x] = v] = With(rest, x, v)
  BY DEF With, Without, Orderly, IsMap
<1> QED BY <1>1, <1>3, <1>4

-----------------------------------------------------------------------------
(* 2. Type correctness. *)

\* Erasing, adding and replacing an order keep a map of orders one.
LEMMA MapWithout ==
  ASSUME NEW f, NEW ids, NEW records, OrderMap(f, ids, records), NEW x
  PROVE  OrderMap(Without(f, x), ids, records)
BY DEF OrderMap, Without, IsMap

LEMMA MapWith ==
  ASSUME NEW f, NEW ids, NEW records, OrderMap(f, ids, records),
         NEW v \in records, v.id \in ids, v.quantity \in 1..MaxOrderQty
  PROVE  OrderMap(With(f, v.id, v), ids, records)
BY DEF OrderMap, With, IsMap

LEMMA MapReplaced ==
  ASSUME NEW f, NEW ids, NEW records, OrderMap(f, ids, records),
         NEW x \in DOMAIN f, NEW v \in records, v.id = x, v.quantity \in 1..MaxOrderQty
  PROVE  OrderMap([f EXCEPT ![x] = v], ids, records)
BY DEF OrderMap, IsMap

\* The maps of a type-correct state are finite, and their exposures numbers.
LEMMA TypedMaps ==
  ASSUME TypeOK
  PROVE  /\ Orderly(live) /\ Orderly(pending)
         /\ \A s : Exposure(live, s) \in Nat /\ Exposure(pending, s) \in Nat
         /\ Cardinality(DOMAIN live) \in Nat /\ Cardinality(DOMAIN pending) \in Nat
<1>1. IsFiniteSet(DOMAIN live) /\ IsFiniteSet(DOMAIN pending)
  BY IdentifiersAssumption, FS_Subset DEF TypeOK, OrderMap
<1>2. Orderly(live) /\ Orderly(pending)
  BY <1>1 DEF TypeOK, OrderMap, Orderly
<1> QED BY <1>1, <1>2, ExposureType, FS_CardinalityType

\* A live order with a new quantity is a live order.
LEMMA NewQuantity ==
  ASSUME NEW v \in LiveRiskOrder, NEW r \in Nat
  PROVE  /\ [v EXCEPT !.quantity = r] \in LiveRiskOrder
         /\ [v EXCEPT !.quantity = r].id = v.id
         /\ [v EXCEPT !.quantity = r].side = v.side
         /\ [v EXCEPT !.quantity = r].quantity = r
BY DEF LiveRiskOrder

LEMMA MapRequantified ==
  ASSUME NEW f, OrderMap(f, Orders, LiveRiskOrder), NEW o \in DOMAIN f, NEW r \in 1..MaxOrderQty
  PROVE  OrderMap([f EXCEPT ![o].quantity = r], Orders, LiveRiskOrder)
<1> DEFINE new == [f[o] EXCEPT !.quantity = r]
<1>1. new \in LiveRiskOrder /\ new.id = o /\ new.quantity = r
  BY LimitsAssumption, NewQuantity DEF OrderMap
<1>2. [f EXCEPT ![o].quantity = r] = [f EXCEPT ![o] = new]
  OBVIOUS
<1> HIDE DEF new
<1>3. OrderMap([f EXCEPT ![o] = new], Orders, LiveRiskOrder)
  BY <1>1, MapReplaced
<1> QED BY <1>2, <1>3

\* The map built from the records of a document without duplicates.
LEMMA ByIdMap ==
  ASSUME NEW docs, NEW ids, NEW records, UniqueIds(docs), docs \subseteq records,
         \A r \in docs : r.id \in ids /\ r.quantity \in 1..MaxOrderQty
  PROVE  OrderMap(ById(docs), ids, records)
<1>1. \A x \in DOMAIN ById(docs) : ById(docs)[x] \in docs /\ ById(docs)[x].id = x
  BY DEF ById
<1>2. IsMap(ById(docs))
  BY DEF ById, IsMap
<1> QED BY <1>1, <1>2 DEF OrderMap

LEMMA RestoreType ==
  ASSUME NEW doc \in Documents, Restore(doc)
  PROVE  TypeOK'
<1>1. IsRiskCheckpoint(doc)
  BY DocumentsAssumption
<1>2. UniqueIds(doc.live) /\ UniqueIds(doc.pending)
  BY DEF Restore, ValidCheckpoint
<1>3. \A r \in doc.live : r \in LiveRiskOrder /\ r.id \in Orders /\ r.quantity \in 1..MaxOrderQty
  BY <1>1, LimitsAssumption DEF Restore, ValidCheckpoint, IsRiskCheckpoint, LiveRiskOrder
<1>4. \A p \in doc.pending : p \in PendingRiskOrder /\ p.id \in Intents /\ p.quantity \in 1..MaxOrderQty
  BY <1>1, LimitsAssumption DEF Restore, ValidCheckpoint, IsRiskCheckpoint, PendingRiskOrder
<1>5. OrderMap(ById(doc.live), Orders, LiveRiskOrder)
  BY <1>2, <1>3, ByIdMap
<1>6. OrderMap(ById(doc.pending), Intents, PendingRiskOrder)
  BY <1>2, <1>4, ByIdMap
<1>7. OrderMap(live', Orders, LiveRiskOrder) /\ OrderMap(pending', Intents, PendingRiskOrder)
  BY <1>5, <1>6 DEF Restore
<1>8. watermark' \in Nat /\ net' \in Int /\ kill' \in BOOLEAN
  BY <1>1 DEF Restore, IsRiskCheckpoint
<1> QED BY <1>7, <1>8 DEF TypeOK

\* What a step needs to preserve the types.
LEMMA TypeParts ==
  ASSUME watermark' \in Nat, net' \in Int, kill' \in BOOLEAN,
         OrderMap(live', Orders, LiveRiskOrder), OrderMap(pending', Intents, PendingRiskOrder)
  PROVE  TypeOK'
BY DEF TypeOK

\* Every step preserves the types.
LEMMA TypeStep == TypeOK /\ [Next]_vars => TypeOK'
<1> SUFFICES ASSUME TypeOK, [Next]_vars PROVE TypeOK'
  OBVIOUS
<1> USE LimitsAssumption, IdentifiersAssumption
<1> DEFINE LiveMap == OrderMap(live, Orders, LiveRiskOrder)
           PendingMap == OrderMap(pending, Intents, PendingRiskOrder)
<1>0. watermark \in Nat /\ net \in Int /\ kill \in BOOLEAN /\ LiveMap /\ PendingMap
  BY DEF TypeOK
<1>1. ASSUME NEW i \in Intents, NEW s \in Sides, NEW q \in Quantities, NEW p \in PostOnlyChoices,
             Admit(i, s, q, p)
      PROVE  TypeOK'
  <2> DEFINE new == Reservation(i, s, q, p)
  <2>1. q \in 1..MaxOrderQty
    BY <1>1 DEF Admit, IntentAcceptable
  <2>2. new \in PendingRiskOrder /\ new.id = i /\ new.quantity = q
    BY <2>1 DEF Reservation, PendingRiskOrder
  <2>3. OrderMap(With(pending, new.id, new), Intents, PendingRiskOrder)
    BY <1>0, <2>1, <2>2, MapWith
  <2>4. PendingMap'
    BY <1>1, <2>2, <2>3 DEF Admit
  <2>5. watermark' = watermark /\ net' = net /\ kill' = kill /\ live' = live
    BY <1>1 DEF Admit
  <2> QED BY <1>0, <2>4, <2>5, TypeParts
<1>2. ASSUME NEW i \in Intents, NEW g \in Ingress, BindIngress(i, g)
      PROVE  TypeOK'
  <2> DEFINE new == [pending[i] EXCEPT !.ingress = g]
  <2>1. i \in DOMAIN pending /\ pending' = [pending EXCEPT ![i] = new]
    BY <1>2 DEF BindIngress
  <2>2. new \in PendingRiskOrder /\ new.id = i /\ new.quantity \in 1..MaxOrderQty
    BY <1>0, <2>1 DEF OrderMap, PendingRiskOrder
  <2>3. PendingMap'
    BY <1>0, <2>1, <2>2, MapReplaced
  <2>4. watermark' = watermark /\ net' = net /\ kill' = kill /\ live' = live
    BY <1>2 DEF BindIngress
  <2> QED BY <1>0, <2>3, <2>4, TypeParts
<1>3. ASSUME NEW seq \in 1..MaxWatermark, NEW o \in Orders, NEW g \in Ingress, NEW s \in Sides,
             NEW q \in Quantities, ApplyAcknowledged(seq, o, g, s, q)
      PROVE  TypeOK'
  <2> DEFINE new == [id |-> o, side |-> s, quantity |-> q]
  <2>1. PICK i \in DOMAIN pending :
          /\ pending[i].quantity = q
          /\ live' = With(live, o, new)
          /\ pending' = Without(pending, i)
    BY <1>3 DEF ApplyAcknowledged, Answers
  <2>2. q \in 1..MaxOrderQty
    BY <1>0, <2>1 DEF OrderMap
  <2>3. new \in LiveRiskOrder /\ new.id = o /\ new.quantity = q
    BY <2>2 DEF LiveRiskOrder
  <2>4. LiveMap'
    BY <1>0, <2>1, <2>2, <2>3, MapWith
  <2>5. PendingMap'
    BY <1>0, <2>1, MapWithout
  <2>6. watermark' \in Nat /\ net' = net /\ kill' = kill
    BY <1>3 DEF ApplyAcknowledged, Answers, Contiguous
  <2> QED BY <1>0, <2>4, <2>5, <2>6, TypeParts
<1>4. ASSUME NEW seq \in 1..MaxWatermark, NEW o \in Orders, NEW s \in Sides, NEW q \in Quantities,
             ApplyFill(seq, o, s, q)
      PROVE  TypeOK'
  <2>1. watermark' \in Nat /\ net' \in Int /\ kill' = kill /\ pending' = pending
    BY <1>0, <1>4 DEF ApplyFill, FillAcceptable, Contiguous
  <2>2. CASE live[o].quantity = q
    <3>1. live' = Without(live, o)
      BY <1>4, <2>2 DEF ApplyFill, FillAcceptable
    <3>2. LiveMap'
      BY <1>0, <3>1, MapWithout
    <3> QED BY <1>0, <2>1, <3>2, TypeParts
  <2>3. CASE live[o].quantity # q
    <3> DEFINE r == live[o].quantity - q
    <3>1. o \in DOMAIN live /\ r \in 1..MaxOrderQty
      BY <1>0, <1>4, <2>3 DEF ApplyFill, FillAcceptable, OrderMap
    <3>2. live' = [live EXCEPT ![o].quantity = r]
      BY <1>4, <2>3 DEF ApplyFill, FillAcceptable
    <3>3. LiveMap'
      <4> HIDE DEF r
      <4> QED BY <1>0, <3>1, <3>2, MapRequantified
    <3> QED BY <1>0, <2>1, <3>3, TypeParts
  <2> QED BY <2>2, <2>3
<1>5. ASSUME NEW seq \in 1..MaxWatermark, NEW o \in Orders, NEW r \in Quantities,
             ApplyOutcome(seq, o, r)
      PROVE  TypeOK'
  <2>1. watermark' \in Nat /\ net' = net /\ kill' = kill /\ pending' = pending
    BY <1>5 DEF ApplyOutcome, OutcomeAcceptable, Contiguous
  <2>2. CASE o \notin DOMAIN live
    <3>1. live' = live
      BY <1>5, <2>2 DEF ApplyOutcome, OutcomeAcceptable
    <3> QED BY <1>0, <2>1, <3>1, TypeParts
  <2>3. CASE o \in DOMAIN live /\ r = 0
    <3>1. live' = Without(live, o)
      BY <1>5, <2>3 DEF ApplyOutcome, OutcomeAcceptable
    <3>2. LiveMap'
      BY <1>0, <3>1, MapWithout
    <3> QED BY <1>0, <2>1, <3>2, TypeParts
  <2>4. CASE o \in DOMAIN live /\ r # 0
    <3>1. r \in 1..MaxOrderQty
      BY <1>0, <1>5, <2>4 DEF ApplyOutcome, OutcomeAcceptable, OrderMap
    <3>2. live' = [live EXCEPT ![o].quantity = r]
      BY <1>5, <2>4 DEF ApplyOutcome, OutcomeAcceptable
    <3>3. LiveMap'
      BY <1>0, <2>4, <3>1, <3>2, MapRequantified
    <3> QED BY <1>0, <2>1, <3>3, TypeParts
  <2> QED BY <2>2, <2>3, <2>4
<1>6. ASSUME NEW seq \in 1..MaxWatermark, NEW o \in Orders, ApplyCancellation(seq, o)
      PROVE  TypeOK'
  <2>1. watermark' \in Nat /\ net' = net /\ kill' = kill /\ pending' = pending
        /\ live' = Without(live, o)
    BY <1>6 DEF ApplyCancellation, Contiguous
  <2> QED BY <1>0, <2>1, MapWithout, TypeParts
<1>7. ASSUME NEW seq \in 1..MaxWatermark, NEW g \in Ingress, ApplyRejected(seq, g)
      PROVE  TypeOK'
  <2>1. watermark' \in Nat /\ net' = net /\ kill' = kill /\ live' = live
    BY <1>7 DEF ApplyRejected, Contiguous
  <2>2. PendingMap'
    BY <1>0, <1>7 DEF ApplyRejected, OrderMap, IsMap
  <2> QED BY <1>0, <2>1, <2>2, TypeParts
<1>8. ASSUME NEW seq \in 1..MaxWatermark, ApplyOther(seq)
      PROVE  TypeOK'
  <2>1. watermark' \in Nat /\ net' = net /\ kill' = kill /\ live' = live /\ pending' = pending
    BY <1>8 DEF ApplyOther, Contiguous
  <2> QED BY <1>0, <2>1, TypeParts
<1>9. ASSUME NEW active \in BOOLEAN, SetKillSwitch(active)
       PROVE  TypeOK'
  <2>1. watermark' = watermark /\ net' = net /\ kill' = active /\ live' = live /\ pending' = pending
    BY <1>9 DEF SetKillSwitch
  <2> QED BY <1>0, <2>1, TypeParts
<1>10. ASSUME NEW doc \in Documents, Restore(doc)
       PROVE  TypeOK'
  BY <1>10, RestoreType
<1>11. CASE UNCHANGED vars
  BY <1>0, <1>11, TypeParts DEF vars
<1> QED
  BY <1>1, <1>2, <1>3, <1>4, <1>5, <1>6, <1>7, <1>8, <1>9, <1>10, <1>11 DEF Next, ApplyEvent

\* The maps hold well-formed records under their own identifiers, with
\* positive quantities within the per-order limit, in every reachable state.
THEOREM TypeCorrect == Spec => []TypeOK
<1>1. Init => TypeOK
  <2> SUFFICES ASSUME Init PROVE TypeOK
    OBVIOUS
  <2>1. DOMAIN NoOrders = {} /\ IsMap(NoOrders)
    BY DEF NoOrders, IsMap
  <2>2. watermark \in Nat /\ net \in Int
    BY DEF Init
  <2>3. kill \in BOOLEAN
    BY DEF Init
  <2>4. OrderMap(live, Orders, LiveRiskOrder) /\ OrderMap(pending, Intents, PendingRiskOrder)
    BY <2>1 DEF Init, OrderMap
  <2> QED BY <2>2, <2>3, <2>4 DEF TypeOK
<1> QED BY <1>1, TypeStep, PTL DEF Spec

-----------------------------------------------------------------------------
(* 3. The limits. *)

\* A step that adds nothing to the exposure of a side, live and reserved
\* together, nor to its reservations, and widens the range of positions at
\* neither end.
Narrows ==
  /\ \A s \in Sides :
       /\ Exposure(pending', s) <= Exposure(pending, s)
       /\ Exposure(live', s) + Exposure(pending', s) <= Exposure(live, s) + Exposure(pending, s)
  /\ net' + Buys' <= net + Buys
  /\ net' - Sells' >= net - Sells

\* Sums of exposures, so that the arithmetic below sees integers only.
LEMMA PrimedNumbers ==
  ASSUME TypeOK'
  PROVE  /\ net' \in Int
         /\ \A s : Exposure(live', s) \in Nat /\ Exposure(pending', s) \in Nat
         /\ Buys' = Exposure(live', "Buy") + Exposure(pending', "Buy")
         /\ Sells' = Exposure(live', "Sell") + Exposure(pending', "Sell")
<1>1. IsFiniteSet(DOMAIN live') /\ IsFiniteSet(DOMAIN pending')
  BY IdentifiersAssumption, FS_Subset DEF TypeOK, OrderMap
<1>2. \A s : Exposure(live', s) \in Nat /\ Exposure(pending', s) \in Nat
  BY <1>1, ExposureType
<1> QED BY <1>2 DEF TypeOK, Buys, Sells, Exposure, Lots

\* A step that narrows preserves the two exposure invariants.
LEMMA NarrowingPreserves ==
  ASSUME TypeOK, TypeOK', WorstCasePosition, SideExposureBound, Narrows
  PROVE  WorstCasePosition' /\ SideExposureBound'
<1>1. /\ net \in Int
      /\ \A s : Exposure(live, s) \in Nat /\ Exposure(pending, s) \in Nat
  BY TypedMaps DEF TypeOK
<1>2. /\ net' \in Int
      /\ \A s : Exposure(live', s) \in Nat /\ Exposure(pending', s) \in Nat
      /\ Buys' = Exposure(live', "Buy") + Exposure(pending', "Buy")
      /\ Sells' = Exposure(live', "Sell") + Exposure(pending', "Sell")
  BY PrimedNumbers
<1>3. MaxPosition \in Nat /\ MaxPending \in Nat /\ \A s : SideLimit(s) \in Nat
  BY LimitsAssumption DEF SideLimit
<1>4. WithinPosition(net', Buys', Sells')
  BY <1>1, <1>2, <1>3 DEF Narrows, WorstCasePosition, WithinPosition, Buys, Sells
<1>5. \A s \in Sides :
        /\ Exposure(pending', s) <= MaxPending
        /\ Exposure(live', s) + Exposure(pending', s) <= SideLimit(s) + MaxPending
  BY <1>1, <1>2, <1>3 DEF Narrows, SideExposureBound
<1>6. WorstCasePosition'
  BY <1>4 DEF WorstCasePosition, WithinPosition
<1>7. SideExposureBound'
  BY <1>5 DEF SideExposureBound, Exposure, Lots, SideLimit
<1> QED BY <1>6, <1>7

\* A step that leaves net and the reservations alone and takes from the live
\* orders at most narrows.
LEMMA LiveShrinks ==
  ASSUME TypeOK, net' = net, pending' = pending,
         \A s : Exposure(live', s) \in Nat /\ Exposure(live', s) <= Exposure(live, s)
  PROVE  Narrows
<1>1. /\ net \in Int
      /\ \A s : Exposure(live, s) \in Nat /\ Exposure(pending, s) \in Nat
  BY TypedMaps DEF TypeOK
<1>2. Buys' = Exposure(live', "Buy") + Exposure(pending, "Buy")
      /\ Sells' = Exposure(live', "Sell") + Exposure(pending, "Sell")
  BY DEF Buys, Sells, Exposure, Lots
<1> QED BY <1>1, <1>2 DEF Narrows, Buys, Sells

\* An acknowledgement moves a quantity from reserved to live.
LEMMA AcknowledgedNarrows ==
  ASSUME TypeOK, NEW seq, NEW o \in Orders, NEW g, NEW side, NEW q,
         ApplyAcknowledged(seq, o, g, side, q)
  PROVE  Narrows
<1> DEFINE new == [id |-> o, side |-> side, quantity |-> q]
<1>1. PICK i \in DOMAIN pending :
        /\ pending[i].side = side
        /\ pending[i].quantity = q
        /\ o \notin DOMAIN live
        /\ live' = With(live, o, new)
        /\ pending' = Without(pending, i)
        /\ net' = net
  BY DEF ApplyAcknowledged, Answers
<1>2. Orderly(live) /\ Orderly(pending)
  BY TypedMaps
<1>3. q \in 1..MaxOrderQty
  BY <1>1, <1>2 DEF Orderly
<1>4. \A s : Exposure(live', s) = Exposure(live, s) + IfSide(s, side, q)
  BY <1>1, <1>2, <1>3, ExposureWith
<1>5. \A s : Exposure(pending', s) = Exposure(pending, s) - IfSide(s, side, q)
  <2> SUFFICES ASSUME NEW s PROVE Exposure(pending', s) = Exposure(pending, s) - IfSide(s, side, q)
    OBVIOUS
  <2>1. Part(pending, i, s) = IfSide(s, side, q)
    BY <1>1 DEF Part, IfSide
  <2> QED BY <1>1, <1>2, <2>1, ExposureWithout
<1>6. \A s : /\ Exposure(live, s) \in Nat /\ Exposure(pending, s) \in Nat
             /\ IfSide(s, side, q) \in Nat
  BY <1>3, TypedMaps, LimitsAssumption DEF IfSide
<1>7. Buys' = Exposure(live', "Buy") + Exposure(pending', "Buy")
      /\ Sells' = Exposure(live', "Sell") + Exposure(pending', "Sell")
  BY DEF Buys, Sells, Exposure, Lots
<1>8. net \in Int
  BY DEF TypeOK
<1> QED BY <1>1, <1>4, <1>5, <1>6, <1>7, <1>8 DEF Narrows, Buys, Sells

\* Lowering or erasing one live order: what the fill and outcome events do.
LEMMA LoweredExposure ==
  ASSUME TypeOK, NEW o \in DOMAIN live, NEW r \in Nat, r <= live[o].quantity,
         live' = IF r = 0 THEN Without(live, o) ELSE [live EXCEPT ![o].quantity = r]
  PROVE  \A s : Exposure(live', s) = Exposure(live, s) - IfSide(s, live[o].side, live[o].quantity - r)
<1> SUFFICES ASSUME NEW s
    PROVE Exposure(live', s) = Exposure(live, s) - IfSide(s, live[o].side, live[o].quantity - r)
  OBVIOUS
<1>1. Orderly(live) /\ Exposure(live, s) \in Nat
  BY TypedMaps
<1>2. live[o] \in LiveRiskOrder /\ live[o].quantity \in 1..MaxOrderQty
  BY DEF TypeOK, OrderMap
<1>3. Part(live, o, s) = IfSide(s, live[o].side, live[o].quantity)
  BY DEF Part, IfSide
<1>4. CASE r = 0
  <2>1. Exposure(live', s) = Exposure(live, s) - Part(live, o, s)
    BY <1>1, <1>4, ExposureWithout
  <2> QED BY <1>2, <1>3, <1>4, <2>1 DEF IfSide
<1>5. CASE r # 0
  <2> DEFINE new == [live[o] EXCEPT !.quantity = r]
  <2>1. r \in 1..MaxOrderQty
    BY <1>2, <1>5, LimitsAssumption
  <2>2. new.quantity = r /\ new.side = live[o].side
    BY <1>2, NewQuantity
  <2>3. live' = [live EXCEPT ![o] = new]
    BY <1>5
  <2> HIDE DEF new
  <2>4. Exposure([live EXCEPT ![o] = new], s)
          = Exposure(live, s) - Part(live, o, s) + IfSide(s, new.side, new.quantity)
    BY <1>1, <2>1, <2>2, ExposureReplaced
  <2>5. Exposure(live', s)
          = Exposure(live, s) - IfSide(s, live[o].side, live[o].quantity) + IfSide(s, live[o].side, r)
    BY <1>3, <2>2, <2>3, <2>4
  <2> QED BY <1>1, <1>2, <2>1, <2>5 DEF IfSide
<1> QED BY <1>4, <1>5

\* A fill moves the position by what it takes off the live order.
LEMMA FillNarrows ==
  ASSUME TypeOK, NEW seq, NEW o \in Orders, NEW side \in Sides, NEW q \in Quantities,
         ApplyFill(seq, o, side, q)
  PROVE  Narrows
<1> DEFINE r == live[o].quantity - q
<1>1. /\ o \in DOMAIN live
      /\ live[o].side = side
      /\ q \in Nat
      /\ r \in Nat
      /\ r <= live[o].quantity
      /\ live[o].quantity - r = q
  BY IdentifiersAssumption, LimitsAssumption DEF ApplyFill, FillAcceptable, TypeOK, OrderMap
<1>2. live' = IF r = 0 THEN Without(live, o) ELSE [live EXCEPT ![o].quantity = r]
  BY <1>1, LimitsAssumption DEF ApplyFill, FillAcceptable, TypeOK, OrderMap
<1>3. pending' = pending /\ net' = IF side = "Buy" THEN net + q ELSE net - q
  BY DEF ApplyFill, FillAcceptable
<1> HIDE DEF r
<1>4. \A s : Exposure(live', s) = Exposure(live, s) - IfSide(s, side, q)
  BY <1>1, <1>2, LoweredExposure
<1>5. /\ net \in Int
      /\ \A s : Exposure(live, s) \in Nat /\ Exposure(pending, s) \in Nat
  BY TypedMaps DEF TypeOK
<1>6. Buys' = Exposure(live', "Buy") + Exposure(pending, "Buy")
      /\ Sells' = Exposure(live', "Sell") + Exposure(pending, "Sell")
  BY <1>3 DEF Buys, Sells, Exposure, Lots
<1>7. CASE side = "Buy"
  BY <1>1, <1>3, <1>4, <1>5, <1>6, <1>7 DEF Narrows, IfSide, Buys, Sells, Sides
<1>8. CASE side = "Sell"
  BY <1>1, <1>3, <1>4, <1>5, <1>6, <1>8 DEF Narrows, IfSide, Buys, Sells, Sides
<1> QED BY <1>7, <1>8 DEF Sides

LEMMA OutcomeNarrows ==
  ASSUME TypeOK, NEW seq, NEW o \in Orders, NEW r \in Quantities, ApplyOutcome(seq, o, r)
  PROVE  Narrows
<1>1. net' = net /\ pending' = pending /\ r \in Nat
  BY IdentifiersAssumption DEF ApplyOutcome, OutcomeAcceptable
<1>2. \A s : Exposure(live, s) \in Nat /\ Orderly(live)
  BY TypedMaps
<1>3. CASE o \notin DOMAIN live
  <2>1. live' = live
    BY <1>3 DEF ApplyOutcome, OutcomeAcceptable
  <2> QED BY <1>1, <1>2, <2>1, LiveShrinks
<1>4. CASE o \in DOMAIN live
  <2>1. /\ r <= live[o].quantity
        /\ live' = IF r = 0 THEN Without(live, o) ELSE [live EXCEPT ![o].quantity = r]
    BY <1>4 DEF ApplyOutcome, OutcomeAcceptable
  <2>2. \A s : Exposure(live', s) = Exposure(live, s) - IfSide(s, live[o].side, live[o].quantity - r)
    BY <1>1, <1>4, <2>1, LoweredExposure
  <2>3. live[o].quantity \in Nat
    BY <1>2, <1>4, LimitsAssumption DEF Orderly
  <2>4. \A s : IfSide(s, live[o].side, live[o].quantity - r) \in Nat
    BY <1>1, <2>1, <2>3 DEF IfSide
  <2>5. Orderly(live')
    <3>1. CASE r = 0
      BY <1>2, <2>1, <3>1, ExposureWithout
    <3>2. CASE r # 0
      <4>1. live' = [live EXCEPT ![o].quantity = r] /\ r \in 1..MaxOrderQty
        BY <1>1, <1>2, <1>4, <2>1, <3>2, LimitsAssumption DEF Orderly
      <4>2. OrderMap(live', Orders, LiveRiskOrder)
        BY <1>4, <4>1, MapRequantified DEF TypeOK
      <4>3. DOMAIN live' = DOMAIN live
        BY <4>1
      <4> QED BY <1>2, <4>2, <4>3 DEF Orderly, OrderMap
    <3> QED BY <3>1, <3>2
  <2>6. \A s : Exposure(live', s) \in Nat
    BY <2>5, ExposureType DEF Orderly
  <2> QED BY <1>1, <1>2, <2>2, <2>4, <2>6, LiveShrinks
<1> QED BY <1>3, <1>4

LEMMA CancellationNarrows ==
  ASSUME TypeOK, NEW seq, NEW o \in Orders, ApplyCancellation(seq, o)
  PROVE  Narrows
<1>1. net' = net /\ pending' = pending /\ live' = Without(live, o)
  BY DEF ApplyCancellation
<1>2. Orderly(live) /\ \A s : Exposure(live, s) \in Nat
  BY TypedMaps
<1>3. /\ Orderly(Without(live, o))
      /\ \A s : Exposure(Without(live, o), s) = Exposure(live, s) - Part(live, o, s)
  BY <1>2, ExposureWithout
<1>4. \A s : Part(live, o, s) \in Nat
  BY <1>2, LimitsAssumption DEF Part, Orderly
<1>5. \A s : Exposure(live', s) \in Nat
  BY <1>1, <1>3, ExposureType DEF Orderly
<1> QED BY <1>1, <1>2, <1>3, <1>4, <1>5, LiveShrinks

\* A rejection erases the reservations of one command.
LEMMA RejectedNarrows ==
  ASSUME TypeOK, NEW seq, NEW g, ApplyRejected(seq, g)
  PROVE  Narrows
<1>1. net' = net /\ live' = live
      /\ DOMAIN pending' \subseteq DOMAIN pending
      /\ \A i \in DOMAIN pending' : pending'[i] = pending[i]
  BY DEF ApplyRejected
<1>2. Orderly(pending) /\ \A s : Exposure(live, s) \in Nat /\ Exposure(pending, s) \in Nat
  BY TypedMaps
<1>3. \A s : Lots(pending', s) \subseteq Lots(pending, s)
  BY <1>1 DEF Lots
<1>4. \A s : Exposure(pending', s) <= Exposure(pending, s) /\ Exposure(pending', s) \in Nat
  <2> SUFFICES ASSUME NEW s
      PROVE Exposure(pending', s) <= Exposure(pending, s) /\ Exposure(pending', s) \in Nat
    OBVIOUS
  <2>1. IsFiniteSet(Lots(pending, s))
    BY <1>2, ExposureType DEF Orderly
  <2>2. IsFiniteSet(Lots(pending', s)) /\ Cardinality(Lots(pending', s)) <= Cardinality(Lots(pending, s))
    BY <1>3, <2>1, FS_Subset
  <2> QED BY <2>2, FS_CardinalityType DEF Exposure
<1>5. Buys' = Exposure(live, "Buy") + Exposure(pending', "Buy")
      /\ Sells' = Exposure(live, "Sell") + Exposure(pending', "Sell")
  BY <1>1 DEF Buys, Sells, Exposure, Lots
<1>6. net \in Int
  BY DEF TypeOK
<1> QED BY <1>1, <1>2, <1>4, <1>5, <1>6 DEF Narrows, Buys, Sells

\* Binding an ingress number changes no side and no quantity.
LEMMA BindNarrows ==
  ASSUME TypeOK, NEW i \in Intents, NEW g, BindIngress(i, g)
  PROVE  Narrows
<1>1. /\ net' = net /\ live' = live
      /\ DOMAIN pending' = DOMAIN pending
      /\ \A j \in DOMAIN pending : /\ pending'[j].side = pending[j].side
                                   /\ pending'[j].quantity = pending[j].quantity
  BY DEF BindIngress, TypeOK, OrderMap, PendingRiskOrder
<1>2. \A s : Exposure(live, s) \in Nat /\ Exposure(pending, s) \in Nat
  BY TypedMaps
<1>3. \A s : Lots(pending', s) = Lots(pending, s)
  BY <1>1 DEF Lots
<1>4. \A s : Exposure(pending', s) = Exposure(pending, s)
  BY <1>3 DEF Exposure
<1>5. Buys' = Buys /\ Sells' = Sells
  BY <1>1, <1>3 DEF Buys, Sells, Exposure, Lots
<1>6. net \in Int /\ Buys \in Nat /\ Sells \in Nat
  BY <1>2 DEF TypeOK, Buys, Sells
<1> QED BY <1>1, <1>2, <1>4, <1>5, <1>6 DEF Narrows

\* Every step but an admission and a restore narrows.
LEMMA StepNarrows ==
  ASSUME TypeOK, [Next]_vars,
         ~ \E i \in Intents, s \in Sides, q \in Quantities, p \in PostOnlyChoices : Admit(i, s, q, p),
         ~ \E doc \in Documents : Restore(doc)
  PROVE  Narrows
<1>1. CASE UNCHANGED <<net, live, pending>>
  <2>1. net \in Int /\ \A s : Exposure(live, s) \in Nat /\ Exposure(pending, s) \in Nat
    BY TypedMaps DEF TypeOK
  <2> QED BY <1>1, <2>1, LiveShrinks
<1>2. ASSUME NEW seq \in 1..MaxWatermark, ApplyEvent(seq)
      PROVE  Narrows
  <2>1. CASE ApplyOther(seq)
    BY <1>1, <2>1 DEF ApplyOther
  <2> QED BY <1>2, <2>1, AcknowledgedNarrows, FillNarrows, OutcomeNarrows, CancellationNarrows,
             RejectedNarrows DEF ApplyEvent
<1>3. CASE UNCHANGED vars
  BY <1>1, <1>3 DEF vars
<1>4. ASSUME NEW active \in BOOLEAN, SetKillSwitch(active)
      PROVE  Narrows
  BY <1>1, <1>4 DEF SetKillSwitch
<1> QED BY <1>2, <1>3, <1>4, BindNarrows DEF Next

\* An admission stays within the limits it checked.
LEMMA AdmitWithinLimits ==
  ASSUME TypeOK, TypeOK', SideExposureBound,
         NEW i \in Intents, NEW side \in Sides, NEW q \in Quantities, NEW p, Admit(i, side, q, p)
  PROVE  WorstCasePosition' /\ SideExposureBound'
<1> DEFINE new == Reservation(i, side, q, p)
<1>1. /\ i \notin DOMAIN pending
      /\ q \in 1..MaxOrderQty
      /\ ExposureAcceptable(side, q)
      /\ pending' = With(pending, i, new)
      /\ net' = net /\ live' = live
  BY IdentifiersAssumption, LimitsAssumption DEF Admit, IntentAcceptable
<1>2. new.side = side /\ new.quantity = q
  BY DEF Reservation
<1> HIDE DEF new
<1>3. \A s : Exposure(pending', s) = Exposure(pending, s) + IfSide(s, side, q)
  BY <1>1, <1>2, TypedMaps, ExposureWith
<1>4. /\ net \in Int
      /\ \A s : Exposure(live, s) \in Nat /\ Exposure(pending, s) \in Nat
  BY TypedMaps DEF TypeOK
<1>5. /\ Buys' = Exposure(live, "Buy") + Exposure(pending, "Buy") + IfSide("Buy", side, q)
      /\ Sells' = Exposure(live, "Sell") + Exposure(pending, "Sell") + IfSide("Sell", side, q)
  <2>1. Buys' = Exposure(live, "Buy") + Exposure(pending', "Buy")
        /\ Sells' = Exposure(live, "Sell") + Exposure(pending', "Sell")
    BY <1>1 DEF Buys, Sells, Exposure, Lots
  <2>2. \A s : IfSide(s, side, q) \in Nat
    BY <1>1, LimitsAssumption DEF IfSide
  <2> QED BY <1>3, <1>4, <2>1, <2>2
<1>6. WithinPosition(net', Buys', Sells')
  BY <1>1, <1>5 DEF ExposureAcceptable
<1>7. \A s \in Sides :
        /\ Exposure(pending', s) <= MaxPending
        /\ Exposure(live', s) + Exposure(pending', s) <= SideLimit(s) + MaxPending
  <2> SUFFICES ASSUME NEW s \in Sides
      PROVE /\ Exposure(pending', s) <= MaxPending
            /\ Exposure(live', s) + Exposure(pending', s) <= SideLimit(s) + MaxPending
    OBVIOUS
  <2>1. MaxPending \in Nat /\ SideLimit(s) \in Nat /\ q \in Nat
    BY <1>1, LimitsAssumption DEF SideLimit
  <2>2. CASE s = side
    BY <1>1, <1>3, <1>4, <2>1, <2>2 DEF IfSide, ExposureAcceptable
  <2>3. CASE s # side
    BY <1>1, <1>3, <1>4, <2>1, <2>3 DEF IfSide, SideExposureBound
  <2> QED BY <2>2, <2>3
<1>8. WorstCasePosition'
  BY <1>6 DEF WorstCasePosition, WithinPosition
<1>9. SideExposureBound'
  BY <1>7 DEF SideExposureBound, Exposure, Lots, SideLimit
<1> QED BY <1>8, <1>9

\* What validate_checkpoint accepts is within the limits.
LEMMA RestoreWithinLimits ==
  ASSUME TypeOK', NEW doc \in Documents, Restore(doc)
  PROVE  WorstCasePosition' /\ SideExposureBound' /\ ActiveOrderBound' /\ IngressUnique'
<1>1. /\ live' = ById(doc.live) /\ pending' = ById(doc.pending) /\ net' = doc.net
      /\ \A s \in Sides : Exposure(live', s) <= SideLimit(s) /\ Exposure(pending', s) <= MaxPending
      /\ WithinPosition(net', Exposure(live', "Buy") + Exposure(pending', "Buy"),
                              Exposure(live', "Sell") + Exposure(pending', "Sell"))
      /\ Cardinality(DOMAIN live') + Cardinality(DOMAIN pending') <= MaxActive
  BY DEF Restore, ValidCheckpoint
<1>2. \A s : Exposure(live', s) \in Nat /\ Exposure(pending', s) \in Nat
  BY PrimedNumbers
<1>3. Buys' = Exposure(live', "Buy") + Exposure(pending', "Buy")
      /\ Sells' = Exposure(live', "Sell") + Exposure(pending', "Sell")
  BY PrimedNumbers
<1>4. MaxPending \in Nat /\ \A s : SideLimit(s) \in Nat
  BY LimitsAssumption DEF SideLimit
<1>5. WorstCasePosition'
  BY <1>1, <1>3 DEF WorstCasePosition, WithinPosition
<1>6. \A s \in Sides :
        /\ Exposure(pending', s) <= MaxPending
        /\ Exposure(live', s) + Exposure(pending', s) <= SideLimit(s) + MaxPending
  BY <1>1, <1>2, <1>4
<1>7. SideExposureBound'
  BY <1>6 DEF SideExposureBound, Exposure, Lots, SideLimit
<1>8. ActiveOrderBound'
  BY <1>1 DEF ActiveOrderBound
<1>9. IngressUnique'
  <2>1. \A i \in DOMAIN pending' : pending'[i] \in doc.pending /\ pending'[i].id = i
    BY <1>1 DEF ById
  <2>2. \A a, b \in doc.pending : a.ingress = b.ingress /\ a.ingress # NoIngress => a = b
    BY DEF Restore, ValidCheckpoint
  <2> QED BY <2>1, <2>2 DEF IngressUnique
<1> QED BY <1>5, <1>7, <1>8, <1>9

\* No step but an admission makes an order active, and admit counts them.
LEMMA ActiveStep ==
  ASSUME TypeOK, ActiveOrderBound, [Next]_vars, ~ \E doc \in Documents : Restore(doc)
  PROVE  ActiveOrderBound'
<1> DEFINE n == Cardinality(DOMAIN live)
           m == Cardinality(DOMAIN pending)
<1>1. /\ IsFiniteSet(DOMAIN live) /\ IsFiniteSet(DOMAIN pending)
      /\ n \in Nat /\ m \in Nat /\ MaxActive \in Nat /\ n + m <= MaxActive
  BY TypedMaps, LimitsAssumption DEF Orderly, ActiveOrderBound
<1>2. ASSUME DOMAIN live' \subseteq DOMAIN live, DOMAIN pending' \subseteq DOMAIN pending
      PROVE  ActiveOrderBound'
  <2>1. /\ Cardinality(DOMAIN live') <= n /\ Cardinality(DOMAIN live') \in Nat
        /\ Cardinality(DOMAIN pending') <= m /\ Cardinality(DOMAIN pending') \in Nat
    BY <1>1, <1>2, FS_Subset, FS_CardinalityType
  <2> QED BY <1>1, <2>1 DEF ActiveOrderBound
<1>3. ASSUME NEW i \in Intents, NEW s \in Sides, NEW q \in Quantities, NEW p \in PostOnlyChoices,
             Admit(i, s, q, p)
      PROVE  ActiveOrderBound'
  <2>1. n + m < MaxActive /\ live' = live /\ DOMAIN pending' = DOMAIN pending \cup {i}
        /\ i \notin DOMAIN pending
    BY <1>3 DEF Admit, IntentAcceptable, With
  <2>2. Cardinality(DOMAIN pending \cup {i}) = m + 1
    BY <1>1, <2>1, FS_AddElement
  <2> QED BY <1>1, <2>1, <2>2 DEF ActiveOrderBound
<1>4. ASSUME NEW seq, NEW o, NEW g, NEW s, NEW q, ApplyAcknowledged(seq, o, g, s, q)
      PROVE  ActiveOrderBound'
  <2>1. PICK i \in DOMAIN pending : /\ DOMAIN live' = DOMAIN live \cup {o}
                                    /\ o \notin DOMAIN live
                                    /\ DOMAIN pending' = DOMAIN pending \ {i}
    BY <1>4 DEF ApplyAcknowledged, Answers, With, Without
  <2>2. Cardinality(DOMAIN live \cup {o}) = n + 1
    BY <1>1, <2>1, FS_AddElement
  <2>3. Cardinality(DOMAIN pending \ {i}) = m - 1
    BY <1>1, <2>1, FS_RemoveElement
  <2> QED BY <1>1, <2>1, <2>2, <2>3 DEF ActiveOrderBound
<1>5. ASSUME NEW seq \in 1..MaxWatermark, ApplyEvent(seq)
      PROVE  ActiveOrderBound'
  <2>1. ASSUME NEW o, NEW s, NEW q, ApplyFill(seq, o, s, q) PROVE ActiveOrderBound'
    BY <1>2, <2>1 DEF ApplyFill, FillAcceptable, Without
  <2>2. ASSUME NEW o, NEW r, ApplyOutcome(seq, o, r) PROVE ActiveOrderBound'
    BY <1>2, <2>2 DEF ApplyOutcome, OutcomeAcceptable, Without
  <2>3. ASSUME NEW o, ApplyCancellation(seq, o) PROVE ActiveOrderBound'
    BY <1>2, <2>3 DEF ApplyCancellation, Without
  <2>4. ASSUME NEW g, ApplyRejected(seq, g) PROVE ActiveOrderBound'
    BY <1>2, <2>4 DEF ApplyRejected
  <2>5. CASE ApplyOther(seq)
    BY <1>2, <2>5 DEF ApplyOther
  <2> QED BY <1>4, <1>5, <2>1, <2>2, <2>3, <2>4, <2>5 DEF ApplyEvent
<1>6. ASSUME NEW i, NEW g, BindIngress(i, g) PROVE ActiveOrderBound'
  BY <1>2, <1>6 DEF BindIngress
<1>7. ASSUME NEW active, SetKillSwitch(active) PROVE ActiveOrderBound'
  BY <1>2, <1>7 DEF SetKillSwitch
<1>8. CASE UNCHANGED vars
  BY <1>2, <1>8 DEF vars
<1> QED BY <1>3, <1>5, <1>6, <1>7, <1>8 DEF Next

\* Only bind_ingress gives a reservation a number, and it refuses one in use.
LEMMA IngressStep ==
  ASSUME TypeOK, IngressUnique, [Next]_vars, ~ \E doc \in Documents : Restore(doc)
  PROVE  IngressUnique'
<1>1. ASSUME DOMAIN pending' \subseteq DOMAIN pending,
             \A i \in DOMAIN pending' : pending'[i] = pending[i]
      PROVE  IngressUnique'
  BY <1>1 DEF IngressUnique
<1>2. ASSUME NEW i \in Intents, NEW s \in Sides, NEW q \in Quantities, NEW p \in PostOnlyChoices,
             Admit(i, s, q, p)
      PROVE  IngressUnique'
  <2>1. /\ DOMAIN pending' = DOMAIN pending \cup {i}
        /\ pending'[i].ingress = NoIngress
        /\ \A j \in DOMAIN pending : j # i => pending'[j] = pending[j]
    BY <1>2 DEF Admit, With, Reservation
  <2> QED BY <2>1 DEF IngressUnique
<1>3. ASSUME NEW i \in Intents, NEW g \in Ingress, BindIngress(i, g)
      PROVE  IngressUnique'
  <2>1. /\ DOMAIN pending' = DOMAIN pending
        /\ pending'[i].ingress = g
        /\ \A j \in DOMAIN pending : pending[j].ingress # g
        /\ \A j \in DOMAIN pending : j # i => pending'[j] = pending[j]
    BY <1>3 DEF BindIngress, TypeOK, OrderMap, PendingRiskOrder
  <2> QED BY <2>1 DEF IngressUnique
<1>4. ASSUME NEW seq \in 1..MaxWatermark, ApplyEvent(seq)
      PROVE  IngressUnique'
  <2>1. ASSUME NEW o, NEW g, NEW s, NEW q, ApplyAcknowledged(seq, o, g, s, q) PROVE IngressUnique'
    BY <1>1, <2>1 DEF ApplyAcknowledged, Answers, Without
  <2>2. ASSUME NEW o, NEW s, NEW q, ApplyFill(seq, o, s, q) PROVE IngressUnique'
    BY <1>1, <2>2 DEF ApplyFill, FillAcceptable
  <2>3. ASSUME NEW o, NEW r, ApplyOutcome(seq, o, r) PROVE IngressUnique'
    BY <1>1, <2>3 DEF ApplyOutcome, OutcomeAcceptable
  <2>4. ASSUME NEW o, ApplyCancellation(seq, o) PROVE IngressUnique'
    BY <1>1, <2>4 DEF ApplyCancellation
  <2>5. ASSUME NEW g, ApplyRejected(seq, g) PROVE IngressUnique'
    BY <1>1, <2>5 DEF ApplyRejected
  <2>6. CASE ApplyOther(seq)
    BY <1>1, <2>6 DEF ApplyOther
  <2> QED BY <1>4, <2>1, <2>2, <2>3, <2>4, <2>5, <2>6 DEF ApplyEvent
<1>5. ASSUME NEW active, SetKillSwitch(active) PROVE IngressUnique'
  BY <1>1, <1>5 DEF SetKillSwitch
<1>6. CASE UNCHANGED vars
  BY <1>1, <1>6 DEF vars
<1> QED BY <1>2, <1>3, <1>4, <1>5, <1>6 DEF Next

-----------------------------------------------------------------------------
(* 4. The theorems. *)

\* The inductive invariant: the limits need each other only through TypeOK,
\* but one induction serves them all.
Limits == WorstCasePosition /\ SideExposureBound /\ ActiveOrderBound /\ IngressUnique

LEMMA InitLimits == Init => Limits
<1> SUFFICES ASSUME Init PROVE Limits
  OBVIOUS
<1>1. DOMAIN live = {} /\ DOMAIN pending = {}
  BY DEF Init, NoOrders
<1>2. \A s : Lots(live, s) = {} /\ Lots(pending, s) = {}
  BY <1>1 DEF Lots
<1>3. Cardinality({}) = 0
  BY FS_EmptySet
<1>4. \A s : Exposure(live, s) = 0 /\ Exposure(pending, s) = 0
  BY <1>2, <1>3 DEF Exposure
<1>5. net = 0
  BY DEF Init
<1>6. WorstCasePosition
  BY <1>4, <1>5, LimitsAssumption DEF WorstCasePosition, WithinPosition, Buys, Sells
<1>7. SideExposureBound
  BY <1>4, LimitsAssumption DEF SideExposureBound, SideLimit
<1>8. ActiveOrderBound
  BY <1>1, <1>3, LimitsAssumption DEF ActiveOrderBound
<1>9. IngressUnique
  BY <1>1 DEF IngressUnique
<1> QED BY <1>6, <1>7, <1>8, <1>9 DEF Limits

LEMMA LimitsStep == TypeOK /\ TypeOK' /\ Limits /\ [Next]_vars => Limits'
<1> SUFFICES ASSUME TypeOK, TypeOK', Limits, [Next]_vars PROVE Limits'
  OBVIOUS
<1>1. CASE \E doc \in Documents : Restore(doc)
  BY <1>1, RestoreWithinLimits DEF Limits
<1>2. CASE ~ \E doc \in Documents : Restore(doc)
  <2>1. ActiveOrderBound' /\ IngressUnique'
    BY <1>2, ActiveStep, IngressStep DEF Limits
  <2>2. WorstCasePosition' /\ SideExposureBound'
    <3>1. CASE \E i \in Intents, s \in Sides, q \in Quantities, p \in PostOnlyChoices :
                 Admit(i, s, q, p)
      BY <3>1, AdmitWithinLimits DEF Limits
    <3>2. CASE ~ \E i \in Intents, s \in Sides, q \in Quantities, p \in PostOnlyChoices :
                   Admit(i, s, q, p)
      BY <1>2, <3>2, StepNarrows, NarrowingPreserves DEF Limits
    <3> QED BY <3>1, <3>2
  <2> QED BY <2>1, <2>2 DEF Limits
<1> QED BY <1>1, <1>2

LEMMA LimitsHold == Spec => []Limits
<1>1. TypeOK /\ TypeOK' /\ Limits /\ [Next]_vars => Limits'
  BY LimitsStep
<1> QED BY <1>1, InitLimits, TypeCorrect, PTL DEF Spec

\* However the open and the reserved orders are filled, the position stays
\* within maximum_absolute_position: for every event stream the projection is
\* given, in any order, and for every document it restores.
THEOREM WorstCaseSafe == Spec => []WorstCasePosition
<1>1. Limits => WorstCasePosition
  BY DEF Limits
<1> QED BY <1>1, LimitsHold, PTL

\* Reservations never exceed maximum_pending_exposure, and a side's open and
\* reserved exposure never exceeds the two limits together: the only bound on
\* open exposure that admit establishes.
THEOREM SideExposureSafe == Spec => []SideExposureBound
<1>1. Limits => SideExposureBound
  BY DEF Limits
<1> QED BY <1>1, LimitsHold, PTL

\* At most maximum_active_orders orders are open or reserved.
THEOREM ActiveOrdersSafe == Spec => []ActiveOrderBound
<1>1. Limits => ActiveOrderBound
  BY DEF Limits
<1> QED BY <1>1, LimitsHold, PTL

\* An exchange event names at most one reservation.
THEOREM IngressSafe == Spec => []IngressUnique
<1>1. Limits => IngressUnique
  BY DEF Limits
<1> QED BY <1>1, LimitsHold, PTL

\* While the kill switch is on, only a restore can widen the range of
\* positions the account can end in.
THEOREM KillSwitchSafe == Spec => KilledAccountOnlyShrinks
<1>1. TypeOK /\ [Next]_vars
        => [kill /\ kill' => \/ \E doc \in Documents : Restore(doc)
                             \/ net' + Buys' <= net + Buys /\ net' - Sells' >= net - Sells]_vars
  <2> SUFFICES ASSUME TypeOK, [Next]_vars, kill, ~ \E doc \in Documents : Restore(doc)
      PROVE  net' + Buys' <= net + Buys /\ net' - Sells' >= net - Sells
    OBVIOUS
  <2>1. ~ \E i \in Intents, s \in Sides, q \in Quantities, p \in PostOnlyChoices : Admit(i, s, q, p)
    BY DEF Admit, IntentAcceptable
  <2>2. Narrows
    BY <2>1, StepNarrows
  <2> QED BY <2>2 DEF Narrows
<1> QED BY <1>1, TypeCorrect, PTL DEF Spec, KilledAccountOnlyShrinks

\* A captured checkpoint describes the maps it was captured from.
LEMMA CaptureRoundTrip ==
  ASSUME NEW f, NEW ids, NEW records, OrderMap(f, ids, records)
  PROVE  UniqueIds(Records(f)) /\ ById(Records(f)) = f
<1>1. \A x \in DOMAIN f : f[x].id = x
  BY DEF OrderMap
<1>2. UniqueIds(Records(f))
  BY <1>1 DEF UniqueIds, Records
<1>3. {r.id : r \in Records(f)} = DOMAIN f
  BY <1>1 DEF Records
<1>4. \A x \in DOMAIN f : (CHOOSE r \in Records(f) : r.id = x) = f[x]
  <2> SUFFICES ASSUME NEW x \in DOMAIN f
      PROVE  (CHOOSE r \in Records(f) : r.id = x) = f[x]
    OBVIOUS
  <2>1. f[x] \in Records(f) /\ f[x].id = x
    BY <1>1 DEF Records
  <2>2. \A r \in Records(f) : r.id = x => r = f[x]
    BY <1>1 DEF Records
  <2> QED BY <2>1, <2>2
<1>5. IsMap(f)
  BY DEF OrderMap
<1> QED BY <1>2, <1>3, <1>4, <1>5 DEF ById, IsMap

\* A state the projection reached can be restored from its own checkpoint
\* unless a reservation is not post-only or an open exposure exceeds its side
\* limit: no other rule of validate_checkpoint can refuse it.
THEOREM OwnCheckpointRefusals == Spec => []RestoreRefusesTwoThingsOnly
<1>1. TypeOK /\ Limits => RestoreRefusesTwoThingsOnly
  <2> SUFFICES ASSUME TypeOK, Limits,
                      \A i \in DOMAIN pending : pending[i].post_only,
                      \A s \in Sides : ~(Exposure(live, s) > SideLimit(s))
      PROVE  ValidCheckpoint(CurrentCheckpoint)
    BY DEF RestoreRefusesTwoThingsOnly
  <2> DEFINE doc == CurrentCheckpoint
  <2>1. doc.live = Records(live) /\ doc.pending = Records(pending) /\ doc.net = net
    BY DEF CurrentCheckpoint
  <2>2. UniqueIds(doc.live) /\ ById(doc.live) = live
    BY <2>1, CaptureRoundTrip DEF TypeOK
  <2>3. UniqueIds(doc.pending) /\ ById(doc.pending) = pending
    BY <2>1, CaptureRoundTrip DEF TypeOK
  <2>4. \A r \in doc.live : r.quantity # 0 /\ r.quantity <= MaxOrderQty
    BY <2>1, LimitsAssumption DEF Records, TypeOK, OrderMap
  <2>5. \A p \in doc.pending : p.quantity # 0 /\ p.quantity <= MaxOrderQty /\ p.post_only
    BY <2>1, LimitsAssumption DEF Records, TypeOK, OrderMap
  <2>6. \A p, r \in doc.pending : p.ingress = r.ingress /\ p.ingress # NoIngress => p = r
    BY <2>1 DEF Records, Limits, IngressUnique
  <2>7. \A s \in Sides : Exposure(live, s) <= SideLimit(s) /\ Exposure(pending, s) <= MaxPending
    <3>1. \A s : Exposure(live, s) \in Nat /\ SideLimit(s) \in Nat
      BY TypedMaps, LimitsAssumption DEF SideLimit
    <3> QED BY <3>1 DEF Limits, SideExposureBound
  <2>8. WithinPosition(doc.net, Exposure(live, "Buy") + Exposure(pending, "Buy"),
                                Exposure(live, "Sell") + Exposure(pending, "Sell"))
    BY <2>1 DEF Limits, WorstCasePosition, Buys, Sells
  <2>9. Cardinality(DOMAIN live) + Cardinality(DOMAIN pending) <= MaxActive
    BY DEF Limits, ActiveOrderBound
  <2> HIDE DEF doc
  <2> QED BY <2>2, <2>3, <2>4, <2>5, <2>6, <2>7, <2>8, <2>9 DEF ValidCheckpoint, doc
<1> QED BY <1>1, TypeCorrect, LimitsHold, PTL
=============================================================================
