--------------------------- MODULE Exchange_proofs ---------------------------
(***************************************************************************)
(* What is proved of OrderBook and Exchange, for any number of traders,    *)
(* prices and orders.                                                      *)
(*                                                                         *)
(* Sections 1 to 10 are lemmas about what the operations of the book       *)
(* compute.  The others are about the exchange: the book stays consistent, *)
(* the depth events show it, and no command breaks the market's rules.     *)
(***************************************************************************)
EXTENDS Exchange, FiniteSetTheorems, WellFoundedInduction, TLAPS

-----------------------------------------------------------------------------
(* 1. Numbers, sums and listings. *)

\* A nonempty set of natural numbers has a least element.
LEMMA LeastNumber ==
  ASSUME NEW T, T \subseteq Nat, T # {}
  PROVE  \E x \in T : \A y \in T : x <= y
<1> DEFINE R == OpToRel(<, Nat)
<1>1. \E x \in T : \A y \in T : ~ (<<y, x>> \in R)
  <2>1. IsWellFoundedOn(R, Nat)
    BY Zenon, NatLessThanWellFounded
  <2> HIDE DEF R
  <2> QED BY <2>1, WFMin
<1>2. PICK x \in T : \A y \in T : ~(<<y, x>> \in R)
  BY Zenon, <1>1
<1>3. \A y \in T : ~(y < x)
  BY <1>2 DEF OpToRel
<1>4. \A y \in T : x <= y
  BY <1>3
<1> QED BY <1>4

\* Induction up to n, with the set of numbers a claim holds of in its place.
LEMMA Climb ==
  ASSUME NEW n \in Nat, NEW G, 0 \in G,
         \A k \in 0..(n - 1) : k \in G => k + 1 \in G
  PROVE  \A k \in 0..n : k \in G
<1> DEFINE Bad == {k \in 0..n : k \notin G}
<1> SUFFICES ASSUME Bad # {} PROVE FALSE
  OBVIOUS
<1>1. PICK k \in Bad : \A j \in Bad : k <= j
  <2>1. Bad \subseteq Nat
    OBVIOUS
  <2> QED BY <2>1, LeastNumber
<1>2. k # 0 /\ k \in 0..n
  OBVIOUS
<1>3. k - 1 \in 0..(n - 1) /\ k - 1 \notin Bad
  BY <1>1, <1>2
<1>4. k - 1 \in G
  BY <1>2, <1>3
<1> QED BY <1>2, <1>3, <1>4

LEMMA LesserOfTwo ==
  ASSUME NEW a \in Int, NEW b \in Int
  PROVE  Min({a, b}) = IF a <= b THEN a ELSE b
BY DEF Min

\* The lots behind a sum: each argument with the numbers up to its value.
Lots(f) == UNION {{x} \X (1..f[x]) : x \in DOMAIN f}

LEMMA ColumnOfLots ==
  ASSUME NEW x, NEW q \in Nat
  PROVE  IsFiniteSet({x} \X (1..q)) /\ Cardinality({x} \X (1..q)) = q
<1>1. IsFiniteSet({x}) /\ Cardinality({x}) = 1
  BY FS_Singleton
<1>2. IsFiniteSet(1..q) /\ Cardinality(1..q) = q
  BY FS_Interval
<1>3. IsFiniteSet({x} \X (1..q)) /\ Cardinality({x} \X (1..q)) = Cardinality({x}) * Cardinality(1..q)
  <2>1. \A S, T : IsFiniteSet(S) /\ IsFiniteSet(T)
          => IsFiniteSet(S \X T) /\ Cardinality(S \X T) = Cardinality(S) * Cardinality(T)
    BY FS_Product
  <2> QED BY <1>1, <1>2, <2>1, Zenon
<1>4. Cardinality({x}) * Cardinality(1..q) = q
  BY <1>1, <1>2
<1> QED BY <1>3, <1>4

\* A union of finite sets, one for each member of a finite set.
LEMMA FiniteUnion ==
  ASSUME NEW S, IsFiniteSet(S), NEW f, DOMAIN f = S, \A x \in S : IsFiniteSet(f[x])
  PROVE  IsFiniteSet(UNION {f[x] : x \in S})
<1> DEFINE T == {f[x] : x \in S}
           g == [x \in S |-> f[x]]
<1>1. g \in Surjection(S, T)
  BY DEF Surjection
<1>2. IsFiniteSet(T)
  <2> HIDE DEF g, T
  <2> QED BY <1>1, FS_Surjection
<1>3. \A t \in T : IsFiniteSet(t)
  OBVIOUS
<1>4. IsFiniteSet(UNION T)
  <2> HIDE DEF T
  <2> QED BY <1>2, <1>3, FS_UNION
<1> QED BY <1>4

LEMMA UnitsType ==
  ASSUME NEW f, IsFiniteSet(DOMAIN f), \A x \in DOMAIN f : f[x] \in Nat
  PROVE  IsFiniteSet(Lots(f)) /\ Units(f) \in Nat
<1> DEFINE g == [x \in DOMAIN f |-> {x} \X (1..f[x])]
<1>1. \A x \in DOMAIN f : IsFiniteSet(g[x])
  BY ColumnOfLots
<1>2. Lots(f) = UNION {g[x] : x \in DOMAIN f}
  BY DEF Lots
<1>3. DOMAIN g = DOMAIN f
  OBVIOUS
<1> HIDE DEF g
<1>4. IsFiniteSet(Lots(f))
  BY <1>1, <1>2, <1>3, FiniteUnion
<1> QED BY <1>4, FS_CardinalityType DEF Units, Lots

LEMMA UnitsOfNothing ==
  ASSUME NEW f, DOMAIN f = {}
  PROVE  Units(f) = 0
<1>1. Lots(f) = {}
  BY DEF Lots
<1> QED BY <1>1, FS_EmptySet DEF Units, Lots

\* Giving x its value back adds that value to the sum.
LEMMA UnitsWith ==
  ASSUME NEW f, IsFiniteSet(DOMAIN f), \A y \in DOMAIN f : f[y] \in Nat,
         NEW x, x \notin DOMAIN f, NEW g, DOMAIN g = DOMAIN f \cup {x},
         \A y \in DOMAIN f : g[y] = f[y], g[x] \in Nat
  PROVE  Units(g) = Units(f) + g[x]
<1> DEFINE column == {x} \X (1..g[x])
<1>1. Lots(g) = Lots(f) \cup column
  <2>1. \A e : e \in Lots(g) <=> \E y \in DOMAIN g : e \in {y} \X (1..g[y])
    BY DEF Lots
  <2>2. \A e : e \in Lots(f) <=> \E y \in DOMAIN f : e \in {y} \X (1..f[y])
    BY DEF Lots
  <2> QED BY <2>1, <2>2
<1>2. Lots(f) \cap column = {}
  BY DEF Lots
<1>3. IsFiniteSet(column) /\ Cardinality(column) = g[x]
  BY ColumnOfLots
<1>4. IsFiniteSet(Lots(f)) /\ Units(f) \in Nat
  BY UnitsType
<1>5. Cardinality(Lots(f) \cap column) = 0
  BY <1>2, FS_EmptySet
<1> HIDE DEF column
<1>6. Cardinality(Lots(f) \cup column)
        = Cardinality(Lots(f)) + Cardinality(column) - Cardinality(Lots(f) \cap column)
  BY <1>3, <1>4, FS_Union
<1>7. Units(f) = Cardinality(Lots(f)) /\ Units(g) = Cardinality(Lots(g))
  BY DEF Units, Lots
<1> QED BY <1>1, <1>3, <1>4, <1>5, <1>6, <1>7

\* A strict total order on S.
StrictlyOrders(S, R) ==
  /\ \A x, y \in S : <<x, y>> \in R => <<y, x>> \notin R
  /\ \A x, y, z \in S : <<x, y>> \in R /\ <<y, z>> \in R => <<x, z>> \in R
  /\ \A x, y \in S : x # y => <<x, y>> \in R \/ <<y, x>> \in R

\* l lists S along R, each member once.
Lists(l, S, R) ==
  /\ l = [k \in 1..Cardinality(S) |-> l[k]]
  /\ \A k \in 1..Cardinality(S) : l[k] \in S
  /\ \A x \in S : \E k \in 1..Cardinality(S) : l[k] = x
  /\ \A i, j \in 1..Cardinality(S) : i < j => <<l[i], l[j]>> \in R

LEMMA InOrderLists ==
  ASSUME NEW S, IsFiniteSet(S), NEW R, StrictlyOrders(S, R)
  PROVE  Cardinality(S) \in Nat /\ Lists(InOrder(S, R), S, R)
<1> DEFINE n == Cardinality(S)
           before(x) == {y \in S : <<y, x>> \in R}
           rank == [x \in S |-> Cardinality(before(x)) + 1]
<1>1. n \in Nat
  BY FS_CardinalityType
<1>2. \A x \in S : IsFiniteSet(before(x)) /\ Cardinality(before(x)) \in 0..(n - 1)
  <2> TAKE x \in S
  <2>1. IsFiniteSet(S \ {x}) /\ Cardinality(S \ {x}) = n - 1
    BY FS_RemoveElement
  <2>2. before(x) \in SUBSET (S \ {x})
    BY DEF StrictlyOrders
  <2> HIDE DEF before
  <2>3. IsFiniteSet(before(x)) /\ Cardinality(before(x)) <= n - 1
    BY <2>1, <2>2, FS_Subset
  <2>4. Cardinality(before(x)) \in Nat
    BY <2>3, FS_CardinalityType
  <2> QED BY <1>1, <2>3, <2>4
<1>3. \A x, y \in S : <<x, y>> \in R => Cardinality(before(x)) + 1 <= Cardinality(before(y))
  <2> SUFFICES ASSUME NEW x \in S, NEW y \in S, <<x, y>> \in R
               PROVE  Cardinality(before(x)) + 1 <= Cardinality(before(y))
    OBVIOUS
  <2>1. before(x) \cup {x} \in SUBSET before(y)
    BY DEF StrictlyOrders
  <2>2. x \notin before(x)
    BY DEF StrictlyOrders
  <2> HIDE DEF before
  <2>3. Cardinality(before(x) \cup {x}) = Cardinality(before(x)) + 1
    BY <1>2, <2>2, FS_AddElement
  <2>4. Cardinality(before(x) \cup {x}) <= Cardinality(before(y))
    BY <1>2, <2>1, FS_Subset
  <2> QED BY <2>3, <2>4
<1>4. \A x, y \in S : <<x, y>> \in R => rank[x] < rank[y]
  <2> SUFFICES ASSUME NEW x \in S, NEW y \in S, <<x, y>> \in R
               PROVE  rank[x] < rank[y]
    OBVIOUS
  <2> HIDE DEF before
  <2> QED BY <1>2, <1>3
<1>5. rank \in [S -> 1..n]
  <2> HIDE DEF before
  <2> QED BY <1>1, <1>2
<1> HIDE DEF before, rank
<1>6. \A x, y \in S : rank[x] = rank[y] => x = y
  <2>1. \A x \in S : rank[x] \in Nat
    BY <1>1, <1>5
  <2> TAKE x, y \in S
  <2>2. x # y => <<x, y>> \in R \/ <<y, x>> \in R
    BY DEF StrictlyOrders
  <2>3. x # y => rank[x] < rank[y] \/ rank[y] < rank[x]
    BY <1>4, <2>2, Zenon
  <2> QED BY <2>1, <2>3
<1>7. rank \in Injection(S, 1..n)
  <2> HIDE DEF n
  <2> QED BY <1>5, <1>6 DEF Injection, IsInjective
<1>8. IsFiniteSet(1..n) /\ Cardinality(1..n) = n
  BY <1>1, FS_Interval
<1>9. rank \in Surjection(S, 1..n)
  BY <1>7, <1>8, FS_Injection
<1>10. \A k \in 1..n : \E x \in S : rank[x] = k
  BY <1>9 DEF Surjection
<1> DEFINE l == InOrder(S, R)
<1>11. \A x \in S : rank[x] = Cardinality({y \in S : <<y, x>> \in R}) + 1
  BY DEF rank, before
<1>12. \A x \in S : Cardinality({y \in S : <<y, x>> \in R}) \in Nat
  BY <1>2 DEF before
<1>13. \A k \in 1..n : l[k] = CHOOSE x \in S : Cardinality({y \in S : <<y, x>> \in R}) = k - 1
  BY DEF InOrder
<1>14. \A k \in 1..n : l[k] \in S /\ rank[l[k]] = k
  <2> TAKE k \in 1..n
  <2>1. PICK x \in S : rank[x] = k
    BY <1>10
  <2>2. Cardinality({y \in S : <<y, x>> \in R}) = k - 1
    BY <1>11, <1>12, <2>1
  <2>3. l[k] \in S /\ Cardinality({y \in S : <<y, l[k]>> \in R}) = k - 1
    BY <1>13, <2>2
  <2> HIDE DEF l
  <2>4. rank[l[k]] = (k - 1) + 1
    BY <1>11, <2>3, Zenon
  <2> QED BY <1>1, <2>3, <2>4
<1>15. l = [k \in 1..n |-> l[k]]
  <2> DEFINE e(k) == CHOOSE x \in S : Cardinality({y \in S : <<y, x>> \in R}) = k - 1
  <2>1. l = [k \in 1..n |-> e(k)]
    BY DEF InOrder
  <2> HIDE DEF e, l, n
  <2> QED BY <2>1
<1> HIDE DEF l
<1>16. \A x \in S : \E k \in 1..n : l[k] = x
  BY <1>5, <1>6, <1>14
<1>17. \A i, j \in 1..n : i < j => <<l[i], l[j]>> \in R
  <2> TAKE i, j \in 1..n
  <2>1. l[i] \in S /\ l[j] \in S /\ rank[l[i]] = i /\ rank[l[j]] = j
    BY <1>14
  <2> HAVE i < j
  <2>2. l[i] # l[j] /\ ~(j < i)
    BY <1>1, <2>1
  <2>3. <<l[i], l[j]>> \in R \/ <<l[j], l[i]>> \in R
    BY <2>1, <2>2 DEF StrictlyOrders
  <2>4. <<l[j], l[i]>> \in R => j < i
    <3>1. <<l[j], l[i]>> \in R => rank[l[j]] < rank[l[i]]
      BY <1>4, <2>1, Zenon
    <3> QED BY <2>1, <3>1
  <2> QED BY <2>2, <2>3, <2>4
<1>18. Lists(l, S, R)
  BY <1>14, <1>15, <1>16, <1>17 DEF Lists
<1> QED BY <1>1, <1>18 DEF l

-----------------------------------------------------------------------------
(* 2. Price levels. *)

Level == [queue : Seq(Orders), total : Nat, count : Nat, occupied : BOOLEAN]

\* The orders of one side and price.
Mine(nodes, s, p) == {o \in DOMAIN nodes : nodes[o].side = s /\ nodes[o].price = p}

\* What validate_invariants asks of one level.
LevelOK(level, nodes, mine) ==
  /\ ToSet(level.queue) = mine
  /\ Len(level.queue) = Cardinality(mine)
  /\ \A i, j \in DOMAIN level.queue :
       i < j => nodes[level.queue[i]].priority < nodes[level.queue[j]].priority
  /\ level.total = Total(nodes, mine)
  /\ level.count = Cardinality(mine)
  /\ level.occupied <=> mine # {}

\* A finite set of orders whose records hold numbers.
Counted(nodes, S) ==
  /\ IsFiniteSet(S)
  /\ \A o \in S : nodes[o].remaining \in Nat /\ nodes[o].priority \in Nat

LEMMA TotalType ==
  ASSUME NEW nodes, NEW S, Counted(nodes, S)
  PROVE  Total(nodes, S) \in Nat
<1> DEFINE f == [o \in S |-> nodes[o].remaining]
<1>1. DOMAIN f = S /\ \A x \in DOMAIN f : f[x] \in Nat
  BY DEF Counted
<1> HIDE DEF f
<1>2. Units(f) \in Nat
  BY <1>1, UnitsType DEF Counted
<1> QED BY <1>2 DEF f, Total

LEMMA TotalOfNothing == \A nodes : Total(nodes, {}) = 0
BY UnitsOfNothing DEF Total

LEMMA TotalWith ==
  ASSUME NEW nodes, NEW S, NEW x, x \notin S, Counted(nodes, S \cup {x})
  PROVE  Total(nodes, S \cup {x}) = Total(nodes, S) + nodes[x].remaining
<1> DEFINE f == [o \in S |-> nodes[o].remaining]
           g == [o \in S \cup {x} |-> nodes[o].remaining]
<1>1. IsFiniteSet(S)
  <2>1. S = (S \cup {x}) \ {x}
    OBVIOUS
  <2>2. IsFiniteSet(S \cup {x})
    BY DEF Counted
  <2> QED BY <2>1, <2>2, FS_RemoveElement
<1>2. DOMAIN f = S /\ \A y \in DOMAIN f : f[y] \in Nat
  BY DEF Counted
<1>3. DOMAIN g = DOMAIN f \cup {x} /\ g[x] \in Nat /\ g[x] = nodes[x].remaining
  BY DEF Counted
<1>4. \A y \in DOMAIN f : g[y] = f[y]
  OBVIOUS
<1> HIDE DEF f, g
<1>5. Units(g) = Units(f) + g[x]
  BY <1>1, <1>2, <1>3, <1>4, UnitsWith
<1> QED BY <1>3, <1>5 DEF f, g, Total

LEMMA TotalAgrees ==
  ASSUME NEW f, NEW g, NEW S, \A o \in S : f[o].remaining = g[o].remaining
  PROVE  Total(f, S) = Total(g, S)
<1>1. [o \in S |-> f[o].remaining] = [o \in S |-> g[o].remaining]
  OBVIOUS
<1> QED BY <1>1 DEF Total

\* Part of a set of orders has no more than the whole.
LEMMA TotalWithout ==
  ASSUME NEW nodes, NEW S, NEW x \in S, Counted(nodes, S)
  PROVE  /\ Counted(nodes, S \ {x})
         /\ Total(nodes, S \ {x}) = Total(nodes, S) - nodes[x].remaining
         /\ Total(nodes, S \ {x}) \in Nat
<1>1. (S \ {x}) \cup {x} = S
  OBVIOUS
<1>2. Counted(nodes, S \ {x})
  BY FS_RemoveElement DEF Counted
<1>3. Total(nodes, (S \ {x}) \cup {x}) = Total(nodes, S \ {x}) + nodes[x].remaining
  BY <1>1, TotalWith
<1>4. Total(nodes, S \ {x}) \in Nat
  BY <1>2, TotalType
<1>5. nodes[x].remaining \in Nat
  BY DEF Counted
<1>6. Total(nodes, S) = Total(nodes, S \ {x}) + nodes[x].remaining
  BY <1>1, <1>3, Zenon
<1>7. Total(nodes, S \ {x}) = Total(nodes, S) - nodes[x].remaining
  BY <1>4, <1>5, <1>6
<1> QED BY <1>2, <1>4, <1>7

\* Fewer orders with less remaining each have no more in total, and less if one
\* of them is gone or reduced.
LEMMA TotalFalls ==
  ASSUME NEW f, NEW S, NEW g, NEW T, S \subseteq T, Counted(f, S), Counted(g, T),
         \A o \in S : f[o].remaining <= g[o].remaining
  PROVE  /\ Total(f, S) <= Total(g, T)
         /\ \A x \in T : g[x].remaining > 0 /\ (x \in S => f[x].remaining < g[x].remaining)
                        => Total(f, S) < Total(g, T)
<1> DEFINE F == [o \in S |-> f[o].remaining]
           G == [o \in T |-> g[o].remaining]
<1>1. /\ DOMAIN F = S /\ DOMAIN G = T
      /\ \A o \in S : F[o] \in Nat /\ F[o] = f[o].remaining
      /\ \A o \in T : G[o] \in Nat /\ G[o] = g[o].remaining
      /\ IsFiniteSet(S) /\ IsFiniteSet(T)
  BY DEF Counted
<1>2. Total(f, S) = Units(F) /\ Total(g, T) = Units(G)
  BY DEF Total
<1> HIDE DEF F, G
<1>3. /\ IsFiniteSet(Lots(F)) /\ Units(F) \in Nat /\ IsFiniteSet(Lots(G)) /\ Units(G) \in Nat
      /\ Units(F) = Cardinality(Lots(F)) /\ Units(G) = Cardinality(Lots(G))
  BY <1>1, UnitsType DEF Units, Lots
<1>4. /\ \A e : e \in Lots(F) <=> \E o \in S : e \in {o} \X (1..F[o])
      /\ \A e : e \in Lots(G) <=> \E o \in T : e \in {o} \X (1..G[o])
  BY <1>1 DEF Lots
<1>5. Lots(F) \in SUBSET Lots(G)
  <2> SUFFICES ASSUME NEW e \in Lots(F) PROVE e \in Lots(G)
    OBVIOUS
  <2>1. PICK o \in S : e \in {o} \X (1..F[o])
    BY <1>4
  <2>2. F[o] \in Nat /\ G[o] \in Nat /\ F[o] <= G[o] /\ o \in T
    BY <1>1
  <2>3. e \in {o} \X (1..G[o])
    BY <2>1, <2>2
  <2> QED BY <1>4, <2>2, <2>3
<1>6. Units(F) <= Units(G)
  BY <1>3, <1>5, FS_Subset
<1>7. ASSUME NEW x \in T, g[x].remaining > 0, x \in S => f[x].remaining < g[x].remaining
      PROVE  Units(F) < Units(G)
  <2>1. <<x, G[x]>> \in Lots(G)
    <3>1. <<x, G[x]>> \in {x} \X (1..G[x])
      BY <1>1, <1>7
    <3> QED BY <1>4, <3>1
  <2>2. <<x, G[x]>> \notin Lots(F)
    <3> SUFFICES ASSUME <<x, G[x]>> \in Lots(F) PROVE FALSE
      OBVIOUS
    <3>1. PICK o \in S : <<x, G[x]>> \in {o} \X (1..F[o])
      BY <1>4
    <3>2. o = x /\ G[x] \in 1..F[o]
      BY <3>1
    <3> QED BY <1>1, <1>7, <3>2
  <2>3. Lots(F) # Lots(G)
    BY <2>1, <2>2
  <2>4. Cardinality(Lots(F)) # Cardinality(Lots(G))
    BY <1>3, <1>5, <2>3, FS_Subset
  <2> QED BY <1>3, <1>6, <2>4
<1> QED BY <1>2, <1>6, <1>7

\* Taking the i-th element out of a sequence.
LEMMA RemoveAtFacts ==
  ASSUME NEW X, NEW q \in Seq(X), NEW i \in DOMAIN q
  PROVE  /\ RemoveAt(q, i) \in Seq(X)
         /\ Len(RemoveAt(q, i)) = Len(q) - 1
         /\ \A k \in 1..(Len(q) - 1) : RemoveAt(q, i)[k] = IF k < i THEN q[k] ELSE q[k + 1]
<1>1. i \in 1..Len(q) /\ Len(q) \in Nat
  OBVIOUS
<1>2. SubSeq(q, 1, i - 1) \in Seq(X) /\ Len(SubSeq(q, 1, i - 1)) = i - 1
  BY <1>1
<1>3. SubSeq(q, i + 1, Len(q)) \in Seq(X) /\ Len(SubSeq(q, i + 1, Len(q))) = Len(q) - i
  BY <1>1
<1>4. \A k \in 1..(i - 1) : SubSeq(q, 1, i - 1)[k] = q[k]
  BY <1>1
<1>5. \A k \in 1..(Len(q) - i) : SubSeq(q, i + 1, Len(q))[k] = q[i + k]
  BY <1>1
<1> DEFINE s == SubSeq(q, 1, i - 1)
           t == SubSeq(q, i + 1, Len(q))
<1>6. RemoveAt(q, i) = s \o t
  BY DEF RemoveAt
<1> HIDE DEF s, t
<1>7. s \in Seq(X) /\ t \in Seq(X) /\ Len(s) = i - 1 /\ Len(t) = Len(q) - i
  BY <1>2, <1>3 DEF s, t
<1>8. s \o t \in Seq(X) /\ Len(s \o t) = Len(q) - 1
  BY <1>1, <1>7
<1>9. ASSUME NEW k \in 1..(Len(q) - 1)
      PROVE  (s \o t)[k] = IF k < i THEN q[k] ELSE q[k + 1]
  <2>1. CASE k < i
    <3>1. (s \o t)[k] = s[k]
      BY <1>1, <1>7, <2>1
    <3>2. s[k] = q[k]
      BY <1>1, <1>4, <2>1 DEF s
    <3> QED BY <2>1, <3>1, <3>2
  <2>2. CASE ~(k < i)
    <3>1. (s \o t)[k] = t[k - (i - 1)]
      BY <1>1, <1>7, <2>2
    <3>2. k - (i - 1) \in 1..(Len(q) - i) /\ i + (k - (i - 1)) = k + 1
      BY <1>1, <2>2
    <3>3. t[k - (i - 1)] = q[k + 1]
      BY <1>5, <3>2 DEF t
    <3> QED BY <2>2, <3>1, <3>3
  <2> QED BY <2>1, <2>2
<1> QED BY <1>6, <1>8, <1>9

LEMMA LevelAgrees ==
  ASSUME NEW level \in Level, NEW f, NEW g, NEW mine, LevelOK(level, f, mine),
         \A o \in mine : f[o] = g[o]
  PROVE  LevelOK(level, g, mine)
<1>1. Total(f, mine) = Total(g, mine)
  BY TotalAgrees
<1>2. \A i \in DOMAIN level.queue : level.queue[i] \in mine
  BY DEF LevelOK, ToSet
<1> QED BY <1>1, <1>2 DEF LevelOK

LEMMA LevelWithout ==
  ASSUME NEW level \in Level, NEW nodes, NEW mine, LevelOK(level, nodes, mine),
         Counted(nodes, mine), NEW o \in mine, NEW new,
         new = [queue |-> RemoveAt(level.queue, CHOOSE i \in DOMAIN level.queue : level.queue[i] = o),
                total |-> level.total - nodes[o].remaining, count |-> level.count - 1,
                occupied |-> level.count > 1]
  PROVE  new \in Level /\ LevelOK(new, nodes, mine \ {o})
<1> DEFINE q == level.queue
           i == CHOOSE i \in DOMAIN q : q[i] = o
           n == Cardinality(mine)
<1>1. q \in Seq(Orders) /\ level.total \in Nat /\ level.count \in Nat
  BY DEF Level
<1>2. /\ \A x : x \in mine <=> \E k \in DOMAIN q : q[k] = x
      /\ Len(q) = n
      /\ \A j, k \in DOMAIN q : j < k => nodes[q[j]].priority < nodes[q[k]].priority
      /\ level.total = Total(nodes, mine)
      /\ level.count = n
  BY DEF LevelOK, ToSet
<1>3. IsFiniteSet(mine) /\ n \in Nat
  BY FS_CardinalityType DEF Counted
<1>4. i \in DOMAIN q /\ q[i] = o
  BY <1>2
<1> HIDE DEF i, n
<1> DEFINE r == RemoveAt(q, i)
<1>5. /\ r \in Seq(Orders) /\ Len(r) = Len(q) - 1
      /\ \A k \in 1..(Len(q) - 1) : r[k] = IF k < i THEN q[k] ELSE q[k + 1]
  BY <1>1, <1>4, RemoveAtFacts
<1> HIDE DEF r
<1>6. new.queue = r /\ new.total = level.total - nodes[o].remaining /\ new.count = level.count - 1
      /\ new.occupied = (level.count > 1)
  BY DEF r, i
<1>7. /\ IsFiniteSet(mine \ {o}) /\ Cardinality(mine \ {o}) = n - 1
      /\ Cardinality(mine \ {o}) \in Nat
  BY <1>3, FS_RemoveElement, FS_CardinalityType DEF n
<1>8. /\ Total(nodes, mine \ {o}) = Total(nodes, mine) - nodes[o].remaining
      /\ Total(nodes, mine \ {o}) \in Nat
  BY TotalWithout
<1>9. \A j, k \in DOMAIN q : j # k => q[j] # q[k]
  <2> SUFFICES ASSUME NEW j \in DOMAIN q, NEW k \in DOMAIN q, j < k PROVE q[j] # q[k]
    BY <1>1
  <2>1. nodes[q[j]].priority < nodes[q[k]].priority
    BY <1>2
  <2>2. nodes[q[j]].priority \in Nat
    BY <1>2 DEF Counted
  <2> QED BY <2>1, <2>2
<1> DEFINE from(k) == IF k < i THEN k ELSE k + 1
<1>10. /\ \A k \in DOMAIN r : from(k) \in DOMAIN q /\ from(k) # i /\ r[k] = q[from(k)]
       /\ \A j, k \in DOMAIN r : j < k => from(j) < from(k)
  <2>1. DOMAIN r = 1..(Len(q) - 1) /\ DOMAIN q = 1..Len(q) /\ Len(q) \in Nat
    BY <1>1, <1>5
  <2> HIDE DEF q
  <2> QED BY <1>4, <1>5, <2>1
<1>11. \A m \in DOMAIN q : m # i => \E k \in DOMAIN r : from(k) = m
  <2> TAKE m \in DOMAIN q
  <2> HAVE m # i
  <2>1. CASE m < i
    <3>1. m \in DOMAIN r /\ from(m) = m
      BY <1>1, <1>4, <1>5, <2>1
    <3> QED BY <3>1
  <2>2. CASE m > i
    <3>1. m - 1 \in DOMAIN r /\ from(m - 1) = m
      BY <1>1, <1>4, <1>5, <2>2
    <3> QED BY <3>1
  <2> QED BY <1>1, <1>4, <2>1, <2>2
<1> HIDE DEF from, q
<1>12. ToSet(r) = mine \ {o}
  <2>1. ASSUME NEW x \in ToSet(r) PROVE x \in mine \ {o}
    <3>1. PICK k \in DOMAIN r : r[k] = x
      BY DEF ToSet
    <3> QED BY <1>2, <1>4, <1>9, <1>10, <3>1
  <2>2. ASSUME NEW x \in mine \ {o} PROVE x \in ToSet(r)
    <3>1. PICK m \in DOMAIN q : q[m] = x
      BY <1>2
    <3>2. m # i
      BY <1>4, <3>1
    <3>3. PICK k \in DOMAIN r : from(k) = m
      BY <1>11, <3>2
    <3> QED BY <1>10, <3>1, <3>3 DEF ToSet
  <2> QED BY <2>1, <2>2
<1>13. \A j, k \in DOMAIN r : j < k => nodes[r[j]].priority < nodes[r[k]].priority
  BY <1>2, <1>10
<1>14. new.occupied <=> mine \ {o} # {}
  <2>1. mine \ {o} = {} <=> Cardinality(mine \ {o}) = 0
    BY <1>7, FS_EmptySet
  <2>2. (n > 1) <=> Cardinality(mine \ {o}) # 0
    BY <1>3, <1>7
  <2>3. new.occupied = (n > 1)
    BY <1>2, <1>6
  <2> QED BY <2>1, <2>2, <2>3, Zenon
<1>15. LevelOK(new, nodes, mine \ {o})
  <2>1. ToSet(new.queue) = (mine \ {o}) /\ Len(new.queue) = Cardinality((mine \ {o}))
    BY <1>2, <1>5, <1>6, <1>7, <1>12
  <2>2. \A j, k \in DOMAIN new.queue : j < k => nodes[new.queue[j]].priority < nodes[new.queue[k]].priority
    BY <1>6, <1>13
  <2>3. new.total = Total(nodes, (mine \ {o})) /\ new.count = Cardinality((mine \ {o}))
    BY <1>2, <1>6, <1>7, <1>8
  <2> QED BY <1>14, <2>1, <2>2, <2>3, Zenon DEF LevelOK
<1>16. new \in Level
  <2>1. level.total - nodes[o].remaining \in Nat /\ level.count - 1 \in Nat
    BY <1>2, <1>7, <1>8
  <2>2. (level.count > 1) \in BOOLEAN
    OBVIOUS
  <2> QED BY <1>5, <2>1, <2>2 DEF Level, r, i, q
<1> QED BY <1>15, <1>16

LEMMA LevelWith ==
  ASSUME NEW level \in Level, NEW nodes, NEW mine, LevelOK(level, nodes, mine),
         NEW o \in Orders, o \notin mine, Counted(nodes, mine \cup {o}),
         \A x \in mine : nodes[x].priority < nodes[o].priority,
         NEW new,
         new = [queue |-> Append(level.queue, o), total |-> level.total + nodes[o].remaining,
                count |-> level.count + 1, occupied |-> TRUE]
  PROVE  new \in Level /\ LevelOK(new, nodes, mine \cup {o})
<1> DEFINE q == level.queue
           r == Append(q, o)
           n == Cardinality(mine)
<1>1. q \in Seq(Orders) /\ level.total \in Nat /\ level.count \in Nat
  BY DEF Level
<1>2. /\ \A x : x \in mine <=> \E k \in DOMAIN q : q[k] = x
      /\ Len(q) = n
      /\ \A j, k \in DOMAIN q : j < k => nodes[q[j]].priority < nodes[q[k]].priority
      /\ level.total = Total(nodes, mine)
      /\ level.count = n
  BY DEF LevelOK, ToSet
<1>3. IsFiniteSet(mine) /\ n \in Nat
  <2>1. mine \in SUBSET (mine \cup {o})
    OBVIOUS
  <2>2. IsFiniteSet(mine \cup {o})
    BY DEF Counted
  <2>3. IsFiniteSet(mine)
    BY <2>1, <2>2, FS_Subset
  <2> QED BY <2>3, FS_CardinalityType
<1> HIDE DEF n
<1>4. /\ r \in Seq(Orders) /\ Len(r) = Len(q) + 1 /\ r[Len(q) + 1] = o
      /\ \A k \in 1..Len(q) : r[k] = q[k]
  BY <1>1
<1>5. DOMAIN q = 1..Len(q) /\ DOMAIN r = 1..(Len(q) + 1) /\ Len(q) \in Nat
  BY <1>1, <1>4
<1>6. new.queue = r /\ new.total = level.total + nodes[o].remaining /\ new.count = level.count + 1
      /\ new.occupied = TRUE
  OBVIOUS
<1>7. Cardinality(mine \cup {o}) = n + 1
  BY <1>3, FS_AddElement DEF n
<1>8. Total(nodes, mine \cup {o}) = Total(nodes, mine) + nodes[o].remaining
  BY TotalWith
<1> HIDE DEF q, r
<1>9. ToSet(r) = mine \cup {o}
  <2>1. ASSUME NEW x \in ToSet(r) PROVE x \in mine \cup {o}
    <3>1. PICK k \in DOMAIN r : r[k] = x
      BY DEF ToSet
    <3>2. CASE k = Len(q) + 1
      BY <1>4, <3>1, <3>2
    <3>3. CASE k # Len(q) + 1
      <4>1. k \in 1..Len(q)
        BY <1>5, <3>3
      <4> QED BY <1>2, <1>4, <1>5, <3>1, <4>1
    <3> QED BY <3>2, <3>3
  <2>2. ASSUME NEW x \in mine \cup {o} PROVE x \in ToSet(r)
    <3>1. CASE x = o
      BY <1>4, <1>5, <3>1 DEF ToSet
    <3>2. CASE x \in mine
      <4>1. PICK k \in DOMAIN q : q[k] = x
        BY <1>2, <3>2
      <4>2. k \in DOMAIN r /\ r[k] = x
        BY <1>4, <1>5, <4>1
      <4> QED BY <4>2 DEF ToSet
    <3> QED BY <3>1, <3>2
  <2> QED BY <2>1, <2>2
<1>10. ASSUME NEW j \in DOMAIN r, NEW k \in DOMAIN r, j < k
       PROVE  nodes[r[j]].priority < nodes[r[k]].priority
  <2>1. j \in DOMAIN q /\ r[j] = q[j] /\ q[j] \in mine
    BY <1>2, <1>4, <1>5, <1>10
  <2>2. CASE k = Len(q) + 1
    BY <1>4, <2>1, <2>2
  <2>3. CASE k # Len(q) + 1
    BY <1>2, <1>4, <1>5, <1>10, <2>1, <2>3
  <2> QED BY <2>2, <2>3
<1>11. LevelOK(new, nodes, mine \cup {o})
  <2>1. ToSet(new.queue) = (mine \cup {o}) /\ Len(new.queue) = Cardinality((mine \cup {o}))
    BY <1>2, <1>4, <1>6, <1>7, <1>9
  <2>2. \A j, k \in DOMAIN new.queue : j < k => nodes[new.queue[j]].priority < nodes[new.queue[k]].priority
    BY <1>6, <1>10
  <2>3. new.total = Total(nodes, (mine \cup {o})) /\ new.count = Cardinality((mine \cup {o}))
    BY <1>2, <1>6, <1>7, <1>8
  <2>4. mine \cup {o} # {} /\ new.occupied
    BY <1>6
  <2> QED BY <2>1, <2>2, <2>3, <2>4, Zenon DEF LevelOK
<1>12. new \in Level
  <2>1. nodes[o].remaining \in Nat
    BY DEF Counted
  <2>2. level.total + nodes[o].remaining \in Nat /\ level.count + 1 \in Nat
    BY <1>1, <2>1
  <2>3. TRUE \in BOOLEAN
    OBVIOUS
  <2> QED BY <1>4, <2>2, <2>3 DEF Level, r, q
<1> QED BY <1>11, <1>12

\* A level, and an order, with q less.
LevelLess(level, q) == [level EXCEPT !.total = level.total - q]

OrderLess(node, q) == [node EXCEPT !.remaining = node.remaining - q]

LEMMA LevelReduced ==
  ASSUME NEW level \in Level, NEW f, NEW g, NEW mine, LevelOK(level, f, mine),
         NEW o \in mine, Counted(f, mine), Counted(g, mine), NEW quantity \in Nat,
         \A x \in mine : x # o => g[x] = f[x],
         g[o].remaining = f[o].remaining - quantity, g[o].priority = f[o].priority,
         NEW new, new = LevelLess(level, quantity)
  PROVE  new \in Level /\ LevelOK(new, g, mine)
<1>1. /\ level.queue \in Seq(Orders) /\ level.total \in Nat /\ level.count \in Nat
      /\ level.occupied \in BOOLEAN
      /\ new = [queue |-> level.queue, total |-> level.total - quantity, count |-> level.count,
                occupied |-> level.occupied]
  BY DEF Level, LevelLess
<1>2. new.queue = level.queue /\ new.total = level.total - quantity /\ new.count = level.count
      /\ new.occupied = level.occupied
  BY <1>1
<1>3. Total(f, mine \ {o}) = Total(f, mine) - f[o].remaining
      /\ Total(f, mine \ {o}) \in Nat
  BY TotalWithout
<1>4. Total(g, mine \ {o}) = Total(g, mine) - g[o].remaining
      /\ Total(g, mine) \in Nat
  BY TotalWithout, TotalType
<1>5. Total(f, mine \ {o}) = Total(g, mine \ {o})
  <2>1. \A x \in mine \ {o} : f[x].remaining = g[x].remaining
    OBVIOUS
  <2> QED BY <2>1, TotalAgrees
<1>6. level.total = Total(f, mine)
  BY DEF LevelOK
<1>7. f[o].remaining \in Nat
  BY DEF Counted
<1>8. Total(g, mine) = level.total - quantity
  BY SMTT(30), <1>1, <1>3, <1>4, <1>5, <1>6, <1>7
<1>9. \A i \in DOMAIN level.queue : level.queue[i] \in mine
  BY DEF LevelOK, ToSet
<1>10. \A x \in mine : g[x].priority = f[x].priority
  OBVIOUS
<1>11. LevelOK(new, g, mine)
  <2>1. \A i, j \in DOMAIN level.queue :
          i < j => g[level.queue[i]].priority < g[level.queue[j]].priority
    BY <1>9, <1>10 DEF LevelOK
  <2>2. /\ ToSet(level.queue) = mine /\ Len(level.queue) = Cardinality(mine)
        /\ level.count = Cardinality(mine)
    BY DEF LevelOK
  <2>3. new.occupied <=> mine # {}
    <3>1. level.occupied <=> mine # {}
      BY DEF LevelOK
    <3> QED BY <1>2, <3>1, Zenon
  <2> QED BY <1>2, <1>8, <2>1, <2>2, <2>3 DEF LevelOK
<1>12. new \in Level
  <2>1. level.total - quantity \in Nat
    BY <1>4, <1>8
  <2> QED BY <1>1, <2>1 DEF Level
<1> QED BY <1>11, <1>12

-----------------------------------------------------------------------------
(* 3. Books. *)

\* An order table: finitely many well-formed nodes, no two of one priority.
Nodes(nodes) ==
  /\ IsFiniteSet(DOMAIN nodes) /\ DOMAIN nodes \subseteq Orders
  /\ nodes \in [DOMAIN nodes -> OrderNode]
  /\ \A o \in DOMAIN nodes : nodes[o].remaining <= nodes[o].quantity
  /\ \A a, b \in DOMAIN nodes : nodes[a].priority = nodes[b].priority => a = b

\* A book that validate_invariants accepts.
Sound(book) ==
  /\ book = [live |-> book.live, levels |-> book.levels]
  /\ Nodes(book.live)
  /\ book.levels \in [Sides -> [Prices -> Level]]
  /\ \A s \in Sides, p \in Prices : LevelOK(book.levels[s][p], book.live, Mine(book.live, s, p))

LEMMA NodeFields ==
  ASSUME NEW nodes, Nodes(nodes), NEW o \in DOMAIN nodes
  PROVE  /\ nodes[o] \in OrderNode /\ nodes[o].side \in Sides /\ nodes[o].price \in Prices
         /\ nodes[o].trader \in Traders /\ nodes[o].quantity \in Quantities
         /\ nodes[o].remaining \in Nat /\ nodes[o].remaining > 0 /\ nodes[o].priority \in Nat
         /\ nodes[o].remaining <= nodes[o].quantity
<1>1. nodes[o] \in OrderNode
  BY DEF Nodes
<1>2. nodes[o].remaining <= nodes[o].quantity
  BY DEF Nodes
<1> QED BY <1>1, <1>2 DEF OrderNode

LEMMA MineCounted ==
  ASSUME NEW nodes, Nodes(nodes), NEW S \in SUBSET DOMAIN nodes
  PROVE  Counted(nodes, S)
<1>1. IsFiniteSet(S)
  BY FS_Subset DEF Nodes
<1>2. \A o \in S : nodes[o].remaining \in Nat /\ nodes[o].priority \in Nat
  BY NodeFields
<1> QED BY <1>1, <1>2 DEF Counted

\* Replacing one level of a ladder.
LEMMA OneLevel ==
  ASSUME NEW ladder \in [Sides -> [Prices -> Level]], NEW s \in Sides, NEW p \in Prices, NEW level,
         NEW after, after = [ladder EXCEPT ![s][p] = level]
  PROVE  /\ after[s][p] = level
         /\ \A t \in Sides, q \in Prices : ~(t = s /\ q = p) => after[t][q] = ladder[t][q]
         /\ level \in Level => after \in [Sides -> [Prices -> Level]]
<1>1. DOMAIN ladder = Sides /\ \A t \in Sides : DOMAIN ladder[t] = Prices
  OBVIOUS
<1>2. after[s][p] = level
  BY <1>1
<1>3. \A t \in Sides, q \in Prices : ~(t = s /\ q = p) => after[t][q] = ladder[t][q]
  BY <1>1
<1>4. level \in Level => after \in [Sides -> [Prices -> Level]]
  OBVIOUS
<1> QED BY <1>2, <1>3, <1>4

WithLevel(ladder, s, p, level) == [ladder EXCEPT ![s][p] = level]

LEMMA OneTotal ==
  ASSUME NEW ladder, NEW s, NEW p, NEW q
  PROVE  [ladder EXCEPT ![s][p].total = @ - q] = WithLevel(ladder, s, p, LevelLess(ladder[s][p], q))
BY DEF WithLevel, LevelLess

LEMMA TwiceOneLevel ==
  ASSUME NEW ladder \in [Sides -> [Prices -> Level]], NEW s \in Sides, NEW p \in Prices, NEW u, NEW v
  PROVE  WithLevel(WithLevel(ladder, s, p, u), s, p, v) = WithLevel(ladder, s, p, v)
BY DEF WithLevel

WithOrder(nodes, o, node) == [nodes EXCEPT ![o] = node]

LEMMA OneRemaining ==
  ASSUME NEW nodes, NEW o, NEW q
  PROVE  [nodes EXCEPT ![o].remaining = @ - q] = WithOrder(nodes, o, OrderLess(nodes[o], q))
BY DEF WithOrder, OrderLess

LEMMA OneOrder ==
  ASSUME NEW nodes, nodes = [x \in DOMAIN nodes |-> nodes[x]], NEW o \in DOMAIN nodes, NEW node,
         NEW after, after = WithOrder(nodes, o, node)
  PROVE  /\ DOMAIN after = DOMAIN nodes /\ after = [x \in DOMAIN nodes |-> after[x]]
         /\ \A x \in DOMAIN nodes : x # o => after[x] = nodes[x]
         /\ after[o] = node
BY DEF WithOrder

LEMMA OrderLessFields ==
  ASSUME NEW node \in OrderNode, NEW q
  PROVE  /\ OrderLess(node, q).remaining = node.remaining - q
         /\ OrderLess(node, q).trader = node.trader /\ OrderLess(node, q).side = node.side
         /\ OrderLess(node, q).price = node.price /\ OrderLess(node, q).quantity = node.quantity
         /\ OrderLess(node, q).priority = node.priority
         /\ node.remaining - q \in Nat \ {0} => OrderLess(node, q) \in OrderNode
BY DEF OrderLess, OrderNode

LEMMA LevelLessFields ==
  ASSUME NEW level \in Level, NEW q
  PROVE  /\ LevelLess(level, q).queue = level.queue /\ LevelLess(level, q).total = level.total - q
         /\ LevelLess(level, q).count = level.count /\ LevelLess(level, q).occupied = level.occupied
BY DEF LevelLess, Level

\* Linking adds to the total of one level.
LinkTotals(book, node, after) ==
  \A s \in Sides, p \in Prices :
    after.levels[s][p].total = IF s = node.side /\ p = node.price
                               THEN book.levels[s][p].total + node.remaining ELSE book.levels[s][p].total

LEMMA Linking ==
  ASSUME NEW book, Sound(book), NEW o \in Orders, o \notin DOMAIN book.live,
         NEW node \in OrderNode, node.remaining <= node.quantity,
         \A x \in DOMAIN book.live : book.live[x].priority < node.priority
  PROVE  /\ Sound(Link(book, o, node))
         /\ Link(book, o, node).live
              = [x \in DOMAIN book.live \cup {o} |-> IF x = o THEN node ELSE book.live[x]]
         /\ LinkTotals(book, node, Link(book, o, node))
<1> DEFINE nodes == book.live
           after == Link(book, o, node)
           s0 == node.side
           p0 == node.price
           old == book.levels[s0][p0]
           new == [queue |-> Append(old.queue, o), total |-> old.total + node.remaining,
                   count |-> old.count + 1, occupied |-> TRUE]
<1>1. /\ after.live = [x \in DOMAIN nodes \cup {o} |-> IF x = o THEN node ELSE nodes[x]]
      /\ after = [live |-> after.live, levels |-> after.levels]
  BY DEF Link
<1>2. s0 \in Sides /\ p0 \in Prices /\ node.remaining \in Nat /\ node.priority \in Nat
  BY DEF OrderNode
<1>3. book.levels \in [Sides -> [Prices -> Level]]
  BY DEF Sound
<1>4. after.levels = [book.levels EXCEPT ![s0][p0] = new]
  BY DEF Link
<1>5. Nodes(nodes)
  BY DEF Sound
<1>6. /\ DOMAIN after.live = DOMAIN nodes \cup {o} /\ after.live[o] = node
      /\ \A x \in DOMAIN nodes : after.live[x] = nodes[x]
  BY <1>1
<1> HIDE DEF after
<1>7. Nodes(after.live)
  <2>1. IsFiniteSet(DOMAIN nodes \cup {o})
    BY <1>5, FS_AddElement DEF Nodes
  <2>2. \A x \in DOMAIN after.live : after.live[x] \in OrderNode
    BY <1>5, <1>6 DEF Nodes
  <2>3. after.live \in [DOMAIN after.live -> OrderNode]
    BY <1>1, <2>2
  <2>4. \A x \in DOMAIN after.live : after.live[x].remaining <= after.live[x].quantity
    BY <1>5, <1>6 DEF Nodes
  <2>5. \A a, b \in DOMAIN after.live : after.live[a].priority = after.live[b].priority => a = b
    <3>1. \A x \in DOMAIN nodes : nodes[x].priority # node.priority
      <4> TAKE x \in DOMAIN nodes
      <4>1. nodes[x].priority < node.priority /\ nodes[x].priority \in Nat
        BY <1>5, NodeFields
      <4> QED BY <1>2, <4>1
    <3> QED BY <1>5, <1>6, <3>1 DEF Nodes
  <2>6. DOMAIN after.live \subseteq Orders
    BY <1>5, <1>6 DEF Nodes
  <2> QED BY <1>6, <2>1, <2>3, <2>4, <2>5, <2>6 DEF Nodes
<1>8. ASSUME NEW s \in Sides, NEW p \in Prices
      PROVE  after.levels[s][p] \in Level /\ LevelOK(after.levels[s][p], after.live, Mine(after.live, s, p))
  <2> DEFINE mine == Mine(nodes, s, p)
  <2>1. LevelOK(book.levels[s][p], nodes, mine) /\ book.levels[s][p] \in Level
    BY <1>3 DEF Sound
  <2>2. mine \subseteq DOMAIN nodes /\ o \notin mine
    BY DEF Mine
  <2>3. \A x \in mine : nodes[x] = after.live[x]
    BY <1>6, <2>2
  <2>4. LevelOK(book.levels[s][p], after.live, mine)
    <3> HIDE DEF mine
    <3> QED BY <2>1, <2>3, LevelAgrees
  <2>5. CASE s = s0 /\ p = p0
    <3>1. Mine(after.live, s, p) = mine \cup {o}
      BY <1>6, <2>5 DEF Mine
    <3>2. Counted(after.live, mine \cup {o})
      <4>1. mine \cup {o} \in SUBSET DOMAIN after.live
        BY <1>6, <2>2
      <4> HIDE DEF mine
      <4> QED BY <1>7, <4>1, MineCounted
    <3>3. \A x \in mine : after.live[x].priority < after.live[o].priority
      BY <1>6, <2>2
    <3>4. after.levels[s][p] = new
      <4> HIDE DEF new
      <4> QED BY <1>2, <1>3, <1>4, <2>5, OneLevel
    <3>5. new = [queue |-> Append(old.queue, o), total |-> old.total + after.live[o].remaining,
                 count |-> old.count + 1, occupied |-> TRUE]
      BY <1>6
    <3>6. old = book.levels[s][p]
      BY <2>5
    <3> HIDE DEF mine, new, old
    <3>7. new \in Level /\ LevelOK(new, after.live, mine \cup {o})
      BY <2>1, <2>2, <2>4, <3>2, <3>3, <3>5, <3>6, LevelWith
    <3> QED BY <3>1, <3>4, <3>7
  <2>6. CASE ~(s = s0 /\ p = p0)
    <3>1. Mine(after.live, s, p) = mine
      BY <1>6, <2>6 DEF Mine
    <3>2. after.levels[s][p] = book.levels[s][p]
      <4> HIDE DEF new
      <4> QED BY <1>2, <1>3, <1>4, <2>6, OneLevel
    <3> QED BY <2>1, <2>4, <3>1, <3>2
  <2> QED BY <2>5, <2>6
<1>9. after.levels \in [Sides -> [Prices -> Level]]
  <2> HIDE DEF new
  <2>1. after.levels[s0][p0] = new /\ after.levels[s0][p0] \in Level
    BY <1>2, <1>3, <1>4, <1>8, OneLevel
  <2> QED BY <1>2, <1>3, <1>4, <2>1, OneLevel
<1>10. Sound(after)
  BY <1>1, <1>7, <1>8, <1>9 DEF Sound
<1>11. new.total = old.total + node.remaining
  OBVIOUS
<1>12. \A s \in Sides, p \in Prices :
         after.levels[s][p].total = IF s = s0 /\ p = p0
                                    THEN book.levels[s][p].total + node.remaining
                                    ELSE book.levels[s][p].total
  <2> HIDE DEF new
  <2>1. /\ after.levels[s0][p0] = new
        /\ \A s \in Sides, p \in Prices : ~(s = s0 /\ p = p0) => after.levels[s][p] = book.levels[s][p]
    BY <1>2, <1>3, <1>4, OneLevel
  <2> QED BY <1>11, <2>1
<1> QED BY <1>1, <1>10, <1>12 DEF after, LinkTotals

LEMMA Unlinking ==
  ASSUME NEW book, Sound(book), NEW o \in DOMAIN book.live
  PROVE  /\ Sound(Unlink(book, o))
         /\ Unlink(book, o).live = [x \in DOMAIN book.live \ {o} |-> book.live[x]]
<1> DEFINE nodes == book.live
           after == Unlink(book, o)
           s0 == nodes[o].side
           p0 == nodes[o].price
           old == book.levels[s0][p0]
           new == [queue |-> RemoveAt(old.queue, CHOOSE i \in DOMAIN old.queue : old.queue[i] = o),
                   total |-> old.total - nodes[o].remaining, count |-> old.count - 1,
                   occupied |-> old.count > 1]
<1>1. /\ after.live = [x \in DOMAIN nodes \ {o} |-> nodes[x]]
      /\ after = [live |-> after.live, levels |-> after.levels]
  BY DEF Unlink
<1>2. Nodes(nodes)
  BY DEF Sound
<1>3. s0 \in Sides /\ p0 \in Prices
  BY <1>2, NodeFields
<1>4. book.levels \in [Sides -> [Prices -> Level]]
  BY DEF Sound
<1>5. after.levels = [book.levels EXCEPT ![s0][p0] = new]
  BY DEF Unlink
<1>6. /\ DOMAIN after.live = DOMAIN nodes \ {o}
      /\ \A x \in DOMAIN after.live : after.live[x] = nodes[x]
  BY <1>1
<1> HIDE DEF after
<1>7. Nodes(after.live)
  <2>1. IsFiniteSet(DOMAIN nodes \ {o})
    BY <1>2, FS_RemoveElement DEF Nodes
  <2>2. after.live \in [DOMAIN after.live -> OrderNode]
    BY <1>1, <1>2 DEF Nodes
  <2>3. \A x \in DOMAIN after.live : after.live[x].remaining <= after.live[x].quantity
    BY <1>2, <1>6 DEF Nodes
  <2>4. \A a, b \in DOMAIN after.live : after.live[a].priority = after.live[b].priority => a = b
    BY <1>2, <1>6 DEF Nodes
  <2>5. DOMAIN after.live \subseteq Orders
    BY <1>2, <1>6 DEF Nodes
  <2> QED BY <1>6, <2>1, <2>2, <2>3, <2>4, <2>5 DEF Nodes
<1>8. ASSUME NEW s \in Sides, NEW p \in Prices
      PROVE  after.levels[s][p] \in Level /\ LevelOK(after.levels[s][p], after.live, Mine(after.live, s, p))
  <2> DEFINE mine == Mine(nodes, s, p)
  <2>1. LevelOK(book.levels[s][p], nodes, mine) /\ book.levels[s][p] \in Level
    BY <1>4 DEF Sound
  <2>2. mine \subseteq DOMAIN nodes
    BY DEF Mine
  <2>3. CASE s = s0 /\ p = p0
    <3>1. Mine(after.live, s, p) = mine \ {o} /\ o \in mine
      BY <1>6, <2>3 DEF Mine
    <3>2. Counted(nodes, mine)
      <4> HIDE DEF mine
      <4> QED BY <1>2, <2>2, MineCounted
    <3>3. after.levels[s][p] = new
      <4> HIDE DEF new
      <4> QED BY <1>3, <1>4, <1>5, <2>3, OneLevel
    <3>4. old = book.levels[s][p]
      BY <2>3
    <3>5. new = [queue |-> RemoveAt(old.queue, CHOOSE i \in DOMAIN old.queue : old.queue[i] = o),
                 total |-> old.total - nodes[o].remaining, count |-> old.count - 1,
                 occupied |-> old.count > 1]
      OBVIOUS
    <3> HIDE DEF mine, new, old
    <3>6. new \in Level /\ LevelOK(new, nodes, mine \ {o})
      BY <2>1, <3>1, <3>2, <3>4, <3>5, LevelWithout
    <3>7. \A x \in mine \ {o} : nodes[x] = after.live[x]
      BY <1>6, <2>2
    <3>8. LevelOK(new, after.live, mine \ {o})
      BY <3>6, <3>7, LevelAgrees
    <3> QED BY <3>1, <3>3, <3>6, <3>8
  <2>4. CASE ~(s = s0 /\ p = p0)
    <3>1. Mine(after.live, s, p) = mine
      BY <1>6, <2>4 DEF Mine
    <3>2. after.levels[s][p] = book.levels[s][p]
      <4> HIDE DEF new
      <4> QED BY <1>3, <1>4, <1>5, <2>4, OneLevel
    <3>3. \A x \in mine : nodes[x] = after.live[x]
      BY <1>6, <3>1 DEF Mine
    <3>4. LevelOK(book.levels[s][p], after.live, mine)
      <4> HIDE DEF mine
      <4> QED BY <2>1, <3>3, LevelAgrees
    <3> QED BY <2>1, <3>1, <3>2, <3>4
  <2> QED BY <2>3, <2>4
<1>9. after.levels \in [Sides -> [Prices -> Level]]
  <2> HIDE DEF new
  <2>1. after.levels[s0][p0] = new /\ after.levels[s0][p0] \in Level
    BY <1>3, <1>4, <1>5, <1>8, OneLevel
  <2> QED BY <1>3, <1>4, <1>5, <2>1, OneLevel
<1>10. Sound(after)
  BY <1>1, <1>7, <1>8, <1>9 DEF Sound
<1> QED BY <1>1, <1>10 DEF after

\* The book after an order has lost q and its level with it.
Reduced(book, o, q) ==
  LET node == book.live[o]
      level == book.levels[node.side][node.price]
  IN [live |-> WithOrder(book.live, o, OrderLess(node, q)),
      levels |-> WithLevel(book.levels, node.side, node.price, LevelLess(level, q))]

LEMMA ApplyMatchReduces ==
  ASSUME NEW book, NEW match
  PROVE  ApplyMatch(book, match)
           = IF book.live[match.order].remaining = match.quantity
             THEN Unlink(Reduced(book, match.order, match.quantity), match.order)
             ELSE Reduced(book, match.order, match.quantity)
BY DEF ApplyMatch, Reduced, WithOrder, WithLevel, OrderLess, LevelLess

\* What "after" has in common with the book, and where it has q less.
SameOrders(book, o, q, after) ==
  /\ after = [live |-> after.live, levels |-> after.levels]
  /\ DOMAIN after.live = DOMAIN book.live
  /\ after.live = [x \in DOMAIN book.live |-> after.live[x]]
  /\ \A x \in DOMAIN book.live : x # o => after.live[x] = book.live[x]
  /\ after.live[o] = OrderLess(book.live[o], q)

SameLevels(book, s, p, q, after) ==
  /\ after.levels[s][p] = LevelLess(book.levels[s][p], q)
  /\ \A t \in Sides, x \in Prices : ~(t = s /\ x = p) => after.levels[t][x] = book.levels[t][x]
  /\ \A v : WithLevel(after.levels, s, p, v) = WithLevel(book.levels, s, p, v)
  /\ after.levels[s][p] \in Level => after.levels \in [Sides -> [Prices -> Level]]

LEMMA ReducedIsSame ==
  ASSUME NEW book, Nodes(book.live), book.levels \in [Sides -> [Prices -> Level]],
         NEW o \in DOMAIN book.live, NEW q
  PROVE  /\ SameOrders(book, o, q, Reduced(book, o, q))
         /\ SameLevels(book, book.live[o].side, book.live[o].price, q, Reduced(book, o, q))
<1> DEFINE after == Reduced(book, o, q)
           s == book.live[o].side
           p == book.live[o].price
<1>1. book.live = [x \in DOMAIN book.live |-> book.live[x]]
  BY DEF Nodes
<1>2. s \in Sides /\ p \in Prices
  BY NodeFields
<1>3. /\ after = [live |-> after.live, levels |-> after.levels]
      /\ after.live = WithOrder(book.live, o, OrderLess(book.live[o], q))
      /\ after.levels = WithLevel(book.levels, s, p, LevelLess(book.levels[s][p], q))
  BY DEF Reduced
<1> HIDE DEF after, s, p
<1>4. SameOrders(book, o, q, after)
  BY <1>1, <1>3, OneOrder DEF SameOrders
<1>5. SameLevels(book, s, p, q, after)
  <2>1. \A v : WithLevel(after.levels, s, p, v) = WithLevel(book.levels, s, p, v)
    BY <1>2, <1>3, TwiceOneLevel
  <2>2. \A cut : after.levels = WithLevel(book.levels, s, p, cut) =>
           /\ after.levels[s][p] = cut
           /\ \A t \in Sides, x \in Prices : ~(t = s /\ x = p) => after.levels[t][x] = book.levels[t][x]
           /\ cut \in Level => after.levels \in [Sides -> [Prices -> Level]]
    BY <1>2, OneLevel DEF WithLevel
  <2>3. /\ after.levels[s][p] = LevelLess(book.levels[s][p], q)
        /\ \A t \in Sides, x \in Prices : ~(t = s /\ x = p) => after.levels[t][x] = book.levels[t][x]
        /\ LevelLess(book.levels[s][p], q) \in Level => after.levels \in [Sides -> [Prices -> Level]]
    BY <1>3, <2>2
  <2> QED BY <2>1, <2>3 DEF SameLevels
<1> QED BY <1>4, <1>5 DEF after, s, p

\* Unlinking does not see what the order and its level have lost.
LEMMA UnlinkSame ==
  ASSUME NEW book, Sound(book), NEW o \in DOMAIN book.live, NEW after,
         SameOrders(book, o, book.live[o].remaining, after),
         SameLevels(book, book.live[o].side, book.live[o].price, book.live[o].remaining, after)
  PROVE  Unlink(after, o) = Unlink(book, o)
<1> DEFINE s == book.live[o].side
           p == book.live[o].price
           r == book.live[o].remaining
<1>1. Nodes(book.live) /\ book.levels \in [Sides -> [Prices -> Level]]
  BY DEF Sound
<1>2. r \in Nat /\ book.live[o] \in OrderNode /\ s \in Sides /\ p \in Prices
  BY <1>1, NodeFields
<1>3. SameOrders(book, o, r, after) /\ SameLevels(book, s, p, r, after)
  OBVIOUS
<1> HIDE DEF s, p, r
<1>4. book.levels[s][p] \in Level
  BY <1>1, <1>2
<1>5. /\ after.live[o].side = s /\ after.live[o].price = p /\ after.live[o].remaining = 0
      /\ DOMAIN after.live = DOMAIN book.live
      /\ \A x \in DOMAIN book.live \ {o} : after.live[x] = book.live[x]
  <2>1. after.live[o] = OrderLess(book.live[o], r) /\ DOMAIN after.live = DOMAIN book.live
        /\ \A x \in DOMAIN book.live \ {o} : after.live[x] = book.live[x]
    BY <1>3 DEF SameOrders
  <2>2. /\ OrderLess(book.live[o], r).side = book.live[o].side
        /\ OrderLess(book.live[o], r).price = book.live[o].price
        /\ OrderLess(book.live[o], r).remaining = book.live[o].remaining - r
    BY <1>2, OrderLessFields
  <2>3. r - r = 0
    BY <1>2
  <2> QED BY <2>1, <2>2, <2>3 DEF s, p, r
<1>6. /\ after.levels[s][p].queue = book.levels[s][p].queue
      /\ after.levels[s][p].total = book.levels[s][p].total - r
      /\ after.levels[s][p].count = book.levels[s][p].count
  <2>1. after.levels[s][p] = LevelLess(book.levels[s][p], r)
    BY <1>3, Zenon DEF SameLevels
  <2> DEFINE level == book.levels[s][p]
  <2>2. /\ LevelLess(level, r).queue = level.queue /\ LevelLess(level, r).total = level.total - r
        /\ LevelLess(level, r).count = level.count
    <3> HIDE DEF level
    <3>1. level \in Level
      BY <1>4 DEF level
    <3> QED BY <3>1, LevelLessFields
  <2> HIDE DEF level
  <2>3. after.levels[s][p] = LevelLess(level, r)
    BY <2>1 DEF level
  <2>4. level = book.levels[s][p]
    BY DEF level
  <2> QED BY <2>2, <2>3, <2>4
<1> DEFINE place(q) == CHOOSE i \in DOMAIN q : q[i] = o
           new(q, t, c) == [queue |-> RemoveAt(q, place(q)), total |-> t, count |-> c - 1,
                            occupied |-> c > 1]
           L == book.levels[s][p]
           M == after.levels[s][p]
<1>7. Unlink(book, o)
        = [live |-> [x \in DOMAIN book.live \ {o} |-> book.live[x]],
           levels |-> WithLevel(book.levels, s, p, new(L.queue, L.total - r, L.count))]
  BY DEF Unlink, WithLevel, s, p, r
<1>8. Unlink(after, o)
        = [live |-> [x \in DOMAIN after.live \ {o} |-> after.live[x]],
           levels |-> WithLevel(after.levels, s, p, new(M.queue, M.total - 0, M.count))]
  BY <1>5 DEF Unlink, WithLevel
<1>9. /\ M.queue = L.queue /\ M.total = L.total - r /\ M.count = L.count /\ L.total \in Nat
  BY <1>4, <1>6 DEF Level
<1> HIDE DEF new, L, M
<1>10. new(M.queue, M.total - 0, M.count) = new(L.queue, L.total - r, L.count)
  <2>1. M.total - 0 = L.total - r
    BY <1>2, <1>9
  <2> QED BY <1>9, <2>1
<1>11. [x \in DOMAIN after.live \ {o} |-> after.live[x]] = [x \in DOMAIN book.live \ {o} |-> book.live[x]]
  BY <1>5
<1>12. \A v : WithLevel(after.levels, s, p, v) = WithLevel(book.levels, s, p, v)
  BY <1>3 DEF SameLevels
<1> QED BY <1>7, <1>8, <1>10, <1>11, <1>12

\* Losing a part keeps a book sound.
LEMMA SoundSame ==
  ASSUME NEW book, Sound(book), NEW o \in DOMAIN book.live, NEW quantity \in Nat,
         quantity < book.live[o].remaining, NEW after,
         SameOrders(book, o, quantity, after),
         SameLevels(book, book.live[o].side, book.live[o].price, quantity, after)
  PROVE  Sound(after)
<1> DEFINE nodes == book.live
           s0 == nodes[o].side
           p0 == nodes[o].price
<1>1. Nodes(nodes) /\ book.levels \in [Sides -> [Prices -> Level]]
  BY DEF Sound
<1>2. s0 \in Sides /\ p0 \in Prices
  BY <1>1, NodeFields
<1>4. /\ nodes[o].remaining \in Nat /\ nodes[o] \in OrderNode
      /\ nodes[o].remaining <= nodes[o].quantity
  BY <1>1, NodeFields
<1>6. /\ DOMAIN after.live = DOMAIN nodes
      /\ after.live = [x \in DOMAIN after.live |-> after.live[x]]
      /\ \A x \in DOMAIN nodes : x # o => after.live[x] = nodes[x]
      /\ after.live[o] = OrderLess(nodes[o], quantity)
      /\ after = [live |-> after.live, levels |-> after.levels]
  BY DEF SameOrders
<1>7. /\ after.live[o] \in OrderNode
      /\ after.live[o].remaining = nodes[o].remaining - quantity
      /\ after.live[o].quantity = nodes[o].quantity /\ after.live[o].priority = nodes[o].priority
      /\ after.live[o].side = s0 /\ after.live[o].price = p0
  <2>1. nodes[o].remaining - quantity \in Nat \ {0}
    BY <1>4
  <2> QED BY <1>4, <1>6, <2>1, OrderLessFields
<1>8. Nodes(after.live)
  <2>1. \A x \in DOMAIN after.live : after.live[x] \in OrderNode
    BY <1>1, <1>6, <1>7 DEF Nodes
  <2>2. after.live \in [DOMAIN after.live -> OrderNode]
    BY <1>6, <2>1
  <2>3. \A x \in DOMAIN after.live : after.live[x].remaining <= after.live[x].quantity
    <3> TAKE x \in DOMAIN after.live
    <3>1. CASE x = o
      <4>1. nodes[o].quantity \in Int
        <5>1. nodes[o].quantity \in Quantities
          BY <1>1, NodeFields
        <5>2. Quantities \subseteq Int
          BY LadderAssumption
        <5> QED BY <5>1, <5>2
      <4> QED BY <1>4, <1>7, <3>1, <4>1
    <3>2. CASE x # o
      BY <1>1, <1>6, <3>2 DEF Nodes
    <3> QED BY <3>1, <3>2
  <2>4. \A x \in DOMAIN nodes : after.live[x].priority = nodes[x].priority
    BY <1>6, <1>7
  <2>5. \A a, b \in DOMAIN after.live : after.live[a].priority = after.live[b].priority => a = b
    BY <1>1, <1>6, <2>4 DEF Nodes
  <2> QED BY <1>1, <1>6, <2>2, <2>3, <2>5 DEF Nodes
<1>9. /\ after.levels[s0][p0] = LevelLess(book.levels[s0][p0], quantity)
      /\ \A s \in Sides, p \in Prices : ~(s = s0 /\ p = p0) => after.levels[s][p] = book.levels[s][p]
      /\ after.levels[s0][p0] \in Level => after.levels \in [Sides -> [Prices -> Level]]
  BY DEF SameLevels
<1>10. ASSUME NEW s \in Sides, NEW p \in Prices
       PROVE  after.levels[s][p] \in Level /\ LevelOK(after.levels[s][p], after.live, Mine(after.live, s, p))
  <2> DEFINE mine == Mine(nodes, s, p)
  <2>1. LevelOK(book.levels[s][p], nodes, mine) /\ book.levels[s][p] \in Level
    BY <1>1 DEF Sound
  <2>2. mine \subseteq DOMAIN nodes
    BY DEF Mine
  <2>3. Mine(after.live, s, p) = mine
    BY <1>6, <1>7 DEF Mine
  <2>4. CASE s = s0 /\ p = p0
    <3>1. o \in mine
      BY <2>4 DEF Mine
    <3> HIDE DEF mine
    <3>2. Counted(nodes, mine) /\ Counted(after.live, mine)
      BY <1>1, <1>6, <1>8, <2>2, MineCounted
    <3>3. after.levels[s][p] = LevelLess(book.levels[s][p], quantity)
      BY <1>9, <2>4
    <3>4. \A x \in mine : x # o => after.live[x] = nodes[x]
      BY <1>6, <2>2
    <3>5. after.levels[s][p] \in Level /\ LevelOK(after.levels[s][p], after.live, mine)
      BY <1>7, <2>1, <3>1, <3>2, <3>3, <3>4, LevelReduced
    <3> QED BY <2>3, <3>5
  <2>5. CASE ~(s = s0 /\ p = p0)
    <3> HIDE DEF mine
    <3>1. after.levels[s][p] = book.levels[s][p]
      BY <1>9, <2>5
    <3>2. \A x \in mine : nodes[x] = after.live[x]
      BY <1>6, <2>5 DEF mine, Mine
    <3>3. LevelOK(book.levels[s][p], after.live, mine)
      BY <2>1, <3>2, LevelAgrees
    <3> QED BY <2>1, <2>3, <3>1, <3>3
  <2> QED BY <2>4, <2>5
<1>11. after.levels \in [Sides -> [Prices -> Level]]
  BY <1>2, <1>9, <1>10
<1> QED BY <1>6, <1>8, <1>10, <1>11 DEF Sound
\* An order matched whole leaves the book as if it were unlinked at once.
LEMMA MatchedWhole ==
  ASSUME NEW book, Sound(book), NEW match, match.order \in DOMAIN book.live,
         match.quantity = book.live[match.order].remaining
  PROVE  ApplyMatch(book, match) = Unlink(book, match.order)
<1>1. Nodes(book.live) /\ book.levels \in [Sides -> [Prices -> Level]]
  BY DEF Sound
<1>2. \A o \in DOMAIN book.live :
        Unlink(Reduced(book, o, book.live[o].remaining), o) = Unlink(book, o)
  BY <1>1, ReducedIsSame, UnlinkSame
<1> QED BY <1>2, ApplyMatchReduces

\* An order matched in part keeps its place with less.
LEMMA MatchedPart ==
  ASSUME NEW book, Sound(book), NEW match, match.order \in DOMAIN book.live,
         match.quantity \in Nat, match.quantity < book.live[match.order].remaining
  PROVE  /\ Sound(ApplyMatch(book, match))
         /\ ApplyMatch(book, match).live = [book.live EXCEPT ![match.order].remaining = @ - match.quantity]
<1>1. Nodes(book.live) /\ book.levels \in [Sides -> [Prices -> Level]]
  BY DEF Sound
<1>2. ApplyMatch(book, match) = Reduced(book, match.order, match.quantity)
  <2>1. book.live[match.order].remaining # match.quantity
    BY <1>1, NodeFields
  <2> QED BY <2>1, ApplyMatchReduces
<1>3. \A o, q : Reduced(book, o, q).live = [book.live EXCEPT ![o].remaining = @ - q]
  BY DEF Reduced, WithOrder, OrderLess
<1>4. \A o \in DOMAIN book.live, q \in Nat : q < book.live[o].remaining => Sound(Reduced(book, o, q))
  BY <1>1, ReducedIsSame, SoundSame
<1>5. Sound(ApplyMatch(book, match))
  BY <1>2, <1>4
<1>6. ApplyMatch(book, match).live = [book.live EXCEPT ![match.order].remaining = @ - match.quantity]
  BY <1>2, <1>3
<1> QED BY <1>5, <1>6

\* Two queues of the same orders in priority order are the same queue.
LEMMA OneQueue ==
  ASSUME NEW nodes, NEW q \in Seq(Orders), NEW r \in Seq(Orders), Len(q) = Len(r), ToSet(q) = ToSet(r),
         \A k \in DOMAIN q : nodes[q[k]].priority \in Nat,
         \A i, j \in DOMAIN q : i < j => nodes[q[i]].priority < nodes[q[j]].priority,
         \A i, j \in DOMAIN r : i < j => nodes[r[i]].priority < nodes[r[j]].priority
  PROVE  q = r
<1> DEFINE n == Len(q)
           Bad == {k \in 1..n : q[k] # r[k]}
<1>1. n \in Nat /\ DOMAIN q = 1..n /\ DOMAIN r = 1..n
  OBVIOUS
<1>2. ASSUME Bad # {} PROVE FALSE
  <2>1. PICK k \in Bad : \A j \in Bad : k <= j
    <3>1. Bad \subseteq Nat
      OBVIOUS
    <3> QED BY <1>2, <3>1, LeastNumber
  <2>2. k \in 1..n /\ q[k] # r[k] /\ \A j \in 1..n : j < k => q[j] = r[j]
    BY <1>1, <2>1
  <2>3. PICK m \in 1..n : r[m] = q[k]
    BY <1>1, <2>2 DEF ToSet
  <2>4. PICK l \in 1..n : q[l] = r[k]
    BY <1>1, <2>2 DEF ToSet
  <2>5. \A j \in 1..n : nodes[q[j]].priority \in Nat /\ nodes[r[j]].priority \in Nat
    BY <1>1 DEF ToSet
  <2>6. m > k
    <3>1. m # k
      BY <2>2, <2>3
    <3>2. ASSUME m < k PROVE FALSE
      <4>1. q[m] = q[k]
        BY <2>2, <2>3, <3>2
      <4>2. nodes[q[m]].priority < nodes[q[k]].priority
        BY <1>1, <2>2, <3>2
      <4>3. nodes[q[k]].priority \in Nat
        BY <2>2, <2>5
      <4> QED BY <4>1, <4>2, <4>3
    <3> QED BY <1>1, <2>2, <3>1, <3>2
  <2>7. l > k
    <3>1. l # k
      BY <2>2, <2>4
    <3>2. ASSUME l < k PROVE FALSE
      <4>1. r[l] = r[k]
        BY <2>2, <2>4, <3>2
      <4>2. nodes[r[l]].priority < nodes[r[k]].priority
        BY <1>1, <2>2, <3>2
      <4>3. nodes[r[k]].priority \in Nat
        BY <2>2, <2>5
      <4> QED BY <4>1, <4>2, <4>3
    <3> QED BY <1>1, <2>2, <3>1, <3>2
  <2>8. nodes[r[k]].priority < nodes[r[m]].priority
    BY <1>1, <2>2, <2>6
  <2>9. nodes[q[k]].priority < nodes[q[l]].priority
    BY <1>1, <2>2, <2>7
  <2>10. nodes[q[k]].priority \in Nat /\ nodes[r[k]].priority \in Nat
    BY <2>2, <2>5
  <2> QED BY <2>3, <2>4, <2>8, <2>9, <2>10
<1>3. \A k \in 1..n : q[k] = r[k]
  BY <1>2
<1> QED BY <1>1, <1>3

\* The order table determines a sound book.
LEMMA OneBook ==
  ASSUME NEW b, NEW c, Sound(b), Sound(c), b.live = c.live
  PROVE  b = c
<1>1. ASSUME NEW s \in Sides, NEW p \in Prices PROVE b.levels[s][p] = c.levels[s][p]
  <2> DEFINE mine == Mine(b.live, s, p)
             x == b.levels[s][p]
             y == c.levels[s][p]
  <2>1. LevelOK(x, b.live, mine) /\ LevelOK(y, b.live, mine) /\ x \in Level /\ y \in Level
    BY DEF Sound
  <2>2. \A o \in mine : b.live[o].priority \in Nat
    BY NodeFields DEF Mine, Sound
  <2> HIDE DEF mine, x, y
  <2>3. x.queue = y.queue
    <3>1. /\ x.queue \in Seq(Orders) /\ y.queue \in Seq(Orders)
          /\ Len(x.queue) = Len(y.queue) /\ ToSet(x.queue) = ToSet(y.queue)
      BY <2>1 DEF LevelOK, Level
    <3>2. \A k \in DOMAIN x.queue : b.live[x.queue[k]].priority \in Nat
      BY <2>1, <2>2 DEF LevelOK, ToSet
    <3>3. /\ \A i, j \in DOMAIN x.queue : i < j => b.live[x.queue[i]].priority < b.live[x.queue[j]].priority
          /\ \A i, j \in DOMAIN y.queue : i < j => b.live[y.queue[i]].priority < b.live[y.queue[j]].priority
      BY <2>1 DEF LevelOK
    <3> QED BY <3>1, <3>2, <3>3, OneQueue
  <2>4. x.total = y.total /\ x.count = y.count
    BY <2>1 DEF LevelOK
  <2>5. x.occupied = y.occupied
    <3>1. x.occupied \in BOOLEAN /\ y.occupied \in BOOLEAN
      BY <2>1 DEF Level
    <3>2. (x.occupied <=> mine # {}) /\ (y.occupied <=> mine # {})
      BY <2>1 DEF LevelOK
    <3> QED BY <3>1, <3>2
  <2>6. x = [queue |-> x.queue, total |-> x.total, count |-> x.count, occupied |-> x.occupied]
        /\ y = [queue |-> y.queue, total |-> y.total, count |-> y.count, occupied |-> y.occupied]
    BY <2>1 DEF Level
  <2>7. x = y
    BY <2>3, <2>4, <2>5, <2>6
  <2> QED BY <2>7 DEF x, y
<1>2. b.levels \in [Sides -> [Prices -> Level]] /\ c.levels \in [Sides -> [Prices -> Level]]
  BY DEF Sound
<1>3. b.levels = c.levels
  <2>1. \A s \in Sides : b.levels[s] = c.levels[s]
    BY <1>1, <1>2
  <2> QED BY <1>2, <2>1
<1>4. b = [live |-> b.live, levels |-> b.levels] /\ c = [live |-> c.live, levels |-> c.levels]
  BY DEF Sound
<1> QED BY <1>3, <1>4

LEMMA EmptyBook == Sound(NoBook) /\ DOMAIN NoBook.live = {} /\ NoBook.live = [o \in {} |-> {}]
<1>1. /\ NoBook.live = [o \in {} |-> {}] /\ DOMAIN NoBook.live = {}
      /\ NoBook.levels = [s \in Sides |-> [p \in Prices |-> EmptyLevel]]
      /\ NoBook = [live |-> NoBook.live, levels |-> NoBook.levels]
  BY DEF NoBook
<1>2. Nodes(NoBook.live)
  <2>1. IsFiniteSet({})
    BY FS_EmptySet
  <2>2. NoBook.live \in [{} -> OrderNode]
    BY <1>1
  <2> QED BY <1>1, <2>1, <2>2 DEF Nodes
<1>3. EmptyLevel \in Level
  <2>1. << >> \in Seq(Orders)
    OBVIOUS
  <2> QED BY <2>1 DEF Level, EmptyLevel
<1>4. NoBook.levels \in [Sides -> [Prices -> Level]]
  BY <1>1, <1>3
<1>5. ASSUME NEW s \in Sides, NEW p \in Prices
      PROVE  LevelOK(NoBook.levels[s][p], NoBook.live, Mine(NoBook.live, s, p))
  <2>1. Mine(NoBook.live, s, p) = {}
    BY <1>1 DEF Mine
  <2>2. NoBook.levels[s][p] = EmptyLevel
    BY <1>1
  <2>3. /\ EmptyLevel.queue = << >> /\ EmptyLevel.total = 0 /\ EmptyLevel.count = 0
        /\ EmptyLevel.occupied = FALSE
    BY DEF EmptyLevel
  <2>4. Cardinality({}) = 0
    BY FS_EmptySet
  <2>5. Total(NoBook.live, {}) = 0
    BY TotalOfNothing
  <2>6. ToSet(<< >>) = {} /\ Len(<< >>) = 0 /\ DOMAIN << >> = {}
    BY DEF ToSet
  <2>7. LevelOK(EmptyLevel, NoBook.live, {})
    BY <2>3, <2>4, <2>5, <2>6 DEF LevelOK
  <2> QED BY <2>1, <2>2, <2>7
<1> QED BY <1>1, <1>2, <1>4, <1>5 DEF Sound

-----------------------------------------------------------------------------
(* 4. The loops: matching, relinking. *)

LEMMA AfterMatchesSteps ==
  ASSUME NEW matches, Len(matches) \in Nat
  PROVE  \E after : /\ after[0] = Book
                    /\ \A k \in 1..Len(matches) : after[k] = ApplyMatch(after[k - 1], matches[k])
                    /\ AfterMatches(matches) = after[Len(matches)]
<1> DEFINE n == Len(matches)
           G == {m \in 0..n : \E f : f = [k \in 0..m |-> IF k = 0 THEN Book
                                                         ELSE ApplyMatch(f[k - 1], matches[k])]}
<1>1. 0 \in G
  <2> DEFINE f == [k \in 0..0 |-> Book]
  <2>1. f = [k \in 0..0 |-> IF k = 0 THEN Book ELSE ApplyMatch(f[k - 1], matches[k])]
    <3>1. \A k \in 0..0 : k = 0
      OBVIOUS
    <3> QED BY <3>1
  <2> HIDE DEF f
  <2>2. \E g : g = [k \in 0..0 |-> IF k = 0 THEN Book ELSE ApplyMatch(g[k - 1], matches[k])]
    BY <2>1
  <2> QED BY <2>2
<1>2. ASSUME NEW m \in 0..(n - 1), m \in G PROVE m + 1 \in G
  <2>1. PICK f : f = [k \in 0..m |-> IF k = 0 THEN Book ELSE ApplyMatch(f[k - 1], matches[k])]
    BY <1>2
  <2> DEFINE g == [k \in 0..(m + 1) |-> IF k <= m THEN f[k] ELSE ApplyMatch(f[m], matches[m + 1])]
  <2>2. \A k \in 0..(m + 1) : g[k] = IF k = 0 THEN Book ELSE ApplyMatch(g[k - 1], matches[k])
    <3> TAKE k \in 0..(m + 1)
    <3>1. CASE k = 0
      BY <2>1, <3>1
    <3>2. CASE k \in 1..m
      <4>1. g[k] = f[k] /\ g[k - 1] = f[k - 1]
        BY <3>2
      <4>2. f[k] = ApplyMatch(f[k - 1], matches[k])
        BY <2>1, <3>2
      <4> HIDE DEF g
      <4> QED BY <3>2, <4>1, <4>2
    <3>3. CASE k = m + 1
      <4>1. g[k] = ApplyMatch(f[m], matches[m + 1]) /\ g[k - 1] = f[m]
        BY <3>3
      <4> HIDE DEF g
      <4> QED BY <3>3, <4>1
    <3> QED BY <3>1, <3>2, <3>3
  <2>3. g = [k \in 0..(m + 1) |-> g[k]]
    OBVIOUS
  <2> HIDE DEF g
  <2>4. g = [k \in 0..(m + 1) |-> IF k = 0 THEN Book ELSE ApplyMatch(g[k - 1], matches[k])]
    BY <2>2, <2>3
  <2>5. \E h : h = [k \in 0..(m + 1) |-> IF k = 0 THEN Book ELSE ApplyMatch(h[k - 1], matches[k])]
    BY <2>4
  <2> QED BY <2>5
<1>3. n \in G
  <2> HIDE DEF G
  <2>1. \A k \in 0..n : k \in G
    BY <1>1, <1>2, Climb
  <2> QED BY <2>1
<1> DEFINE after == CHOOSE f : f = [k \in 0..n |-> IF k = 0 THEN Book
                                                   ELSE ApplyMatch(f[k - 1], matches[k])]
<1>4. after = [k \in 0..n |-> IF k = 0 THEN Book ELSE ApplyMatch(after[k - 1], matches[k])]
  BY <1>3
<1>5. AfterMatches(matches) = after[n]
  BY DEF AfterMatches
<1> HIDE DEF after
<1>6. after[0] = Book /\ \A k \in 1..n : after[k] = ApplyMatch(after[k - 1], matches[k])
  BY <1>4
<1> QED BY <1>5, <1>6

LEMMA RelinkedSteps ==
  ASSUME NEW resting, Len(resting) \in Nat
  PROVE  /\ Relinked(resting)[0] = NoBook
         /\ \A k \in 1..Len(resting) :
              Relinked(resting)[k] = Link(Relinked(resting)[k - 1], resting[k].id, resting[k].node)
<1> DEFINE n == Len(resting)
           G == {m \in 0..n : \E f : f = [k \in 0..m |-> IF k = 0 THEN NoBook
                                                         ELSE Link(f[k - 1], resting[k].id, resting[k].node)]}
<1>1. 0 \in G
  <2> DEFINE f == [k \in 0..0 |-> NoBook]
  <2>1. f = [k \in 0..0 |-> IF k = 0 THEN NoBook ELSE Link(f[k - 1], resting[k].id, resting[k].node)]
    <3>1. \A k \in 0..0 : k = 0
      OBVIOUS
    <3> QED BY <3>1
  <2> HIDE DEF f
  <2>2. \E g : g = [k \in 0..0 |-> IF k = 0 THEN NoBook ELSE Link(g[k - 1], resting[k].id, resting[k].node)]
    BY <2>1
  <2> QED BY <2>2
<1>2. ASSUME NEW m \in 0..(n - 1), m \in G PROVE m + 1 \in G
  <2>1. PICK f : f = [k \in 0..m |-> IF k = 0 THEN NoBook
                                     ELSE Link(f[k - 1], resting[k].id, resting[k].node)]
    BY <1>2
  <2> DEFINE last == Link(f[m], resting[m + 1].id, resting[m + 1].node)
             g == [k \in 0..(m + 1) |-> IF k <= m THEN f[k] ELSE last]
  <2>2. \A k \in 0..(m + 1) :
          g[k] = IF k = 0 THEN NoBook ELSE Link(g[k - 1], resting[k].id, resting[k].node)
    <3> TAKE k \in 0..(m + 1)
    <3>1. CASE k = 0
      BY <2>1, <3>1
    <3>2. CASE k \in 1..m
      <4>1. g[k] = f[k] /\ g[k - 1] = f[k - 1]
        BY <3>2
      <4>2. f[k] = Link(f[k - 1], resting[k].id, resting[k].node)
        BY <2>1, <3>2
      <4> HIDE DEF g
      <4> QED BY <3>2, <4>1, <4>2
    <3>3. CASE k = m + 1
      <4>1. g[k] = last /\ g[k - 1] = f[m]
        BY <3>3
      <4> HIDE DEF g
      <4> QED BY <3>3, <4>1
    <3> QED BY <3>1, <3>2, <3>3
  <2>3. g = [k \in 0..(m + 1) |-> g[k]]
    OBVIOUS
  <2> HIDE DEF g
  <2>4. g = [k \in 0..(m + 1) |-> IF k = 0 THEN NoBook
                                  ELSE Link(g[k - 1], resting[k].id, resting[k].node)]
    BY <2>2, <2>3
  <2>5. \E h : h = [k \in 0..(m + 1) |-> IF k = 0 THEN NoBook
                                         ELSE Link(h[k - 1], resting[k].id, resting[k].node)]
    BY <2>4
  <2> QED BY <2>5
<1>3. n \in G
  <2> HIDE DEF G
  <2>1. \A k \in 0..n : k \in G
    BY <1>1, <1>2, Climb
  <2> QED BY <2>1
<1> DEFINE after == CHOOSE f : f = [k \in 0..n |-> IF k = 0 THEN NoBook
                                                   ELSE Link(f[k - 1], resting[k].id, resting[k].node)]
<1>4. after = [k \in 0..n |-> IF k = 0 THEN NoBook
                              ELSE Link(after[k - 1], resting[k].id, resting[k].node)]
  BY <1>3
<1>5. Relinked(resting) = after
  BY DEF Relinked
<1> HIDE DEF after
<1>6. after[0] = NoBook /\ \A k \in 1..n : after[k] = Link(after[k - 1], resting[k].id, resting[k].node)
  BY <1>4
<1> QED BY <1>5, <1>6

-----------------------------------------------------------------------------
(* 5. The walk of an incoming order. *)

\* The walk meets every resting order that the incoming order crosses, once,
\* in price-time priority.
WalkOK(in, walk) ==
  /\ walk \in Seq(Orders)
  /\ \A k \in DOMAIN walk :
       /\ walk[k] \in DOMAIN live
       /\ live[walk[k]].side = Opposite(in.side) /\ Crosses(in, live[walk[k]].price)
  /\ \A o \in DOMAIN live :
       live[o].side = Opposite(in.side) /\ Crosses(in, live[o].price) => \E k \in DOMAIN walk : walk[k] = o
  /\ \A i, j \in DOMAIN walk : i < j => Ahead(walk[i], walk[j]) /\ walk[i] # walk[j]

LEMMA BookParts == Book.live = live /\ Book.levels = levels
BY DEF Book

LEMMA QueuedOrders ==
  ASSUME Sound(Book), NEW s \in Sides, NEW p \in Prices
  PROVE  /\ levels[s][p].queue \in Seq(Orders)
         /\ levels[s][p].occupied \in BOOLEAN
         /\ ToSet(levels[s][p].queue) = Mine(live, s, p)
         /\ levels[s][p].occupied <=> Mine(live, s, p) # {}
         /\ \A i, j \in DOMAIN levels[s][p].queue :
              i < j => live[levels[s][p].queue[i]].priority < live[levels[s][p].queue[j]].priority
<1> DEFINE x == levels[s][p]
<1>1. x \in Level /\ LevelOK(x, live, Mine(live, s, p))
  BY BookParts DEF Sound
<1> HIDE DEF x
<1>2. x.queue \in Seq(Orders) /\ x.occupied \in BOOLEAN
  BY <1>1 DEF Level
<1>3. ToSet(x.queue) = Mine(live, s, p) /\ (x.occupied <=> Mine(live, s, p) # {})
  BY <1>1, Zenon DEF LevelOK
<1>4. \A i, j \in DOMAIN x.queue : i < j => live[x.queue[i]].priority < live[x.queue[j]].priority
  BY <1>1 DEF LevelOK
<1> QED BY <1>2, <1>3, <1>4 DEF x

LEMMA WalkIsOK ==
  ASSUME Sound(Book), NEW in, in.side \in Sides
  PROVE  WalkOK(in, Walk(in))
<1> DEFINE side == Opposite(in.side)
           queue(p) == levels[side][p].queue
           P == {q \in Occupied(side) : Crosses(in, q)}
           places == UNION {{p} \X DOMAIN queue(p) : p \in P}
           before == {e \in places \X places :
                        Better(side, e[1][1], e[2][1]) \/ (e[1][1] = e[2][1] /\ e[1][2] < e[2][2])}
           scanned == InOrder(places, before)
<1>1. side \in Sides
  BY DEF Opposite, Sides
<1>2. P \subseteq Prices /\ IsFiniteSet(P) /\ P \subseteq Nat
  <2>1. P \in SUBSET Prices
    BY DEF Occupied
  <2>2. IsFiniteSet(Prices) /\ Prices \subseteq Nat
    BY LadderAssumption
  <2> HIDE DEF P
  <2> QED BY <2>1, <2>2, FS_Subset
<1>3. \A p \in P : queue(p) \in Seq(Orders) /\ ToSet(queue(p)) = Mine(live, side, p)
  BY <1>1, <1>2, QueuedOrders
<1>4. \A e : e \in places <=> \E p \in P : \E i \in DOMAIN queue(p) : e = <<p, i>>
  <2> HIDE DEF P, queue
  <2>1. \A e : e \in places <=> \E p \in P : e \in {p} \X DOMAIN queue(p)
    OBVIOUS
  <2>2. \A e, p : e \in {p} \X DOMAIN queue(p) <=> \E i \in DOMAIN queue(p) : e = <<p, i>>
    OBVIOUS
  <2> HIDE DEF places
  <2> QED BY ZenonT(30), <2>1, <2>2
<1>5. \A e \in places : /\ e = <<e[1], e[2]>> /\ e[1] \in P /\ e[2] \in DOMAIN queue(e[1])
                        /\ e[1] \in Nat /\ e[2] \in Nat
  <2> HIDE DEF P, queue, places
  <2> TAKE e \in places
  <2>1. PICK p \in P : \E i \in DOMAIN queue(p) : e = <<p, i>>
    BY <1>4
  <2>2. PICK i \in DOMAIN queue(p) : e = <<p, i>>
    BY <2>1
  <2>3. i \in Nat
    BY <1>3
  <2>4. e[1] = p /\ e[2] = i
    BY <2>2
  <2> QED BY <1>2, <2>2, <2>3, <2>4
<1>6. IsFiniteSet(places)
  <2> DEFINE f == [p \in P |-> {p} \X DOMAIN queue(p)]
  <2>1. \A p \in P : IsFiniteSet(f[p])
    <3> TAKE p \in P
    <3>1. queue(p) \in Seq(Orders)
      BY <1>3
    <3> HIDE DEF queue, P
    <3>2. DOMAIN queue(p) = 1..Len(queue(p)) /\ Len(queue(p)) \in Nat
      BY <3>1
    <3>3. f[p] = {p} \X (1..Len(queue(p)))
      BY <3>2
    <3> QED BY <3>2, <3>3, ColumnOfLots
  <2>2. places = UNION {f[p] : p \in P}
    <3> HIDE DEF P, queue
    <3> QED OBVIOUS
  <2>3. DOMAIN f = P
    OBVIOUS
  <2> HIDE DEF f, P, places, queue
  <2>4. IsFiniteSet(UNION {f[p] : p \in P})
    <3>1. IsFiniteSet(P)
      BY <1>2
    <3>2. \A S, g : IsFiniteSet(S) /\ DOMAIN g = S /\ (\A x \in S : IsFiniteSet(g[x]))
                    => IsFiniteSet(UNION {g[x] : x \in S})
      BY FiniteUnion
    <3> QED BY <2>1, <2>3, <3>1, <3>2
  <2> QED BY <2>2, <2>4, Zenon
<1>7. \A e, f \in places : <<e, f>> \in before <=> Better(side, e[1], f[1]) \/ (e[1] = f[1] /\ e[2] < f[2])
  <2> HIDE DEF places
  <2> QED OBVIOUS
<1> HIDE DEF places, before
<1>8. StrictlyOrders(places, before)
  <2>1. \A e, f \in places : <<e, f>> \in before => <<f, e>> \notin before
    <3> TAKE e, f \in places
    <3>1. e[1] \in Nat /\ e[2] \in Nat /\ f[1] \in Nat /\ f[2] \in Nat
      BY <1>5
    <3>2. ~((Better(side, e[1], f[1]) \/ (e[1] = f[1] /\ e[2] < f[2]))
            /\ (Better(side, f[1], e[1]) \/ (f[1] = e[1] /\ f[2] < e[2])))
      BY <3>1 DEF Better
    <3> QED BY <1>7, <3>2
  <2>2. \A e, f, g \in places : <<e, f>> \in before /\ <<f, g>> \in before => <<e, g>> \in before
    <3> TAKE e, f, g \in places
    <3>1. e[1] \in Nat /\ e[2] \in Nat /\ f[1] \in Nat /\ f[2] \in Nat /\ g[1] \in Nat /\ g[2] \in Nat
      BY <1>5
    <3>2. /\ Better(side, e[1], f[1]) \/ (e[1] = f[1] /\ e[2] < f[2])
          /\ Better(side, f[1], g[1]) \/ (f[1] = g[1] /\ f[2] < g[2])
          => Better(side, e[1], g[1]) \/ (e[1] = g[1] /\ e[2] < g[2])
      BY <3>1 DEF Better
    <3> QED BY <1>7, <3>2
  <2>3. \A e, f \in places : e # f => <<e, f>> \in before \/ <<f, e>> \in before
    <3> TAKE e, f \in places
    <3>1. /\ e[1] \in Nat /\ e[2] \in Nat /\ f[1] \in Nat /\ f[2] \in Nat
          /\ e = <<e[1], e[2]>> /\ f = <<f[1], f[2]>>
      BY <1>5
    <3>2. e[1] = f[1] /\ e[2] = f[2] => e = f
      BY <3>1
    <3>3. ~(e[1] = f[1] /\ e[2] = f[2])
          => \/ Better(side, e[1], f[1]) \/ (e[1] = f[1] /\ e[2] < f[2])
             \/ Better(side, f[1], e[1]) \/ (f[1] = e[1] /\ f[2] < e[2])
      BY <3>1 DEF Better
    <3> QED BY <1>7, <3>2, <3>3
  <2> QED BY <2>1, <2>2, <2>3 DEF StrictlyOrders
<1> DEFINE n == Cardinality(places)
<1>9. n \in Nat /\ Lists(scanned, places, before)
  BY <1>6, <1>8, InOrderLists
<1> HIDE DEF scanned, n
<1>10. /\ DOMAIN scanned = 1..n
       /\ \A k \in 1..n : scanned[k] \in places
       /\ \A e \in places : \E k \in 1..n : scanned[k] = e
       /\ \A i, j \in 1..n : i < j => <<scanned[i], scanned[j]>> \in before
  BY <1>9 DEF Lists, n
<1> DEFINE w == Walk(in)
<1>11. w = [k \in DOMAIN scanned |-> queue(scanned[k][1])[scanned[k][2]]]
  BY DEF Walk, scanned, places, before, P, queue
<1> HIDE DEF w
<1>12. DOMAIN w = 1..n /\ \A k \in 1..n : w[k] = queue(scanned[k][1])[scanned[k][2]]
  BY <1>10, <1>11
<1> HIDE DEF queue, P
<1>13. ASSUME NEW k \in 1..n
       PROVE  /\ w[k] \in DOMAIN live /\ live[w[k]].side = side /\ live[w[k]].price = scanned[k][1]
              /\ scanned[k][1] \in P
  <2>1. scanned[k][1] \in P /\ scanned[k][2] \in DOMAIN queue(scanned[k][1])
    BY <1>5, <1>10
  <2>2. w[k] \in Mine(live, side, scanned[k][1])
    BY <1>3, <1>12, <2>1 DEF ToSet
  <2> QED BY <2>1, <2>2 DEF Mine
<1>14. w \in Seq(Orders)
  <2>1. \A k \in 1..n : w[k] \in Orders
    BY <1>13, BookParts DEF Sound, Nodes
  <2>2. w = [k \in 1..n |-> w[k]]
    BY <1>10, <1>11, <1>12
  <2> QED BY <1>9, <2>1, <2>2
<1>15. ASSUME NEW o \in DOMAIN live, live[o].side = side, Crosses(in, live[o].price)
       PROVE  \E k \in 1..n : w[k] = o
  <2> DEFINE p == live[o].price
  <2>1. p \in Prices
    BY NodeFields, BookParts DEF Sound
  <2>2. o \in Mine(live, side, p)
    BY <1>15 DEF Mine
  <2> HIDE DEF p
  <2>3. p \in P
    BY <1>1, <1>15, <2>1, <2>2, QueuedOrders DEF P, Occupied, p
  <2>4. PICK i \in DOMAIN queue(p) : queue(p)[i] = o
    BY <1>3, <2>2, <2>3 DEF ToSet
  <2>5. <<p, i>> \in places
    BY <1>4, <2>3
  <2>6. PICK k \in 1..n : scanned[k] = <<p, i>>
    BY <1>10, <2>5
  <2>7. w[k] = queue(p)[i]
    BY <1>12, <2>6
  <2> QED BY <2>4, <2>7
<1>16. ASSUME NEW i \in 1..n, NEW j \in 1..n, i < j
       PROVE  Ahead(w[i], w[j]) /\ w[i] # w[j]
  <2> DEFINE e == scanned[i]
             f == scanned[j]
  <2>1. e \in places /\ f \in places /\ <<e, f>> \in before
    BY <1>10, <1>16
  <2>2. /\ live[w[i]].side = side /\ live[w[j]].side = side
        /\ live[w[i]].price = e[1] /\ live[w[j]].price = f[1]
        /\ w[i] \in DOMAIN live /\ w[j] \in DOMAIN live
    BY <1>13
  <2>3. Better(side, e[1], f[1]) \/ (e[1] = f[1] /\ e[2] < f[2])
    BY <1>7, <2>1
  <2>4. e[1] \in Nat /\ f[1] \in Nat /\ e[1] \in P /\ e[2] \in DOMAIN queue(e[1]) /\ f[2] \in DOMAIN queue(f[1])
    BY <1>5, <2>1
  <2>5. live[w[i]].priority \in Nat /\ live[w[j]].priority \in Nat
    BY <2>2, NodeFields, BookParts DEF Sound
  <2>6. w[i] = queue(e[1])[e[2]] /\ w[j] = queue(f[1])[f[2]]
    BY <1>12
  <2> HIDE DEF e, f
  <2>7. CASE Better(side, e[1], f[1])
    <3>1. e[1] # f[1] /\ IF side = "Buy" THEN e[1] > f[1] ELSE e[1] < f[1]
      BY <2>4, <2>7 DEF Better
    <3> QED BY <2>2, <3>1 DEF Ahead
  <2>8. CASE e[1] = f[1] /\ e[2] < f[2]
    <3>1. \A k, l \in DOMAIN queue(e[1]) : k < l => live[queue(e[1])[k]].priority < live[queue(e[1])[l]].priority
      BY <1>1, <1>2, <2>4, QueuedOrders DEF queue
    <3>2. live[w[i]].priority < live[w[j]].priority
      BY <2>4, <2>6, <2>8, <3>1
    <3>3. w[i] # w[j]
      BY <2>5, <3>2
    <3> QED BY <2>2, <2>8, <3>2, <3>3 DEF Ahead
  <2> QED BY <2>3, <2>7, <2>8
<1>17. \A k \in 1..n : Crosses(in, live[w[k]].price)
  BY <1>13 DEF P
<1>18. WalkOK(in, w)
  BY <1>12, <1>13, <1>14, <1>15, <1>16, <1>17 DEF WalkOK
<1> QED BY <1>18 DEF w

-----------------------------------------------------------------------------
(* 6. The plan. *)

\* A set of numbers without gaps from 1 on is counted by its last member.
LEMMA NoGaps ==
  ASSUME NEW m \in Nat, NEW R \in SUBSET (1..m), \A k \in R : \A j \in 1..k : j \in R
  PROVE  Cardinality(R) \in 0..m /\ R = 1..Cardinality(R)
<1> DEFINE B == {k \in 1..(m + 1) : k \notin R}
<1>1. B \subseteq Nat /\ m + 1 \in B
  OBVIOUS
<1>2. PICK b \in B : \A k \in B : b <= k
  <2> HIDE DEF B
  <2> QED BY <1>1, LeastNumber
<1>3. b \in 1..(m + 1) /\ b \notin R
  OBVIOUS
<1>4. \A k \in 1..(b - 1) : k \in R
  BY <1>2, <1>3
<1>5. \A k \in R : k \in 1..(b - 1)
  <2> TAKE k \in R
  <2>1. k \in 1..m
    OBVIOUS
  <2>2. ~(b <= k)
    BY <1>3, <2>1
  <2> QED BY <1>3, <2>1, <2>2
<1>6. R = 1..(b - 1)
  BY <1>4, <1>5
<1>7. Cardinality(1..(b - 1)) = b - 1
  BY <1>3, FS_Interval
<1> QED BY <1>3, <1>6, <1>7

\* An order that can be submitted.
Submittable(in) == in.side \in Sides /\ in.quantity \in Nat \ {0}

\* What is left of an incoming order falls with every order of its walk.
LEMMA LeftFalls ==
  ASSUME Sound(Book), NEW in, Submittable(in), NEW walk, WalkOK(in, walk)
  PROVE  /\ LeftAfter(in, walk, 0) = in.quantity
         /\ \A k \in 0..Len(walk) : LeftAfter(in, walk, k) \in Int
         /\ \A k \in 1..Len(walk) : /\ live[walk[k]].remaining \in Nat /\ live[walk[k]].remaining > 0
                                    /\ LeftAfter(in, walk, k)
                                         = LeftAfter(in, walk, k - 1) - live[walk[k]].remaining
         /\ \A k \in 0..Len(walk) : \A j \in 0..k : LeftAfter(in, walk, k) <= LeftAfter(in, walk, j)
<1> DEFINE n == Len(walk)
           L(k) == LeftAfter(in, walk, k)
           S(k) == {walk[i] : i \in 1..k}
<1>1. /\ n \in Nat /\ DOMAIN walk = 1..n /\ in.quantity \in Nat
      /\ \A k \in 1..n : walk[k] \in DOMAIN live
      /\ \A i, j \in 1..n : i < j => walk[i] # walk[j]
  BY DEF WalkOK, Submittable
<1>2. Nodes(live)
  BY BookParts DEF Sound
<1>3. ASSUME NEW k \in 0..n PROVE Counted(live, S(k)) /\ Total(live, S(k)) \in Nat
  <2>1. S(k) \in SUBSET DOMAIN live
    BY <1>1
  <2> HIDE DEF S
  <2>2. Counted(live, S(k))
    BY <1>2, <2>1, MineCounted
  <2> QED BY <2>2, TotalType
<1>4. \A k : L(k) = in.quantity - Total(live, S(k))
  BY DEF LeftAfter
<1>5. L(0) = in.quantity
  <2>1. S(0) = {}
    OBVIOUS
  <2>2. Total(live, S(0)) = 0
    BY <2>1, TotalOfNothing
  <2> HIDE DEF S
  <2> QED BY <1>1, <1>4, <2>2
<1>6. \A k \in 0..n : L(k) \in Int
  <2> HIDE DEF S, L
  <2> QED BY <1>1, <1>3, <1>4
<1>7. ASSUME NEW k \in 1..n
      PROVE  live[walk[k]].remaining \in Nat /\ live[walk[k]].remaining > 0
             /\ L(k) = L(k - 1) - live[walk[k]].remaining
  <2>1. live[walk[k]].remaining \in Nat /\ live[walk[k]].remaining > 0
    BY <1>1, <1>2, NodeFields
  <2>2. S(k) = S(k - 1) \cup {walk[k]}
    OBVIOUS
  <2>3. walk[k] \notin S(k - 1)
    BY <1>1
  <2>4. k \in 0..n /\ k - 1 \in 0..n
    OBVIOUS
  <2> HIDE DEF S, L
  <2>5. Counted(live, S(k - 1) \cup {walk[k]})
    BY <1>3, <2>2, <2>4
  <2>6. Total(live, S(k - 1) \cup {walk[k]}) = Total(live, S(k - 1)) + live[walk[k]].remaining
    BY <2>3, <2>5, TotalWith
  <2>7. L(k) = in.quantity - (Total(live, S(k - 1)) + live[walk[k]].remaining)
    BY <1>4, <2>2, <2>6
  <2>8. L(k - 1) = in.quantity - Total(live, S(k - 1)) /\ Total(live, S(k - 1)) \in Nat
    BY <1>3, <1>4, <2>4
  <2> QED BY <1>1, <2>1, <2>7, <2>8
<1> HIDE DEF L
<1>8. ASSUME NEW j \in 0..n, NEW k \in j..n PROVE L(k) <= L(j)
  <2> DEFINE G == {m \in 0..(n - j) : L(j + m) <= L(j)}
  <2>1. 0 \in G
    BY <1>1, <1>6
  <2>2. ASSUME NEW m \in 0..((n - j) - 1), m \in G PROVE m + 1 \in G
    <3>1. j + (m + 1) \in 1..n /\ (j + (m + 1)) - 1 = j + m /\ j + m \in 0..n
      BY <1>1
    <3>2. L(j + (m + 1)) = L(j + m) - live[walk[j + (m + 1)]].remaining
          /\ live[walk[j + (m + 1)]].remaining \in Nat
      BY <1>7, <3>1
    <3>3. L(j + m) \in Int /\ L(j) \in Int
      BY <1>6, <3>1
    <3> QED BY <1>1, <2>2, <3>2, <3>3
  <2> HIDE DEF G
  <2>3. n - j \in Nat
    BY <1>1
  <2>4. k - j \in G
    <3>1. k - j \in 0..(n - j)
      BY <1>1
    <3> QED BY <2>1, <2>2, <2>3, <3>1, Climb
  <2>5. L(j + (k - j)) <= L(j)
    BY <2>4 DEF G
  <2>6. j + (k - j) = k
    BY <1>1
  <2> QED BY <2>5, <2>6
<1>9. \A k \in 0..n : \A j \in 0..k : L(k) <= L(j)
  BY <1>1, <1>8
<1> QED BY <1>5, <1>6, <1>7, <1>9 DEF L

\* What plan_matches finds: the first n orders of the walk, all but the last
\* taken whole, and why it stopped.
PlanOK(in, n) ==
  LET walk == Walk(in)
      plan == PlanMatches(in)
      left(k) == LeftAfter(in, walk, k)
  IN /\ n \in 0..Len(walk)
     /\ Len(plan.matches) = n /\ DOMAIN plan.matches = 1..n
     /\ \A k \in 1..n :
          /\ plan.matches[k].order = walk[k]
          /\ plan.matches[k].quantity
               = IF left(k - 1) <= live[walk[k]].remaining THEN left(k - 1) ELSE live[walk[k]].remaining
          /\ left(k - 1) > 0
     /\ plan.self_trade_prevented \in BOOLEAN
     /\ plan.self_trade_prevented <=> n < Len(walk) /\ left(n) > 0
     /\ Unmatched(in, plan) = IF left(n) > 0 THEN left(n) ELSE 0

LEMMA PlanIsOK ==
  ASSUME Sound(Book), NEW in, Submittable(in)
  PROVE  \E n : PlanOK(in, n)
<1> DEFINE walk == Walk(in)
           m == Len(walk)
           L(k) == LeftAfter(in, walk, k)
           rem(k) == live[walk[k]].remaining
           reached == {k \in DOMAIN walk : /\ L(k - 1) > 0
                                           /\ \A j \in 1..k : live[walk[j]].trader # in.trader}
           n == Cardinality(reached)
           plan == PlanMatches(in)
<1>1. WalkOK(in, walk)
  BY WalkIsOK DEF Submittable
<1>2. /\ L(0) = in.quantity
      /\ \A k \in 0..m : L(k) \in Int
      /\ \A k \in 1..m : rem(k) \in Nat /\ rem(k) > 0 /\ L(k) = L(k - 1) - rem(k)
      /\ \A k \in 0..m : \A j \in 0..k : L(k) <= L(j)
  <2> HIDE DEF walk
  <2> QED BY <1>1, LeftFalls
<1>3. m \in Nat /\ DOMAIN walk = 1..m /\ in.quantity \in Nat
  BY <1>1 DEF WalkOK, Submittable
<1> HIDE DEF walk, m, L, rem
<1>4. n \in 0..m /\ reached = 1..n
  <2>1. reached \in SUBSET (1..m)
    BY <1>3
  <2>2. ASSUME NEW k \in reached, NEW j \in 1..k PROVE j \in reached
    <3>1. k \in 1..m /\ L(k - 1) > 0 /\ \A i \in 1..k : live[walk[i]].trader # in.trader
      BY <1>3
    <3>2. j \in 1..m /\ k - 1 \in 0..m /\ j - 1 \in 0..(k - 1)
      BY <1>3, <3>1
    <3>3. L(k - 1) <= L(j - 1) /\ L(k - 1) \in Int /\ L(j - 1) \in Int
      BY <1>2, <1>3, <3>2
    <3>4. L(j - 1) > 0
      BY <3>1, <3>3
    <3> QED BY <1>3, <3>1, <3>2, <3>4
  <2> HIDE DEF reached
  <2> QED BY <1>3, <2>1, <2>2, NoGaps
<1>5. plan = [matches |-> Planned(in, walk, n), self_trade_prevented |-> n < m /\ L(n) > 0]
  BY DEF PlanMatches, walk, m, L
<1>6. \A k \in 1..n : L(k - 1) > 0
  BY <1>4
<1> HIDE DEF reached, n, plan
<1>7. /\ plan.matches = Planned(in, walk, n)
      /\ plan.self_trade_prevented = (n < m /\ L(n) > 0)
  BY <1>5
<1>8. /\ plan.matches = [k \in 1..n |-> [order |-> walk[k], quantity |-> Min({L(k - 1), rem(k)})]]
  BY <1>7 DEF Planned, L, rem
<1>9. n \in Nat /\ DOMAIN plan.matches = 1..n /\ Len(plan.matches) = n
  <2>1. n \in Nat /\ DOMAIN plan.matches = 1..n
    BY <1>3, <1>4, <1>8
  <2>2. plan.matches \in Seq({plan.matches[k] : k \in 1..n})
    <3> DEFINE X == {plan.matches[k] : k \in 1..n}
    <3>1. \A k \in 1..n : plan.matches[k] \in X
      OBVIOUS
    <3>2. plan.matches = [k \in 1..n |-> plan.matches[k]]
      BY <1>8
    <3> HIDE DEF X
    <3>3. plan.matches \in Seq(X)
      BY <2>1, <3>1, <3>2
    <3> QED BY <3>3 DEF X
  <2> QED BY <2>1, <2>2
<1>10. ASSUME NEW k \in 1..n
       PROVE  /\ plan.matches[k].order = walk[k]
              /\ plan.matches[k].quantity = IF L(k - 1) <= rem(k) THEN L(k - 1) ELSE rem(k)
              /\ L(k - 1) > 0
  <2>1. plan.matches[k] = [order |-> walk[k], quantity |-> Min({L(k - 1), rem(k)})]
    BY <1>8
  <2>2. k \in 1..m /\ k - 1 \in 0..m
    BY <1>3, <1>4
  <2>3. L(k - 1) \in Int /\ rem(k) \in Int
    BY <1>2, <2>2
  <2>4. Min({L(k - 1), rem(k)}) = IF L(k - 1) <= rem(k) THEN L(k - 1) ELSE rem(k)
    BY <2>3, LesserOfTwo
  <2> QED BY <1>6, <2>1, <2>4
<1>11. Unmatched(in, plan) = IF L(n) > 0 THEN L(n) ELSE 0
  <2> DEFINE taken(j) == [k \in 1..j |-> plan.matches[k].quantity]
             G == {j \in 0..n : Units(taken(j)) = in.quantity - (IF L(j) > 0 THEN L(j) ELSE 0)}
  <2>1. \A k \in 1..n : plan.matches[k].quantity \in Nat
    <3> TAKE k \in 1..n
    <3>1. k \in 1..m /\ k - 1 \in 0..m
      BY <1>3, <1>4
    <3>2. L(k - 1) \in Int /\ rem(k) \in Nat
      BY <1>2, <3>1
    <3> QED BY <1>10, <3>2
  <2>2. 0 \in G
    <3>1. DOMAIN taken(0) = {}
      OBVIOUS
    <3>2. Units(taken(0)) = 0
      <4> HIDE DEF taken
      <4> QED BY <3>1, UnitsOfNothing
    <3>3. in.quantity - (IF L(0) > 0 THEN L(0) ELSE 0) = 0
      BY <1>2, <1>3
    <3> HIDE DEF taken
    <3> QED BY <1>9, <3>2, <3>3
  <2>3. ASSUME NEW j \in 0..(n - 1), j \in G PROVE j + 1 \in G
    <3>1. Units(taken(j)) = in.quantity - (IF L(j) > 0 THEN L(j) ELSE 0)
      BY <2>3
    <3>2. /\ IsFiniteSet(DOMAIN taken(j)) /\ \A y \in DOMAIN taken(j) : taken(j)[y] \in Nat
          /\ j + 1 \notin DOMAIN taken(j) /\ DOMAIN taken(j + 1) = DOMAIN taken(j) \cup {j + 1}
          /\ \A y \in DOMAIN taken(j) : taken(j + 1)[y] = taken(j)[y]
          /\ taken(j + 1)[j + 1] = plan.matches[j + 1].quantity
          /\ taken(j + 1)[j + 1] \in Nat
      <4>1. IsFiniteSet(1..j)
        BY FS_Interval
      <4>2. j \in Nat /\ j + 1 \in 1..n /\ 1..(j + 1) = (1..j) \cup {j + 1} /\ \A y \in 1..j : y \in 1..n
        BY <1>9
      <4> QED BY <2>1, <4>1, <4>2
    <3>3. Units(taken(j + 1)) = Units(taken(j)) + taken(j + 1)[j + 1]
      <4> DEFINE f == taken(j)
                 g == taken(j + 1)
                 x == j + 1
      <4>1. /\ IsFiniteSet(DOMAIN f) /\ \A y \in DOMAIN f : f[y] \in Nat
            /\ x \notin DOMAIN f /\ DOMAIN g = DOMAIN f \cup {x}
            /\ \A y \in DOMAIN f : g[y] = f[y]
            /\ g[x] \in Nat
        <5> HIDE DEF taken
        <5> QED BY <3>2, Zenon
      <4> HIDE DEF f, g, x
      <4>2. Units(g) = Units(f) + g[x]
        BY <4>1, UnitsWith, Zenon
      <4> HIDE DEF taken
      <4> QED BY <4>2, Zenon DEF f, g, x
    <3> DEFINE k == j + 1
    <3>4. /\ k \in 1..n /\ k \in 1..m /\ k - 1 = j /\ k \in 0..m /\ j \in 0..m /\ k \in 0..n
      BY <1>3, <1>4, <1>9
    <3>5. /\ plan.matches[k].quantity = (IF L(j) <= rem(k) THEN L(j) ELSE rem(k))
          /\ L(j) > 0
      <4> HIDE DEF k
      <4> QED BY <1>10, <3>4
    <3>6. L(k) = L(j) - rem(k) /\ rem(k) \in Nat /\ L(j) \in Int /\ L(k) \in Int
      <4> HIDE DEF k
      <4> QED BY <1>2, <3>4
    <3>7. taken(k)[k] = plan.matches[k].quantity
      BY <3>2
    <3>8. Units(taken(k)) = Units(taken(j)) + taken(k)[k]
      BY <3>3
    <3> HIDE DEF k, taken
    <3>9. Units(taken(k)) = in.quantity - (IF L(k) > 0 THEN L(k) ELSE 0)
      BY <1>3, <3>1, <3>5, <3>6, <3>7, <3>8
    <3> QED BY <3>4, <3>9 DEF k
  <2>4. n \in G
    <3> HIDE DEF G
    <3>1. \A j \in 0..n : j \in G
      BY <1>9, <2>2, <2>3, Climb
    <3> QED BY <1>9, <3>1
  <2>5. Unmatched(in, plan) = in.quantity - Units(taken(n))
    BY <1>9 DEF Unmatched
  <2>6. L(n) \in Int
    BY <1>2, <1>4
  <2>7. Units(taken(n)) = in.quantity - (IF L(n) > 0 THEN L(n) ELSE 0)
    BY <2>4
  <2> HIDE DEF taken
  <2> QED BY <1>3, <2>5, <2>6, <2>7
<1>12. PlanOK(in, n)
  <2>1. plan.self_trade_prevented \in BOOLEAN /\ (plan.self_trade_prevented <=> n < m /\ L(n) > 0)
    BY <1>7
  <2> QED BY <1>4, <1>9, <1>10, <1>11, <2>1 DEF PlanOK, walk, m, L, rem, plan
<1> QED BY <1>12

\* The book once n matches of the walk are applied: sound; the orders taken
\* whole are gone, the last one may keep a remainder, and no other has changed.
MatchedOK(in, n, after) ==
  LET walk == Walk(in)
      left(k) == LeftAfter(in, walk, k)
  IN /\ Sound(after)
     /\ DOMAIN after.live \subseteq DOMAIN live
     /\ \A k \in 1..n : k < n \/ left(n) >= 0 => walk[k] \notin DOMAIN after.live
     /\ \A o \in DOMAIN live :
          (\A k \in 1..n : o # walk[k]) => o \in DOMAIN after.live /\ after.live[o] = live[o]
     /\ n > 0 /\ left(n) < 0 =>
          /\ walk[n] \in DOMAIN after.live
          /\ after.live[walk[n]] = [live[walk[n]] EXCEPT !.remaining = 0 - left(n)]
     /\ n = 0 => after = Book

\* The book once the first k orders of the walk are taken whole.
AtStage(in, k, book) ==
  /\ Sound(book)
  /\ book.live = [o \in DOMAIN live \ {Walk(in)[i] : i \in 1..k} |-> live[o]]

\* The matches applied one by one: each but the last takes its order whole.
LEMMA MatchingStages ==
  ASSUME Sound(Book), NEW in, Submittable(in), NEW n, PlanOK(in, n)
  PROVE  \E after :
           /\ after[0] = Book /\ AfterMatches(PlanMatches(in).matches) = after[n]
           /\ \A k \in 1..n : after[k] = ApplyMatch(after[k - 1], PlanMatches(in).matches[k])
           /\ \A k \in 0..(n - 1) : AtStage(in, k, after[k])
           /\ \A k \in 1..n : PlanMatches(in).matches[k].quantity = live[Walk(in)[k]].remaining
                               => AtStage(in, k, after[k])
<1> DEFINE walk == Walk(in)
           m == Len(walk)
           L(k) == LeftAfter(in, walk, k)
           rem(k) == live[walk[k]].remaining
           matches == PlanMatches(in).matches
           rest(k) == DOMAIN live \ {walk[i] : i \in 1..k}
<1>1. WalkOK(in, walk)
  BY WalkIsOK DEF Submittable
<1>2. /\ L(0) = in.quantity
      /\ \A k \in 0..m : L(k) \in Int
      /\ \A k \in 1..m : rem(k) \in Nat /\ rem(k) > 0 /\ L(k) = L(k - 1) - rem(k)
      /\ \A k \in 0..m : \A j \in 0..k : L(k) <= L(j)
  <2> HIDE DEF walk
  <2> QED BY <1>1, LeftFalls
<1>3. /\ n \in 0..m /\ Len(matches) = n
      /\ \A k \in 1..n :
           /\ matches[k].order = walk[k]
           /\ matches[k].quantity = IF L(k - 1) <= rem(k) THEN L(k - 1) ELSE rem(k)
           /\ L(k - 1) > 0
  BY DEF PlanOK
<1>4. /\ m \in Nat /\ DOMAIN walk = 1..m
      /\ \A k \in 1..m : walk[k] \in DOMAIN live
      /\ \A i, j \in 1..m : i < j => walk[i] # walk[j]
  BY <1>1 DEF WalkOK
<1> HIDE DEF walk, m, L, rem, matches
<1>5. n \in Nat /\ \A k \in 1..n : k \in 1..m
  BY <1>3, <1>4
<1>6. PICK after : /\ after[0] = Book
                   /\ \A k \in 1..n : after[k] = ApplyMatch(after[k - 1], matches[k])
                   /\ AfterMatches(matches) = after[n]
  <2>1. Len(matches) \in Nat
    BY <1>3, <1>5
  <2> QED BY <1>3, <2>1, AfterMatchesSteps
<1>7. live = [o \in DOMAIN live |-> live[o]]
  BY BookParts DEF Sound, Nodes
<1> DEFINE Whole(k) == Sound(after[k]) /\ after[k].live = [o \in rest(k) |-> live[o]]
<1>8. Whole(0)
  <2>1. rest(0) = DOMAIN live
    OBVIOUS
  <2> HIDE DEF rest
  <2> QED BY <1>6, <1>7, <2>1, BookParts
\* A match that takes all of its order leaves the orders after it.
<1>9. ASSUME NEW k \in 1..n, Whole(k - 1), matches[k].quantity = rem(k) PROVE Whole(k)
  <2>1. walk[k] \in rest(k - 1)
    BY <1>4, <1>5
  <2>2. rest(k - 1) \ {walk[k]} = rest(k)
    <3>1. \A i : i \in 1..k <=> i \in 1..(k - 1) \/ i = k
      OBVIOUS
    <3> QED BY <3>1
  <2> DEFINE b == after[k - 1]
  <2> HIDE DEF rest
  <2>3. Sound(b) /\ b.live = [o \in rest(k - 1) |-> live[o]]
    BY <1>9
  <2>4. matches[k].order = walk[k]
    BY <1>3
  <2>5. walk[k] \in DOMAIN b.live /\ b.live[walk[k]].remaining = rem(k)
    BY <2>1, <2>3 DEF rem
  <2>6. after[k] = ApplyMatch(b, matches[k])
    BY <1>6
  <2> HIDE DEF b
  <2>7. after[k] = Unlink(b, walk[k])
    BY <1>9, <2>3, <2>4, <2>5, <2>6, MatchedWhole
  <2>8. /\ Sound(after[k])
        /\ after[k].live = [x \in DOMAIN b.live \ {walk[k]} |-> b.live[x]]
    BY <2>3, <2>5, <2>7, Unlinking
  <2>9. after[k].live = [o \in rest(k) |-> live[o]]
    BY <2>2, <2>3, <2>8
  <2> QED BY <2>8, <2>9
<1>10. \A k \in 1..n : k < n => matches[k].quantity = rem(k)
  <2> TAKE k \in 1..n
  <2> HAVE k < n
  <2>1. k + 1 \in 1..n /\ (k + 1) - 1 = k /\ k \in 1..m /\ k \in 0..m /\ k - 1 \in 0..m
    BY <1>3, <1>4
  <2>2. L(k) > 0
    BY <1>3, <2>1
  <2>3. L(k) = L(k - 1) - rem(k) /\ rem(k) \in Nat /\ L(k - 1) \in Int
    BY <1>2, <2>1
  <2> QED BY <1>3, <2>2, <2>3
<1>11. \A k \in 0..(n - 1) : Whole(k)
  <2> DEFINE G == {k \in 0..(n - 1) : Whole(k)}
  <2>1. CASE n = 0
    BY <2>1
  <2>2. CASE n > 0
    <3>1. 0 \in G
      BY <1>5, <1>8, <2>2
    <3>2. ASSUME NEW k \in 0..((n - 1) - 1), k \in G PROVE k + 1 \in G
      <4>1. k + 1 \in 1..n /\ k + 1 < n /\ (k + 1) - 1 = k /\ k + 1 \in 0..(n - 1)
        BY <1>5
      <4>2. matches[k + 1].quantity = rem(k + 1)
        BY <1>10, <4>1
      <4>3. Whole(k)
        BY <3>2
      <4> HIDE DEF Whole
      <4>4. Whole(k + 1)
        <5> DEFINE j == k + 1
        <5>1. j \in 1..n /\ j - 1 = k /\ matches[j].quantity = rem(j)
          BY <4>1, <4>2
        <5> HIDE DEF j
        <5>2. Whole(j - 1)
          BY <4>3, <5>1
        <5>3. Whole(j)
          BY <1>9, <5>1, <5>2
        <5> QED BY <5>3 DEF j
      <4> QED BY <4>1, <4>4
    <3>3. n - 1 \in Nat
      BY <1>5, <2>2
    <3> HIDE DEF G
    <3>4. \A k \in 0..(n - 1) : k \in G
      BY <3>1, <3>2, <3>3, Climb
    <3> QED BY <3>4 DEF G
  <2> QED BY <1>5, <2>1, <2>2
<1>12. ASSUME NEW k \in 1..n, matches[k].quantity = rem(k) PROVE Whole(k)
  <2>1. k - 1 \in 0..(n - 1)
    BY <1>5
  <2> QED BY <1>9, <1>11, <1>12, <2>1
<1>13. \A k : Whole(k) => AtStage(in, k, after[k])
  BY DEF AtStage, walk
<1>14. \A k \in 1..n : matches[k].quantity = live[Walk(in)[k]].remaining => AtStage(in, k, after[k])
  <2> HIDE DEF Whole
  <2> QED BY <1>12, <1>13 DEF rem, walk
<1> HIDE DEF Whole
<1> QED BY <1>6, <1>11, <1>13, <1>14 DEF matches

LEMMA MatchingIsOK ==
  ASSUME Sound(Book), NEW in, Submittable(in), NEW n, PlanOK(in, n)
  PROVE  MatchedOK(in, n, AfterMatches(PlanMatches(in).matches))
<1> DEFINE walk == Walk(in)
           m == Len(walk)
           L(k) == LeftAfter(in, walk, k)
           rem(k) == live[walk[k]].remaining
           matches == PlanMatches(in).matches
           rest(k) == DOMAIN live \ {walk[i] : i \in 1..k}
<1>1. WalkOK(in, walk)
  BY WalkIsOK DEF Submittable
<1>2. /\ L(0) = in.quantity
      /\ \A k \in 0..m : L(k) \in Int
      /\ \A k \in 1..m : rem(k) \in Nat /\ rem(k) > 0 /\ L(k) = L(k - 1) - rem(k)
      /\ \A k \in 0..m : \A j \in 0..k : L(k) <= L(j)
  <2> HIDE DEF walk
  <2> QED BY <1>1, LeftFalls
<1>3. /\ n \in 0..m /\ Len(matches) = n
      /\ \A k \in 1..n :
           /\ matches[k].order = walk[k]
           /\ matches[k].quantity = IF L(k - 1) <= rem(k) THEN L(k - 1) ELSE rem(k)
           /\ L(k - 1) > 0
  BY DEF PlanOK
<1>4. /\ m \in Nat /\ DOMAIN walk = 1..m
      /\ \A k \in 1..m : walk[k] \in DOMAIN live
      /\ \A i, j \in 1..m : i < j => walk[i] # walk[j]
  BY <1>1 DEF WalkOK
<1> HIDE DEF walk, m, L, rem, matches
<1>5. n \in Nat /\ \A k \in 1..n : k \in 1..m
  BY <1>3, <1>4
<1>6. PICK after : /\ after[0] = Book /\ AfterMatches(matches) = after[n]
                   /\ \A k \in 1..n : after[k] = ApplyMatch(after[k - 1], matches[k])
                   /\ \A k \in 0..(n - 1) : AtStage(in, k, after[k])
                   /\ \A k \in 1..n : matches[k].quantity = live[Walk(in)[k]].remaining => AtStage(in, k, after[k])
  BY MatchingStages DEF matches
<1> DEFINE Whole(k) == Sound(after[k]) /\ after[k].live = [o \in rest(k) |-> live[o]]
<1>7. \A k : AtStage(in, k, after[k]) => Whole(k)
  BY DEF AtStage, walk
<1>8. \A k \in 0..(n - 1) : Whole(k)
  BY <1>6, <1>7
<1>9. \A k \in 1..n : matches[k].quantity = rem(k) => Whole(k)
  BY <1>6, <1>7 DEF rem, walk
<1> DEFINE end == after[n]
<1>10. CASE n = 0
  <2>1. end = Book
    BY <1>6, <1>10
  <2>2. \A k \in 1..n : FALSE
    BY <1>10
  <2>3. Sound(end) /\ end.live = live
    BY <2>1, BookParts
  <2> HIDE DEF end
  <2>4. MatchedOK(in, n, end)
    BY <1>10, <2>1, <2>2, <2>3 DEF MatchedOK
  <2> QED BY <1>6, <2>4 DEF end, matches
<1>11. CASE n > 0
  <2>1. n \in 1..n /\ n - 1 \in 0..(n - 1) /\ n \in 1..m /\ n \in 0..m /\ n - 1 \in 0..m
    BY <1>3, <1>4, <1>5, <1>11
  <2>2. Whole(n - 1)
    BY <1>8, <2>1
  <2>3. L(n) = L(n - 1) - rem(n) /\ rem(n) \in Nat /\ L(n - 1) \in Int /\ L(n - 1) > 0 /\ L(n) \in Int
    BY <1>2, <1>3, <2>1
  <2>4. matches[n].quantity = IF L(n - 1) <= rem(n) THEN L(n - 1) ELSE rem(n)
    BY <1>3, <2>1
  <2>5. \A k \in 1..(n - 1) : walk[k] \notin rest(n - 1)
    OBVIOUS
  <2>6. \A o \in DOMAIN live : (\A k \in 1..n : o # walk[k]) => o \in rest(n) /\ o \in rest(n - 1)
    BY <1>5
  <2>7. walk[n] \in rest(n - 1)
    BY <1>4, <2>1
  <2>8. rest(n) \subseteq DOMAIN live /\ rest(n - 1) \subseteq DOMAIN live /\ \A k \in 1..n : walk[k] \notin rest(n)
    OBVIOUS
  <2> HIDE DEF rest
  <2>9. CASE L(n) >= 0
    <3>1. matches[n].quantity = rem(n)
      BY <2>3, <2>4, <2>9
    <3>2. Whole(n)
      BY <1>9, <2>1, <3>1
    <3>3. Sound(end) /\ DOMAIN end.live = rest(n) /\ \A o \in rest(n) : end.live[o] = live[o]
      BY <3>2
    <3>4. ~(L(n) < 0)
      BY <2>3, <2>9
    <3>5. n # 0
      BY <1>11
    <3> HIDE DEF end
    <3>6. MatchedOK(in, n, end)
      BY <2>6, <2>8, <3>3, <3>4, <3>5 DEF MatchedOK, L, walk
    <3> QED BY <1>6, <3>6 DEF end, matches
  <2>10. CASE L(n) < 0
    <3> DEFINE b == after[n - 1]
               x == walk[n]
    <3>1. Sound(b) /\ DOMAIN b.live = rest(n - 1) /\ \A o \in rest(n - 1) : b.live[o] = live[o]
      BY <2>2
    <3>2. matches[n].quantity = L(n - 1) /\ matches[n].order = x
      BY <1>3, <2>1, <2>3, <2>4, <2>10
    <3>3. b.live[x].remaining = rem(n) /\ x \in DOMAIN b.live /\ b.live[x] = live[x]
      BY <2>7, <3>1 DEF rem
    <3>4. matches[n].quantity \in Nat /\ matches[n].quantity < rem(n)
      BY <2>3, <2>10, <3>2
    <3>5. end = ApplyMatch(b, matches[n])
      BY <1>6, <2>1
    <3> HIDE DEF b, end
    <3>6. Sound(end) /\ end.live = [b.live EXCEPT ![x].remaining = @ - matches[n].quantity]
      BY <3>1, <3>2, <3>3, <3>4, <3>5, MatchedPart
    <3> HIDE DEF x
    <3>7. end.live = [b.live EXCEPT ![x] = [b.live[x] EXCEPT !.remaining = b.live[x].remaining - matches[n].quantity]]
      BY <3>6, OneRemaining
    <3>8. b.live[x].remaining - matches[n].quantity = 0 - L(n)
      BY <2>3, <3>2, <3>3
    <3>9. end.live[x] = [live[x] EXCEPT !.remaining = 0 - L(n)]
      BY <3>3, <3>7, <3>8
    <3>10. DOMAIN end.live = rest(n - 1) /\ \A o \in rest(n - 1) : o # x => end.live[o] = live[o]
      BY <3>1, <3>7
    <3>11. \A k \in 1..n : k < n => walk[k] \notin DOMAIN end.live
      BY <1>5, <2>5, <3>10
    <3>12. ~(L(n) >= 0) /\ n # 0
      BY <1>11, <2>3, <2>10
    <3>13. \A o \in DOMAIN live : (\A k \in 1..n : o # walk[k]) => o \in DOMAIN end.live /\ end.live[o] = live[o]
      BY <2>1, <2>6, <3>10 DEF x
    <3>14. DOMAIN end.live \subseteq DOMAIN live /\ x \in DOMAIN end.live
      BY <2>7, <2>8, <3>10 DEF x
    <3>15. MatchedOK(in, n, end)
      BY <3>6, <3>9, <3>11, <3>12, <3>13, <3>14 DEF MatchedOK, L, walk, x
    <3> QED BY <1>6, <3>15 DEF end, matches
  <2> QED BY <2>3, <2>9, <2>10
<1> QED BY <1>5, <1>10, <1>11

-----------------------------------------------------------------------------
(* 7. Checkpoints. *)

LEMMA ByPriorityLists ==
  ASSUME Sound(Book)
  PROVE  /\ Cardinality(DOMAIN live) \in Nat
         /\ DOMAIN ByPriority = 1..Cardinality(DOMAIN live)
         /\ Len(ByPriority) = Cardinality(DOMAIN live)
         /\ \A k \in 1..Cardinality(DOMAIN live) : ByPriority[k] \in DOMAIN live
         /\ \A o \in DOMAIN live : \E k \in 1..Cardinality(DOMAIN live) : ByPriority[k] = o
         /\ \A i, j \in 1..Cardinality(DOMAIN live) :
              i < j => live[ByPriority[i]].priority < live[ByPriority[j]].priority
<1> DEFINE S == DOMAIN live
           R == {e \in S \X S : live[e[1]].priority < live[e[2]].priority}
           n == Cardinality(S)
           l == InOrder(S, R)
<1>1. Nodes(live)
  BY BookParts DEF Sound
<1>2. \A o \in S : live[o].priority \in Nat
  BY <1>1, NodeFields
<1>3. \A a, b \in S : <<a, b>> \in R <=> live[a].priority < live[b].priority
  OBVIOUS
<1> HIDE DEF R
<1>4. StrictlyOrders(S, R)
  <2>1. \A a, b \in S : <<a, b>> \in R => <<b, a>> \notin R
    BY <1>2, <1>3
  <2>2. \A a, b, c \in S : <<a, b>> \in R /\ <<b, c>> \in R => <<a, c>> \in R
    BY <1>2, <1>3
  <2>3. \A a, b \in S : a # b => <<a, b>> \in R \/ <<b, a>> \in R
    <3> TAKE a, b \in S
    <3>1. a # b => live[a].priority # live[b].priority
      BY <1>1 DEF Nodes
    <3> QED BY <1>2, <1>3, <3>1
  <2> QED BY <2>1, <2>2, <2>3 DEF StrictlyOrders
<1>5. IsFiniteSet(S)
  BY <1>1 DEF Nodes
<1>6. n \in Nat /\ Lists(l, S, R)
  BY <1>4, <1>5, InOrderLists
<1>7. ByPriority = l
  BY DEF ByPriority, R
<1> HIDE DEF l, n
<1>8. /\ l = [k \in 1..n |-> l[k]]
      /\ \A k \in 1..n : l[k] \in S
      /\ \A x \in S : \E k \in 1..n : l[k] = x
      /\ \A i, j \in 1..n : i < j => <<l[i], l[j]>> \in R
  BY <1>6 DEF Lists, n
<1>9. DOMAIN l = 1..n /\ Len(l) = n
  <2>1. DOMAIN l = 1..n
    BY <1>8
  <2>2. l \in Seq(S)
    BY <1>6, <1>8
  <2> QED BY <1>6, <2>1, <2>2
<1>10. \A i, j \in 1..n : i < j => live[l[i]].priority < live[l[j]].priority
  <2> TAKE i, j \in 1..n
  <2> HAVE i < j
  <2>1. l[i] \in S /\ l[j] \in S /\ <<l[i], l[j]>> \in R
    BY <1>8
  <2> QED BY <1>3, <2>1
<1> QED BY <1>6, <1>7, <1>8, <1>9, <1>10 DEF n

\* Every level holds no more than its total can.
Bounded(book) == \A s \in Sides, p \in Prices : book.levels[s][p].total <= MaxAggregate

\* Linking the orders again one by one, in priority order: after k of them.
Regrown(book, k) ==
  /\ Sound(book)
  /\ book.live = [o \in {ByPriority[i] : i \in 1..k} |-> live[o]]

LEMMA RegrownTotals ==
  ASSUME Sound(Book), Bounded(Book), NEW k \in 0..Len(ByPriority), NEW book, Regrown(book, k)
  PROVE  Bounded(book)
<1> SUFFICES ASSUME NEW s \in Sides, NEW p \in Prices
             PROVE  book.levels[s][p].total <= MaxAggregate
  BY DEF Bounded
<1> DEFINE S == Mine(book.live, s, p)
           T == Mine(live, s, p)
<1>1. book.levels[s][p].total = Total(book.live, S) /\ levels[s][p].total = Total(live, T)
  BY BookParts DEF Regrown, Sound, LevelOK
<1>2. DOMAIN book.live \subseteq DOMAIN live /\ \A o \in DOMAIN book.live : book.live[o] = live[o]
  BY ByPriorityLists DEF Regrown
<1>3. S \subseteq T /\ S \subseteq DOMAIN book.live /\ T \subseteq DOMAIN live
  BY <1>2 DEF Mine
<1> HIDE DEF S, T
<1>4. Counted(book.live, S) /\ Counted(live, T)
  BY <1>3, MineCounted, BookParts DEF Regrown, Sound
<1>5. \A o \in S : book.live[o].remaining <= live[o].remaining
  BY <1>2, <1>3, <1>4 DEF Counted
<1>6. Total(book.live, S) <= Total(live, T)
  BY <1>3, <1>4, <1>5, TotalFalls
<1>7. Total(book.live, S) \in Nat /\ Total(live, T) \in Nat
  BY <1>4, TotalType
<1>8. levels[s][p].total <= MaxAggregate
  BY BookParts DEF Bounded
<1>9. MaxAggregate \in Nat
  BY LadderAssumption
<1> QED BY <1>1, <1>6, <1>7, <1>8, <1>9

\* restore accepts what checkpoint captured and rebuilds the same book from it.
LEMMA RoundTrip ==
  ASSUME Sound(Book), Bounded(Book), \A o \in DOMAIN live : live[o].priority < nextPriority
  PROVE  RestoreRoundTrip
<1> DEFINE l == ByPriority
           n == Len(l)
           resting == Checkpoint.resting
           books == Relinked(resting)
<1>1. /\ n \in Nat /\ DOMAIN l = 1..n
      /\ \A k \in 1..n : l[k] \in DOMAIN live
      /\ \A o \in DOMAIN live : \E k \in 1..n : l[k] = o
      /\ \A i, j \in 1..n : i < j => live[l[i]].priority < live[l[j]].priority
  BY ByPriorityLists
<1>2. Nodes(live)
  BY BookParts DEF Sound
<1>3. resting = [k \in DOMAIN l |-> [id |-> l[k], node |-> live[l[k]]]] /\ Checkpoint.next = nextPriority
  BY DEF Checkpoint, RestingOf
<1> HIDE DEF l, resting
<1>4. \A k \in 1..n : resting[k].id = l[k] /\ resting[k].node = live[l[k]]
  BY <1>1, <1>3
<1>5. DOMAIN resting = 1..n /\ Len(resting) = n
  <2>1. DOMAIN resting = 1..n
    BY <1>1, <1>3
  <2> DEFINE X == {resting[k] : k \in 1..n}
  <2>2. resting = [k \in 1..n |-> resting[k]] /\ \A k \in 1..n : resting[k] \in X
    BY <1>1, <1>3
  <2> HIDE DEF X
  <2>3. resting \in Seq(X)
    BY <1>1, <2>2
  <2> QED BY <1>1, <2>1, <2>3
<1>6. /\ books[0] = NoBook
      /\ \A k \in 1..n : books[k] = Link(books[k - 1], l[k], live[l[k]])
  <2>1. Len(resting) \in Nat
    BY <1>1, <1>5
  <2>2. /\ books[0] = NoBook
        /\ \A k \in 1..n : books[k] = Link(books[k - 1], resting[k].id, resting[k].node)
    BY <1>5, <2>1, RelinkedSteps
  <2> HIDE DEF books
  <2> QED BY <1>4, <2>2
<1> HIDE DEF books
<1>7. Regrown(books[0], 0)
  <2>1. {l[i] : i \in 1..0} = {}
    OBVIOUS
  <2>2. NoBook.live = [o \in {l[i] : i \in 1..0} |-> live[o]]
    BY <2>1, EmptyBook
  <2> QED BY <1>6, <2>2, EmptyBook DEF Regrown, l
<1>8. ASSUME NEW k \in 1..n, Regrown(books[k - 1], k - 1)
      PROVE  /\ Regrown(books[k], k)
             /\ l[k] \notin DOMAIN books[k - 1].live
             /\ books[k - 1].levels[live[l[k]].side][live[l[k]].price].total + live[l[k]].remaining
                  <= MaxAggregate
  <2> DEFINE b == books[k - 1]
             o == l[k]
             node == live[o]
             S(j) == {l[i] : i \in 1..j}
  <2>1. Sound(b) /\ b.live = [x \in S(k - 1) |-> live[x]]
    BY <1>8 DEF Regrown, l
  <2>2. /\ o \in DOMAIN live /\ o \in Orders
        /\ node \in OrderNode /\ node.remaining <= node.quantity /\ node.priority \in Nat
        /\ node.side \in Sides /\ node.price \in Prices
    BY <1>1, <1>2, NodeFields DEF Nodes
  <2>3. \A x \in S(k - 1) : x \in DOMAIN live /\ live[x].priority < node.priority
    BY <1>1
  <2>4. o \notin S(k - 1)
    BY <2>2, <2>3
  <2>5. S(k) = S(k - 1) \cup {o}
    <3>1. \A i : i \in 1..k <=> i \in 1..(k - 1) \/ i = k
      OBVIOUS
    <3> QED BY <3>1
  <2> HIDE DEF S, b, node
  <2>6. /\ o \notin DOMAIN b.live
        /\ \A x \in DOMAIN b.live : b.live[x].priority < node.priority
    BY <2>1, <2>3, <2>4
  <2>7. books[k] = Link(b, o, node)
    BY <1>6 DEF b, node
  <2> HIDE DEF o
  <2>8. /\ Sound(Link(b, o, node))
        /\ Link(b, o, node).live = [x \in DOMAIN b.live \cup {o} |-> IF x = o THEN node ELSE b.live[x]]
        /\ Link(b, o, node).levels[node.side][node.price].total
             = b.levels[node.side][node.price].total + node.remaining
    <3>1. /\ Sound(Link(b, o, node))
          /\ Link(b, o, node).live = [x \in DOMAIN b.live \cup {o} |-> IF x = o THEN node ELSE b.live[x]]
          /\ LinkTotals(b, node, Link(b, o, node))
      BY <2>1, <2>2, <2>6, Linking
    <3> QED BY <2>2, <3>1 DEF LinkTotals
  <2>9. books[k].live = [x \in S(k) |-> live[x]]
    <3>1. books[k].live = [x \in S(k) |-> IF x = o THEN node ELSE b.live[x]]
      BY <2>1, <2>5, <2>7, <2>8
    <3>2. \A x \in S(k) : (IF x = o THEN node ELSE b.live[x]) = live[x]
      BY <2>1, <2>5 DEF node
    <3> QED BY <3>1, <3>2
  <2>10. Regrown(books[k], k)
    BY <2>7, <2>8, <2>9 DEF Regrown, S, l
  <2>11. Bounded(books[k])
    <3>1. k \in 0..Len(ByPriority)
      BY <1>1 DEF l
    <3> QED BY <2>10, <3>1, RegrownTotals
  <2>12. b.levels[node.side][node.price].total + node.remaining <= MaxAggregate
    BY <2>2, <2>7, <2>8, <2>11 DEF Bounded
  <2> QED BY <2>6, <2>10, <2>12 DEF b, o, node
<1>9. \A k \in 0..n : Regrown(books[k], k)
  <2> DEFINE G == {k \in 0..n : Regrown(books[k], k)}
  <2>1. 0 \in G
    BY <1>1, <1>7
  <2>2. ASSUME NEW k \in 0..(n - 1), k \in G PROVE k + 1 \in G
    <3> DEFINE j == k + 1
    <3>1. j \in 1..n /\ j - 1 = k /\ j \in 0..n
      BY <1>1
    <3>2. Regrown(books[k], k)
      BY <2>2
    <3> HIDE DEF j
    <3>3. Regrown(books[j], j)
      BY <1>8, <3>1, <3>2
    <3>4. j \in G
      BY <3>1, <3>3
    <3> QED BY <3>4 DEF j
  <2> HIDE DEF G
  <2>3. \A k \in 0..n : k \in G
    BY <1>1, <2>1, <2>2, Climb
  <2> QED BY <2>3 DEF G
<1>10. Restored(Checkpoint) = Book
  <2>1. Restored(Checkpoint) = books[n]
    BY <1>5 DEF Restored, books, resting
  <2>2. Sound(books[n]) /\ books[n].live = [o \in {l[i] : i \in 1..n} |-> live[o]]
    BY <1>1, <1>9 DEF Regrown, l
  <2>3. {l[i] : i \in 1..n} = DOMAIN live
    BY ZenonT(30), <1>1
  <2>4. live = [o \in DOMAIN live |-> live[o]]
    BY <1>2 DEF Nodes
  <2>5. books[n].live = Book.live
    BY <2>2, <2>3, <2>4, BookParts
  <2> QED BY <2>1, <2>2, <2>5, OneBook
<1>11. RestoreAccepts(Checkpoint)
  <2> SUFFICES ASSUME NEW k \in 1..n
               PROVE  LET node == resting[k].node
                          book == books[k - 1]
                      IN /\ node.remaining # 0 /\ node.remaining <= node.quantity
                         /\ node.priority < Checkpoint.next
                         /\ resting[k].id \notin DOMAIN book.live
                         /\ book.levels[node.side][node.price].total + node.remaining <= MaxAggregate
    BY Zenon, <1>5 DEF RestoreAccepts, resting, books
  <2>1. k - 1 \in 0..n
    BY <1>1
  <2>2. Regrown(books[k - 1], k - 1)
    BY <1>9, <2>1
  <2>3. /\ l[k] \notin DOMAIN books[k - 1].live
        /\ books[k - 1].levels[live[l[k]].side][live[l[k]].price].total + live[l[k]].remaining
             <= MaxAggregate
    BY <1>8, <2>2
  <2>4. /\ live[l[k]].remaining # 0 /\ live[l[k]].remaining <= live[l[k]].quantity
        /\ live[l[k]].priority < nextPriority
    BY <1>1, <1>2, NodeFields
  <2> QED BY ZenonT(30), <1>3, <1>4, <2>3, <2>4
<1> QED BY <1>10, <1>11 DEF RestoreRoundTrip

-----------------------------------------------------------------------------
(* 8. Submitting and cancelling. *)

Uncrossed(nodes) ==
  \A a, b \in DOMAIN nodes :
    nodes[a].side = "Buy" /\ nodes[b].side = "Sell" => nodes[a].price < nodes[b].price

\* A book between two operations, the next priority number being given.
BookOK(book, next) ==
  /\ Sound(book) /\ Bounded(book) /\ Uncrossed(book.live)
  /\ \A o \in DOMAIN book.live : book.live[o].priority < next

\* Some orders have gone or lost part of what they had, none has changed
\* otherwise.
Shrunk(new, old) ==
  /\ DOMAIN new \subseteq DOMAIN old
  /\ \A o \in DOMAIN new :
       /\ new[o].trader = old[o].trader
       /\ new[o].side = old[o].side /\ new[o].price = old[o].price
       /\ new[o].priority = old[o].priority /\ new[o].remaining <= old[o].remaining

LEMMA ShrunkTotals ==
  ASSUME NEW a, NEW b, Sound(a), Sound(b), Shrunk(a.live, b.live), NEW s \in Sides, NEW p \in Prices
  PROVE  /\ a.levels[s][p].total \in Nat /\ b.levels[s][p].total \in Nat
         /\ a.levels[s][p].total <= b.levels[s][p].total
         /\ \A o \in Mine(b.live, s, p) :
              (o \in DOMAIN a.live => a.live[o].remaining < b.live[o].remaining)
                => a.levels[s][p].total < b.levels[s][p].total
<1> DEFINE S == Mine(a.live, s, p)
           T == Mine(b.live, s, p)
<1>1. a.levels[s][p].total = Total(a.live, S) /\ b.levels[s][p].total = Total(b.live, T)
  BY DEF Sound, LevelOK
<1>2. S \subseteq T /\ S \subseteq DOMAIN a.live /\ T \subseteq DOMAIN b.live
  BY DEF Mine, Shrunk
<1>3. \A o \in S : a.live[o].remaining <= b.live[o].remaining
  BY DEF Mine, Shrunk
<1> HIDE DEF S, T
<1>4. Counted(a.live, S) /\ Counted(b.live, T) /\ \A o \in T : b.live[o].remaining > 0
  BY <1>2, MineCounted, NodeFields DEF Sound
<1>5. Total(a.live, S) \in Nat /\ Total(b.live, T) \in Nat
  BY <1>4, TotalType
<1>6. Total(a.live, S) <= Total(b.live, T)
  BY <1>2, <1>3, <1>4, TotalFalls
<1>7. \A o \in T : (o \in S => a.live[o].remaining < b.live[o].remaining)
                     => Total(a.live, S) < Total(b.live, T)
  BY <1>2, <1>3, <1>4, TotalFalls
<1> QED BY <1>1, <1>2, <1>5, <1>6, <1>7 DEF T

\* A book whose orders only shrank is as good as before.
LEMMA ShrunkIsOK ==
  ASSUME NEW a, NEW b, NEW next, Sound(a), BookOK(b, next), Shrunk(a.live, b.live)
  PROVE  BookOK(a, next)
<1>1. Bounded(a)
  <2> SUFFICES ASSUME NEW s \in Sides, NEW p \in Prices PROVE a.levels[s][p].total <= MaxAggregate
    BY DEF Bounded
  <2>1. /\ a.levels[s][p].total \in Nat /\ b.levels[s][p].total \in Nat
        /\ a.levels[s][p].total <= b.levels[s][p].total
    BY ShrunkTotals DEF BookOK
  <2>2. b.levels[s][p].total <= MaxAggregate
    BY DEF BookOK, Bounded
  <2>3. MaxAggregate \in Nat
    BY LadderAssumption
  <2> QED BY <2>1, <2>2, <2>3
<1>2. Uncrossed(a.live)
  BY DEF BookOK, Uncrossed, Shrunk
<1>3. \A o \in DOMAIN a.live : a.live[o].priority < next
  BY DEF BookOK, Shrunk
<1> QED BY <1>1, <1>2, <1>3 DEF BookOK

LEMMA MatchedShrinks ==
  ASSUME Sound(Book), NEW in, Submittable(in), NEW n, PlanOK(in, n), NEW after, MatchedOK(in, n, after)
  PROVE  Shrunk(after.live, live)
<1> DEFINE walk == Walk(in)
           L(k) == LeftAfter(in, walk, k)
<1>1. WalkOK(in, walk)
  BY WalkIsOK DEF Submittable
<1>2. /\ \A k \in 0..Len(walk) : L(k) \in Int
      /\ \A k \in 1..Len(walk) : /\ live[walk[k]].remaining \in Nat
                                 /\ L(k) = L(k - 1) - live[walk[k]].remaining
  <2> HIDE DEF walk
  <2> QED BY <1>1, LeftFalls
<1>3. n \in 0..Len(walk) /\ Len(walk) \in Nat /\ \A k \in 1..n : L(k - 1) > 0
  <2>1. Len(walk) \in Nat
    BY <1>1 DEF WalkOK
  <2>2. n \in 0..Len(walk) /\ \A k \in 1..n : L(k - 1) > 0
    BY DEF PlanOK
  <2> QED BY <2>1, <2>2
<1>4. /\ DOMAIN after.live \subseteq DOMAIN live
      /\ \A k \in 1..n : k < n \/ L(n) >= 0 => walk[k] \notin DOMAIN after.live
      /\ \A o \in DOMAIN live :
           (\A k \in 1..n : o # walk[k]) => o \in DOMAIN after.live /\ after.live[o] = live[o]
      /\ n > 0 /\ L(n) < 0 => after.live[walk[n]] = [live[walk[n]] EXCEPT !.remaining = 0 - L(n)]
  BY DEF MatchedOK
<1> HIDE DEF walk, L
<1>5. ASSUME NEW o \in DOMAIN after.live
      PROVE  /\ after.live[o].trader = live[o].trader
             /\ after.live[o].side = live[o].side /\ after.live[o].price = live[o].price
             /\ after.live[o].priority = live[o].priority /\ after.live[o].remaining <= live[o].remaining
  <2>1. live[o].remaining \in Nat /\ live[o] \in OrderNode /\ o \in DOMAIN live
    BY <1>4, NodeFields, BookParts DEF Sound
  <2>2. CASE \A k \in 1..n : o # walk[k]
    BY <1>4, <2>1, <2>2
  <2>3. CASE \E k \in 1..n : o = walk[k]
    <3>1. PICK k \in 1..n : o = walk[k]
      BY <2>3
    <3>2. k = n /\ ~(L(n) >= 0) /\ n \in 1..Len(walk) /\ n \in 1..n /\ n \in 0..Len(walk) /\ n - 1 \in 0..Len(walk)
      BY <1>3, <1>4, <3>1
    <3>3. L(n) \in Int /\ L(n - 1) \in Int /\ L(n - 1) > 0 /\ L(n) = L(n - 1) - live[o].remaining
      BY <1>2, <1>3, <3>1, <3>2
    <3>4. after.live[o] = [live[o] EXCEPT !.remaining = 0 - L(n)]
      BY <1>4, <3>1, <3>2, <3>3
    <3>5. 0 - L(n) <= live[o].remaining
      BY <2>1, <3>3
    <3> QED BY <2>1, <3>4, <3>5 DEF OrderNode
  <2> QED BY <2>2, <2>3
<1> QED BY <1>4, <1>5 DEF Shrunk

\* The incoming order as it rests.
NewNode(in) ==
  [trader |-> in.trader, side |-> in.side, price |-> in.price, quantity |-> in.quantity,
   remaining |-> Unmatched(in, PlanMatches(in)), priority |-> nextPriority]

\* The book after the matches of an order, and after all of its submission.
Filled(in) == AfterMatches(PlanMatches(in).matches)
Submitted(in) ==
  IF Rests(in, PlanMatches(in)) THEN Link(Filled(in), in.id, NewNode(in)) ELSE Filled(in)
NextAfter(in) == IF Rests(in, PlanMatches(in)) THEN nextPriority + 1 ELSE nextPriority

LEMMA SubmitIs ==
  ASSUME NEW in, Submit(in)
  PROVE  /\ SubmitAccepted(in) /\ live' = Submitted(in).live /\ levels' = Submitted(in).levels
         /\ nextPriority' = NextAfter(in) /\ nextTrade' = nextTrade + Len(PlanMatches(in).matches)
BY DEF Submit, Submitted, Filled, NewNode, NextAfter

LEMMA IncomingFields ==
  ASSUME NEW in \in Incoming
  PROVE  /\ in.id \in Orders /\ in.trader \in Traders /\ in.side \in Sides
         /\ in.price \in Prices \cup {NoPrice} /\ in.quantity \in Quantities
         /\ in.quantity \in Nat \ {0} /\ Submittable(in)
BY LadderAssumption DEF Incoming, Submittable

\* An order rests only when it has consumed everything it crosses.
LEMMA RestingConsumed ==
  ASSUME Sound(Book), NEW in \in Incoming, NEW n, PlanOK(in, n), Rests(in, PlanMatches(in))
  PROVE  /\ n = Len(Walk(in)) /\ in.price \in Prices
         /\ Unmatched(in, PlanMatches(in)) \in Nat \ {0}
         /\ Unmatched(in, PlanMatches(in)) <= in.quantity
         /\ \A o \in DOMAIN Filled(in).live :
              live[o].side = Opposite(in.side) => ~Crosses(in, live[o].price)
<1> DEFINE walk == Walk(in)
           L(k) == LeftAfter(in, walk, k)
           plan == PlanMatches(in)
           left == Unmatched(in, plan)
<1>1. Submittable(in) /\ in.quantity \in Nat
  BY IncomingFields
<1>2. WalkOK(in, walk)
  BY WalkIsOK DEF Submittable, Incoming
<1>3. /\ L(0) = in.quantity /\ \A k \in 0..Len(walk) : L(k) \in Int
      /\ \A k \in 0..Len(walk) : \A j \in 0..k : L(k) <= L(j)
  <2> HIDE DEF walk
  <2> QED BY <1>1, <1>2, LeftFalls
<1>4. /\ n \in 0..Len(walk) /\ (plan.self_trade_prevented <=> n < Len(walk) /\ L(n) > 0)
      /\ left = IF L(n) > 0 THEN L(n) ELSE 0
  BY DEF PlanOK
<1>5. ~plan.self_trade_prevented /\ left # 0 /\ in.price # NoPrice
  BY DEF Rests, IsLimit
<1>6. Len(walk) \in Nat
  BY <1>2 DEF WalkOK
<1>7. MatchedOK(in, n, Filled(in))
  BY <1>1, MatchingIsOK DEF Filled
<1>8. /\ DOMAIN Filled(in).live \subseteq DOMAIN live
      /\ L(n) >= 0 => \A k \in 1..n : walk[k] \notin DOMAIN Filled(in).live
  BY <1>7 DEF MatchedOK
<1> HIDE DEF walk, L, left
<1>9. L(n) > 0 /\ n = Len(walk) /\ L(n) \in Int /\ L(n) <= in.quantity /\ left = L(n)
  BY <1>1, <1>3, <1>4, <1>5, <1>6
<1>10. \A k \in 1..n : walk[k] \notin DOMAIN Filled(in).live
  BY <1>8, <1>9
<1>11. \A o \in DOMAIN live : live[o].side = Opposite(in.side) /\ Crosses(in, live[o].price)
         => \E k \in 1..n : walk[k] = o
  BY <1>2, <1>9 DEF WalkOK
<1>12. \A o \in DOMAIN Filled(in).live : live[o].side = Opposite(in.side) => ~Crosses(in, live[o].price)
  BY <1>8, <1>10, <1>11
<1>13. in.price \in Prices
  BY <1>5, IncomingFields
<1> QED BY <1>1, <1>9, <1>12, <1>13 DEF left, walk

LEMMA SubmittedIsOK ==
  ASSUME BookOK(Book, nextPriority), nextPriority \in Nat, NEW in \in Incoming, SubmitAccepted(in),
         NEW n, PlanOK(in, n)
  PROVE  /\ MatchedOK(in, n, Filled(in)) /\ Shrunk(Filled(in).live, live)
         /\ BookOK(Submitted(in), NextAfter(in))
         /\ Rests(in, PlanMatches(in)) => LinkTotals(Filled(in), NewNode(in), Submitted(in))
         /\ Submitted(in).live
              = IF Rests(in, PlanMatches(in))
                THEN [x \in DOMAIN Filled(in).live \cup {in.id} |->
                        IF x = in.id THEN NewNode(in) ELSE Filled(in).live[x]]
                ELSE Filled(in).live
<1> DEFINE filled == Filled(in)
           node == NewNode(in)
           after == Submitted(in)
<1>1. Submittable(in) /\ in.quantity \in Nat /\ in.id \in Orders
  BY IncomingFields
<1>2. Sound(Book)
  BY DEF BookOK
<1>3. MatchedOK(in, n, filled)
  BY <1>1, <1>2, MatchingIsOK DEF Filled
<1>4. Shrunk(filled.live, live)
  BY <1>1, <1>2, <1>3, MatchedShrinks
<1>5. BookOK(filled, nextPriority)
  <2>1. Sound(filled)
    BY <1>3 DEF MatchedOK
  <2> QED BY <1>4, <2>1, ShrunkIsOK, BookParts
<1>6. CASE Rests(in, PlanMatches(in))
  <2>1. /\ in.price \in Prices /\ node.remaining \in Nat \ {0} /\ node.remaining <= in.quantity
        /\ \A o \in DOMAIN filled.live : live[o].side = Opposite(in.side) => ~Crosses(in, live[o].price)
    BY <1>2, <1>6, RestingConsumed DEF NewNode
  <2>2. /\ node.side = in.side /\ node.price = in.price /\ node.quantity = in.quantity
        /\ node.priority = nextPriority /\ node.remaining = Unmatched(in, PlanMatches(in))
    BY DEF NewNode
  <2>3. node \in OrderNode
    BY <2>1, IncomingFields DEF NewNode, OrderNode
  <2>4. /\ in.id \notin DOMAIN live
        /\ levels[in.side][in.price].total + node.remaining <= MaxAggregate
    BY <1>6, <2>2 DEF SubmitAccepted
  <2>5. in.id \notin DOMAIN filled.live
    BY <1>4, <2>4 DEF Shrunk
  <2>6. \A x \in DOMAIN filled.live : filled.live[x].priority < nextPriority
    BY <1>5 DEF BookOK
  <2>7. after = Link(filled, in.id, node) /\ NextAfter(in) = nextPriority + 1
    BY <1>6 DEF Submitted, NextAfter
  <2>8. Sound(filled)
    BY <1>5 DEF BookOK
  <2> HIDE DEF node, filled, after
  <2>9. /\ Sound(after)
        /\ after.live = [x \in DOMAIN filled.live \cup {in.id} |-> IF x = in.id THEN node ELSE filled.live[x]]
        /\ LinkTotals(filled, node, after)
    <3> DEFINE o == in.id
    <3>1. o \in Orders /\ o \notin DOMAIN filled.live /\ node.remaining <= node.quantity
      BY <1>1, <2>1, <2>2, <2>5
    <3>2. \A x \in DOMAIN filled.live : filled.live[x].priority < node.priority
      BY <2>2, <2>6
    <3> HIDE DEF o
    <3>3. /\ Sound(Link(filled, o, node))
          /\ Link(filled, o, node).live
               = [x \in DOMAIN filled.live \cup {o} |-> IF x = o THEN node ELSE filled.live[x]]
          /\ LinkTotals(filled, node, Link(filled, o, node))
      BY <2>3, <2>8, <3>1, <3>2, Linking
    <3> QED BY <2>7, <3>3 DEF o
  <2>10. Bounded(after)
    <3> SUFFICES ASSUME NEW s \in Sides, NEW p \in Prices PROVE after.levels[s][p].total <= MaxAggregate
      BY DEF Bounded
    <3>1. after.levels[s][p].total = IF s = node.side /\ p = node.price
                                     THEN filled.levels[s][p].total + node.remaining
                                     ELSE filled.levels[s][p].total
      BY <2>9 DEF LinkTotals
    <3>2. filled.levels[s][p].total <= MaxAggregate
      BY <1>5 DEF BookOK, Bounded
    <3>3. /\ filled.levels[s][p].total \in Nat /\ levels[s][p].total \in Nat
          /\ filled.levels[s][p].total <= levels[s][p].total
      BY <1>2, <1>4, <2>8, ShrunkTotals, BookParts DEF filled
    <3>4. MaxAggregate \in Nat
      BY LadderAssumption
    <3> QED BY <2>1, <2>2, <2>4, <3>1, <3>2, <3>3, <3>4
  <2>11. Uncrossed(after.live)
    <3> SUFFICES ASSUME NEW a \in DOMAIN after.live, NEW b \in DOMAIN after.live,
                        after.live[a].side = "Buy", after.live[b].side = "Sell"
                 PROVE  after.live[a].price < after.live[b].price
      BY DEF Uncrossed
    <3>1. \A x \in DOMAIN after.live : x = in.id \/ x \in DOMAIN filled.live
      BY <2>9
    <3>2. /\ after.live[in.id] = node
          /\ \A x \in DOMAIN filled.live : after.live[x] = filled.live[x]
      BY <2>5, <2>9
    <3>3. \A x \in DOMAIN filled.live : /\ live[x].side = filled.live[x].side
                                        /\ live[x].price = filled.live[x].price
                                        /\ filled.live[x].price \in Nat
      BY <1>4, <2>8, NodeFields, LadderAssumption DEF Shrunk, filled, Sound
    <3>4. in.price \in Nat /\ in.price # NoPrice
      BY <2>1, LadderAssumption
    <3>5. CASE a = in.id /\ b \in DOMAIN filled.live
      <4>1. in.side = "Buy" /\ live[b].side = "Sell"
        BY <2>2, <3>2, <3>3, <3>5
      <4>2. ~Crosses(in, live[b].price)
        BY <2>1, <3>5, <4>1 DEF Opposite
      <4>3. ~(in.price >= live[b].price)
        BY <3>4, <4>1, <4>2 DEF Crosses, IsLimit
      <4> QED BY <2>2, <3>2, <3>3, <3>4, <3>5, <4>3
    <3>6. CASE b = in.id /\ a \in DOMAIN filled.live
      <4>1. in.side = "Sell" /\ live[a].side = "Buy"
        BY <2>2, <3>2, <3>3, <3>6
      <4>2. ~Crosses(in, live[a].price)
        BY <2>1, <3>6, <4>1 DEF Opposite
      <4>3. ~(in.price <= live[a].price)
        BY <3>4, <4>1, <4>2 DEF Crosses, IsLimit
      <4> QED BY <2>2, <3>2, <3>3, <3>4, <3>6, <4>3
    <3>7. CASE a \in DOMAIN filled.live /\ b \in DOMAIN filled.live
      BY <1>5, <3>2, <3>7 DEF BookOK, Uncrossed
    <3>8. CASE a = in.id /\ b = in.id
      BY <3>8
    <3> QED BY <3>1, <3>5, <3>6, <3>7, <3>8
  <2>12. \A o \in DOMAIN after.live : after.live[o].priority < nextPriority + 1
    <3> TAKE o \in DOMAIN after.live
    <3>1. CASE o = in.id
      BY <2>2, <2>9, <3>1
    <3>2. CASE o # in.id
      <4>1. o \in DOMAIN filled.live /\ after.live[o] = filled.live[o]
        BY <2>9, <3>2
      <4>2. filled.live[o].priority \in Nat
        BY <2>8, <4>1, NodeFields DEF Sound
      <4> QED BY <2>6, <4>1, <4>2
    <3> QED BY <3>1, <3>2
  <2>13. BookOK(after, NextAfter(in))
    BY <2>7, <2>9, <2>10, <2>11, <2>12 DEF BookOK
  <2> QED BY <1>3, <1>4, <1>6, <2>9, <2>13 DEF after, filled, node
<1>7. CASE ~Rests(in, PlanMatches(in))
  <2>1. after = filled /\ NextAfter(in) = nextPriority
    BY <1>7 DEF Submitted, NextAfter
  <2> HIDE DEF after, filled
  <2> QED BY <1>3, <1>4, <1>5, <1>7, <2>1 DEF after, filled
<1> QED BY <1>6, <1>7

LEMMA UnlinkedIsOK ==
  ASSUME NEW book, NEW next, BookOK(book, next), NEW o \in DOMAIN book.live
  PROVE  /\ BookOK(Unlink(book, o), next)
         /\ Unlink(book, o).live = [x \in DOMAIN book.live \ {o} |-> book.live[x]]
<1> DEFINE after == Unlink(book, o)
<1>1. Sound(book)
  BY DEF BookOK
<1>2. Sound(after) /\ after.live = [x \in DOMAIN book.live \ {o} |-> book.live[x]]
  BY <1>1, Unlinking
<1> HIDE DEF after
<1>3. Shrunk(after.live, book.live)
  <2> SUFFICES ASSUME NEW x \in DOMAIN book.live, x # o
               PROVE  book.live[x].remaining <= book.live[x].remaining
    BY <1>2 DEF Shrunk
  <2> QED BY <1>1, NodeFields DEF Sound
<1>4. BookOK(after, next)
  BY <1>2, <1>3, ShrunkIsOK
<1> QED BY <1>2, <1>4 DEF after

\* The inductive invariant of the book.
BookInv ==
  /\ BookOK(Book, nextPriority)
  /\ nextPriority \in 1..(MaxPriority + 1)
  /\ nextTrade \in 1..(MaxTrade + 1)

LEMMA EmptyBookIsOK == \A next : BookOK(NoBook, next)
<1>1. Bounded(NoBook)
  <2> SUFFICES ASSUME NEW s \in Sides, NEW p \in Prices PROVE NoBook.levels[s][p].total <= MaxAggregate
    BY DEF Bounded
  <2>1. NoBook.levels[s][p].total = 0
    BY DEF NoBook, EmptyLevel
  <2> QED BY <2>1, LadderAssumption
<1> QED BY <1>1, EmptyBook DEF BookOK, Uncrossed

LEMMA BookInit == Init => BookInv
<1> SUFFICES ASSUME Init PROVE BookInv
  OBVIOUS
<1>1. Book = NoBook
  BY DEF Init, Book, NoBook
<1>2. 1 \in 1..(MaxPriority + 1) /\ 1 \in 1..(MaxTrade + 1)
  BY LadderAssumption
<1> QED BY <1>1, <1>2, EmptyBookIsOK DEF BookInv, Init

\* A submission with the numbers it needs leaves them in range.
LEMMA SubmitKeepsNumbers ==
  ASSUME BookInv, NEW in \in Incoming, Submit(in), NEW n, PlanOK(in, n)
  PROVE  /\ nextTrade' = nextTrade + n /\ n \in Nat
         /\ nextTrade' \in 1..(MaxTrade + 1)
         /\ nextPriority' = NextAfter(in)
         /\ nextPriority' \in 1..(MaxPriority + 1)
<1>1. Sound(Book) /\ Submittable(in)
  BY IncomingFields DEF BookInv, BookOK
<1>2. WalkOK(in, Walk(in))
  BY <1>1, WalkIsOK DEF Submittable
<1>3. Len(Walk(in)) \in Nat
  BY <1>2 DEF WalkOK
<1>4. n \in 0..Len(Walk(in)) /\ Len(PlanMatches(in).matches) = n
  BY DEF PlanOK
<1>5. /\ nextPriority' = NextAfter(in) /\ nextTrade' = nextTrade + Len(PlanMatches(in).matches)
      /\ SubmitAccepted(in)
  BY SubmitIs
<1>6. /\ nextTrade + Len(PlanMatches(in).matches) <= MaxTrade + 1
      /\ Rests(in, PlanMatches(in)) => nextPriority <= MaxPriority
  BY <1>5 DEF SubmitAccepted
<1>7. /\ nextPriority \in 1..(MaxPriority + 1) /\ nextTrade \in 1..(MaxTrade + 1)
      /\ MaxPriority \in Nat /\ MaxTrade \in Nat
  BY LadderAssumption DEF BookInv
<1>8. NextAfter(in) \in 1..(MaxPriority + 1)
  BY <1>6, <1>7 DEF NextAfter
<1> QED BY <1>3, <1>4, <1>5, <1>6, <1>7, <1>8

LEMMA SubmitKeepsBook ==
  ASSUME BookInv, NEW in \in Incoming, Submit(in)
  PROVE  BookInv'
<1>1. Sound(Book) /\ Submittable(in) /\ nextPriority \in Nat
  BY IncomingFields, LadderAssumption DEF BookInv, BookOK
<1>2. PICK n : PlanOK(in, n)
  BY <1>1, PlanIsOK
<1>3. SubmitAccepted(in) /\ live' = Submitted(in).live /\ levels' = Submitted(in).levels
  BY SubmitIs
<1>4. BookOK(Submitted(in), NextAfter(in))
  BY <1>1, <1>2, <1>3, SubmittedIsOK DEF BookInv
<1>5. Submitted(in) = [live |-> live', levels |-> levels']
  BY <1>3, <1>4 DEF BookOK, Sound
<1>6. /\ nextTrade' \in 1..(MaxTrade + 1) /\ nextPriority' = NextAfter(in)
      /\ nextPriority' \in 1..(MaxPriority + 1)
  BY <1>2, SubmitKeepsNumbers
<1>7. BookOK(Book', nextPriority')
  BY <1>4, <1>5, <1>6 DEF Book
<1> QED BY <1>6, <1>7 DEF BookInv

LEMMA CancelKeepsBook ==
  ASSUME BookInv, NEW o, Cancel(o)
  PROVE  BookInv' /\ o \in DOMAIN live /\ live' = [x \in DOMAIN live \ {o} |-> live[x]]
<1>1. /\ o \in DOMAIN live /\ live' = Unlink(Book, o).live /\ levels' = Unlink(Book, o).levels
      /\ nextPriority' = nextPriority /\ nextTrade' = nextTrade
  BY DEF Cancel
<1>2. /\ BookOK(Unlink(Book, o), nextPriority)
      /\ Unlink(Book, o).live = [x \in DOMAIN live \ {o} |-> live[x]]
  BY <1>1, UnlinkedIsOK, BookParts DEF BookInv
<1>3. Unlink(Book, o) = [live |-> live', levels |-> levels']
  BY <1>1, <1>2 DEF BookOK, Sound
<1>4. BookOK(Book', nextPriority')
  BY <1>1, <1>2, <1>3 DEF Book
<1> QED BY <1>1, <1>2, <1>4 DEF BookInv

\* What the invariant says of the book is what a run checks.
LEMMA BookInvIsConsistent == BookInv => BookConsistent
<1> SUFFICES ASSUME BookInv PROVE BookConsistent
  OBVIOUS
<1>1. Sound(Book) /\ Bounded(Book) /\ Uncrossed(live) /\ \A o \in DOMAIN live : live[o].priority < nextPriority
  BY BookParts DEF BookInv, BookOK
<1>2. TypeOK
  <2>1. Nodes(live)
    BY <1>1, BookParts DEF Sound
  <2> QED BY <2>1 DEF TypeOK, BookInv, Nodes
<1>3. LevelsMatchOrders
  <2> SUFFICES ASSUME NEW s \in Sides, NEW p \in Prices
               PROVE  LevelOK(Book.levels[s][p], Book.live, Mine(Book.live, s, p))
    BY DEF LevelsMatchOrders, Consistent, LevelOK, Mine
  <2> QED BY <1>1 DEF Sound
<1>4. NeverCrossed
  BY <1>1 DEF Uncrossed, NeverCrossed
<1>5. RestoreRoundTrip
  BY <1>1, RoundTrip
<1> QED BY <1>2, <1>3, <1>4, <1>5 DEF BookConsistent

-----------------------------------------------------------------------------
(* 9. Price-time priority. *)

\* Of two orders of a side, the one ahead crosses if the other does.
LEMMA AheadCrosses ==
  ASSUME Sound(Book), NEW in \in Incoming, NEW a \in DOMAIN live, NEW b \in DOMAIN live, Ahead(a, b),
         live[b].side = Opposite(in.side), Crosses(in, live[b].price)
  PROVE  live[a].side = Opposite(in.side) /\ Crosses(in, live[a].price) /\ a # b /\ ~Ahead(b, a)
<1>1. /\ live[a].side \in Sides /\ live[b].side \in Sides /\ live[a].price \in Nat /\ live[b].price \in Nat
      /\ live[a].priority \in Nat /\ live[b].priority \in Nat
  BY NodeFields, LadderAssumption, BookParts DEF Sound
<1>2. in.side \in Sides /\ (in.price # NoPrice => in.price \in Nat)
  BY IncomingFields, LadderAssumption
<1>3. live[a].side = Opposite(in.side)
  BY DEF Ahead
<1>4. a # b /\ ~Ahead(b, a)
  BY <1>1 DEF Ahead, Sides
<1>5. Crosses(in, live[a].price)
  <2>1. CASE in.price = NoPrice
    BY <2>1 DEF Crosses, IsLimit
  <2>2. CASE in.price # NoPrice /\ in.side = "Buy"
    <3>1. live[a].side = "Sell" /\ live[b].side = "Sell" /\ in.price >= live[b].price
      BY <2>2, <1>3 DEF Crosses, IsLimit, Opposite
    <3>2. live[a].price <= live[b].price
      BY <1>1, <3>1 DEF Ahead
    <3>3. in.price >= live[a].price
      BY <1>1, <1>2, <2>2, <3>1, <3>2
    <3> QED BY <2>2, <3>3 DEF Crosses, IsLimit
  <2>3. CASE in.price # NoPrice /\ in.side = "Sell"
    <3>1. live[a].side = "Buy" /\ live[b].side = "Buy" /\ in.price <= live[b].price
      BY <2>3, <1>3 DEF Crosses, IsLimit, Opposite
    <3>2. live[a].price >= live[b].price
      BY <1>1, <3>1 DEF Ahead
    <3>3. in.price <= live[a].price
      BY <1>1, <1>2, <2>3, <3>1, <3>2
    <3>4. ~(in.side = "Buy")
      BY <2>3
    <3> QED BY <2>3, <3>3, <3>4 DEF Crosses, IsLimit
  <2> QED BY <1>2, <2>1, <2>2, <2>3 DEF Sides
<1> QED BY <1>3, <1>4, <1>5

\* An order that loses to a submission lost to its walk, and every order ahead
\* of it is gone.
LEMMA SubmitKeepsPriority ==
  ASSUME BookInv, NEW in \in Incoming, Submit(in), NEW a \in DOMAIN live, NEW b \in DOMAIN live,
         Ahead(a, b), b \in DOMAIN live' => live'[b].remaining < live[b].remaining
  PROVE  a \notin DOMAIN live'
<1> DEFINE walk == Walk(in)
           filled == Filled(in)
<1>1. Sound(Book) /\ Submittable(in) /\ nextPriority \in Nat
  BY IncomingFields, LadderAssumption DEF BookInv, BookOK
<1>2. PICK n : PlanOK(in, n)
  BY <1>1, PlanIsOK
<1>3. SubmitAccepted(in) /\ live' = Submitted(in).live
  BY SubmitIs
<1>4. /\ MatchedOK(in, n, filled)
      /\ live' = IF Rests(in, PlanMatches(in))
                 THEN [x \in DOMAIN filled.live \cup {in.id} |->
                         IF x = in.id THEN NewNode(in) ELSE filled.live[x]]
                 ELSE filled.live
  BY <1>1, <1>2, <1>3, SubmittedIsOK DEF BookInv
<1>5. in.id \notin DOMAIN live
  BY <1>3 DEF SubmitAccepted
<1>6. WalkOK(in, walk)
  BY <1>1, WalkIsOK DEF Submittable
<1>7. n \in 0..Len(walk) /\ Len(walk) \in Nat /\ DOMAIN walk = 1..Len(walk)
  BY <1>2, <1>6 DEF PlanOK, WalkOK
<1>8. /\ \A k \in 1..n : k < n => walk[k] \notin DOMAIN filled.live
      /\ \A o \in DOMAIN live :
           (\A k \in 1..n : o # walk[k]) => o \in DOMAIN filled.live /\ filled.live[o] = live[o]
  BY <1>4 DEF MatchedOK
<1> HIDE DEF filled
<1>9. /\ \A o \in DOMAIN live : o \in DOMAIN live' <=> o \in DOMAIN filled.live
      /\ \A o \in DOMAIN live : o \in DOMAIN filled.live => live'[o] = filled.live[o]
  BY <1>4, <1>5
<1>10. live[b].remaining \in Nat
  BY <1>1, NodeFields, BookParts DEF Sound
<1>11. PICK j \in 1..n : b = walk[j]
  <2> SUFFICES ASSUME \A k \in 1..n : b # walk[k] PROVE FALSE
    OBVIOUS
  <2>1. b \in DOMAIN live' /\ live'[b] = live[b]
    BY <1>8, <1>9
  <2> QED BY <1>10, <2>1
<1>12. j \in DOMAIN walk
  BY <1>7, <1>11
<1>13. live[b].side = Opposite(in.side) /\ Crosses(in, live[b].price)
  BY <1>6, <1>11, <1>12 DEF WalkOK
<1>14. live[a].side = Opposite(in.side) /\ Crosses(in, live[a].price) /\ a # b /\ ~Ahead(b, a)
  BY <1>1, <1>13, AheadCrosses
<1>15. PICK i \in DOMAIN walk : a = walk[i]
  BY <1>6, <1>14 DEF WalkOK
<1>16. i < j
  <2>1. i # j
    BY <1>11, <1>14, <1>15
  <2>2. ~(j < i)
    BY <1>6, <1>11, <1>12, <1>14, <1>15 DEF WalkOK
  <2> QED BY <1>7, <1>12, <1>15, <2>1, <2>2
<1>17. i \in 1..n /\ i < n
  BY <1>7, <1>11, <1>15, <1>16
<1> QED BY <1>8, <1>9, <1>15, <1>17

-----------------------------------------------------------------------------
(* 10. What a submission takes and leaves. *)

LEMMA TotalUnion ==
  ASSUME NEW nodes, NEW S, NEW T, S \cap T = {}, Counted(nodes, S), Counted(nodes, T)
  PROVE  Total(nodes, S \cup T) = Total(nodes, S) + Total(nodes, T)
<1> DEFINE f == [o \in S |-> nodes[o].remaining]
           g == [o \in T |-> nodes[o].remaining]
           h == [o \in S \cup T |-> nodes[o].remaining]
<1>1. /\ DOMAIN f = S /\ DOMAIN g = T /\ DOMAIN h = S \cup T
      /\ \A o \in S : f[o] \in Nat /\ h[o] = f[o]
      /\ \A o \in T : g[o] \in Nat /\ h[o] = g[o]
      /\ IsFiniteSet(S) /\ IsFiniteSet(T)
  BY DEF Counted
<1>2. Total(nodes, S) = Units(f) /\ Total(nodes, T) = Units(g) /\ Total(nodes, S \cup T) = Units(h)
  BY DEF Total
<1> HIDE DEF f, g, h
<1>3. /\ IsFiniteSet(Lots(f)) /\ Units(f) \in Nat /\ Units(f) = Cardinality(Lots(f))
      /\ IsFiniteSet(Lots(g)) /\ Units(g) \in Nat /\ Units(g) = Cardinality(Lots(g))
      /\ Units(h) = Cardinality(Lots(h))
  BY <1>1, UnitsType DEF Units, Lots
<1>4. /\ \A e : e \in Lots(f) <=> \E o \in S : e \in {o} \X (1..f[o])
      /\ \A e : e \in Lots(g) <=> \E o \in T : e \in {o} \X (1..g[o])
      /\ \A e : e \in Lots(h) <=> \E o \in S \cup T : e \in {o} \X (1..h[o])
  BY <1>1 DEF Lots
<1>5. Lots(h) = Lots(f) \cup Lots(g)
  <2>1. ASSUME NEW e \in Lots(h) PROVE e \in Lots(f) \cup Lots(g)
    <3>1. PICK o \in S \cup T : e \in {o} \X (1..h[o])
      BY <1>4
    <3>2. (o \in S /\ h[o] = f[o]) \/ (o \in T /\ h[o] = g[o])
      BY <1>1
    <3> QED BY <1>4, <3>1, <3>2
  <2>2. ASSUME NEW e \in Lots(f) PROVE e \in Lots(h)
    <3>1. PICK o \in S : e \in {o} \X (1..f[o])
      BY <1>4
    <3>2. h[o] = f[o]
      BY <1>1
    <3> QED BY <1>4, <3>1, <3>2
  <2>3. ASSUME NEW e \in Lots(g) PROVE e \in Lots(h)
    <3>1. PICK o \in T : e \in {o} \X (1..g[o])
      BY <1>4
    <3>2. h[o] = g[o]
      BY <1>1
    <3> QED BY <1>4, <3>1, <3>2
  <2> QED BY <2>1, <2>2, <2>3
<1>6. Lots(f) \cap Lots(g) = {}
  <2> SUFFICES ASSUME NEW e, e \in Lots(f), e \in Lots(g) PROVE FALSE
    OBVIOUS
  <2>1. PICK o \in S : e \in {o} \X (1..f[o])
    BY <1>4
  <2>2. PICK p \in T : e \in {p} \X (1..g[p])
    BY <1>4
  <2>3. o = p
    BY <2>1, <2>2
  <2> QED BY <2>1, <2>2, <2>3
<1>7. Cardinality(Lots(f) \cup Lots(g))
        = Cardinality(Lots(f)) + Cardinality(Lots(g)) - Cardinality(Lots(f) \cap Lots(g))
  BY <1>3, FS_Union
<1>8. Cardinality({}) = 0
  BY FS_EmptySet
<1>9. Cardinality(Lots(f) \cap Lots(g)) = 0
  BY <1>6, <1>8
<1>10. Units(h) = Cardinality(Lots(f) \cup Lots(g))
  BY <1>3, <1>5
<1>11. Units(h) = Units(f) + Units(g)
  BY <1>3, <1>7, <1>9, <1>10
<1> QED BY <1>2, <1>11

\* The orders of one side.
OfSide(nodes, s) == {o \in DOMAIN nodes : nodes[o].side = s}

LEMMA DepthIs == \A nodes, s : Depth(nodes, s) = Total(nodes, OfSide(nodes, s))
BY DEF Depth, OfSide

\* What the walk was reduced by, the opposite side lost.
LEMMA MatchesTakeDepth ==
  ASSUME Sound(Book), NEW in \in Incoming, NEW n, PlanOK(in, n), NEW after, MatchedOK(in, n, after)
  PROVE  /\ Depth(live, Opposite(in.side)) \in Nat /\ Depth(after.live, Opposite(in.side)) \in Nat
         /\ Depth(live, Opposite(in.side)) - Depth(after.live, Opposite(in.side))
              = in.quantity - Unmatched(in, PlanMatches(in))
         /\ Unmatched(in, PlanMatches(in)) \in Nat
<1> DEFINE walk == Walk(in)
           side == Opposite(in.side)
           L(k) == LeftAfter(in, walk, k)
           left == Unmatched(in, PlanMatches(in))
           D == OfSide(live, side)
           E == OfSide(after.live, side)
           W == {walk[k] : k \in 1..n}
           last == walk[n]
<1>1. Submittable(in) /\ in.quantity \in Nat
  BY IncomingFields
<1>2. WalkOK(in, walk)
  BY <1>1, WalkIsOK DEF Submittable
<1>3. \A k \in 0..Len(walk) : L(k) \in Int
  <2> HIDE DEF walk
  <2> QED BY <1>1, <1>2, LeftFalls
<1>4. Len(walk) \in Nat /\ DOMAIN walk = 1..Len(walk)
  BY <1>2 DEF WalkOK
<1>5. n \in 0..Len(walk) /\ left = IF L(n) > 0 THEN L(n) ELSE 0
  BY DEF PlanOK
<1>6. \A k \in DOMAIN walk : walk[k] \in DOMAIN live /\ live[walk[k]].side = side
  BY <1>2 DEF WalkOK
<1>7. /\ Sound(after)
      /\ DOMAIN after.live \subseteq DOMAIN live
      /\ \A k \in 1..n : k < n \/ L(n) >= 0 => walk[k] \notin DOMAIN after.live
      /\ \A o \in DOMAIN live :
           (\A k \in 1..n : o # walk[k]) => o \in DOMAIN after.live /\ after.live[o] = live[o]
      /\ n > 0 /\ L(n) < 0 =>
           /\ last \in DOMAIN after.live
           /\ after.live[last] = [live[last] EXCEPT !.remaining = 0 - L(n)]
  BY DEF MatchedOK
<1>8. L(n) = in.quantity - Total(live, W)
  BY DEF LeftAfter
<1>9. L(n) \in Int /\ n \in Nat
  BY <1>3, <1>4, <1>5
<1>10. \A o \in DOMAIN live : o \notin W => o \in DOMAIN after.live /\ after.live[o] = live[o]
  BY <1>7
<1>11. W \subseteq D
  BY <1>4, <1>5, <1>6 DEF OfSide
<1>12. Nodes(live) /\ Nodes(after.live)
  BY <1>7, BookParts DEF Sound
<1>13. \A o \in D : o \notin W => o \in E
  BY <1>10 DEF OfSide
<1>14. \A o \in E : o \in DOMAIN live /\ (o \notin W => o \in D)
  BY <1>7, <1>10 DEF OfSide
<1>15. D \subseteq DOMAIN live /\ E \subseteq DOMAIN after.live
  BY DEF OfSide
<1>16. \A o \in W : \E k \in 1..n : o = walk[k]
  OBVIOUS
<1>17. n > 0 => last \in W
  BY <1>9
<1>18. L(n) < 0 => n > 0
  <2>1. L(0) = in.quantity
    <3> HIDE DEF walk
    <3> QED BY <1>1, <1>2, LeftFalls
  <2> QED BY <1>1, <1>9, <2>1
<1>19. Depth(live, side) = Total(live, D) /\ Depth(after.live, side) = Total(after.live, E)
  BY DepthIs
<1> HIDE DEF walk, L, W, D, E, left, last, side
<1>20. Counted(live, D) /\ Counted(live, W) /\ Counted(live, D \ W) /\ Counted(after.live, E)
  BY <1>11, <1>12, <1>15, MineCounted
<1>21. /\ Total(live, D) \in Nat /\ Total(live, W) \in Nat /\ Total(live, D \ W) \in Nat
       /\ Total(after.live, E) \in Nat
  BY <1>20, TotalType
<1>22. Total(live, D) = Total(live, D \ W) + Total(live, W)
  <2>1. D = (D \ W) \cup W /\ (D \ W) \cap W = {}
    BY <1>11
  <2>2. Total(live, (D \ W) \cup W) = Total(live, D \ W) + Total(live, W)
    BY <1>20, <2>1, TotalUnion
  <2> QED BY <2>1, <2>2
<1>23. D \ W \subseteq DOMAIN after.live /\ Total(after.live, D \ W) = Total(live, D \ W)
  <2>1. \A o \in D \ W : after.live[o].remaining = live[o].remaining /\ o \in DOMAIN after.live
    BY <1>10, <1>15
  <2> QED BY <2>1, TotalAgrees
<1>24. CASE L(n) >= 0
  <2>1. E = D \ W
    <3>1. \A o \in W : o \notin E
      BY <1>7, <1>15, <1>16, <1>24
    <3> QED BY <1>13, <1>14, <3>1
  <2>2. Total(after.live, E) = Total(live, D \ W)
    BY <1>23, <2>1
  <2>3. left = L(n)
    BY <1>5, <1>9, <1>24
  <2> QED BY <1>1, <1>8, <1>9, <1>19, <1>21, <1>22, <1>24, <2>2, <2>3 DEF left, side
<1>25. CASE L(n) < 0
  <2>1. n > 0 /\ last \in DOMAIN after.live /\ after.live[last] = [live[last] EXCEPT !.remaining = 0 - L(n)]
    BY <1>7, <1>18, <1>25
  <2>2. last \in W /\ last \in D
    BY <1>11, <1>17, <2>1
  <2>3. live[last] \in OrderNode /\ live[last].side = side
    BY <1>12, <1>15, <2>2, NodeFields DEF D, OfSide
  <2>4. after.live[last].remaining = 0 - L(n) /\ after.live[last].side = side
    BY <2>1, <2>3 DEF OrderNode
  <2>5. last \in E /\ last \notin D \ W
    BY <2>1, <2>2, <2>4 DEF E, OfSide
  <2>6. \A o \in W : o # last => o \notin E
    <3> TAKE o \in W
    <3> HAVE o # last
    <3>1. PICK k \in 1..n : o = walk[k]
      BY <1>16
    <3>2. k < n
      BY <1>9, <3>1 DEF last
    <3> QED BY <1>7, <1>15, <3>1, <3>2
  <2>7. E = (D \ W) \cup {last}
    BY <1>13, <1>14, <2>2, <2>5, <2>6
  <2>8. Total(after.live, E) = Total(after.live, D \ W) + after.live[last].remaining
    <3>1. Counted(after.live, (D \ W) \cup {last})
      BY <1>20, <2>7
    <3>2. Total(after.live, (D \ W) \cup {last}) = Total(after.live, D \ W) + after.live[last].remaining
      BY <2>5, <3>1, TotalWith
    <3> QED BY <2>7, <3>2
  <2>9. left = 0
    BY <1>5, <1>9, <1>25
  <2> QED BY <1>1, <1>8, <1>9, <1>19, <1>21, <1>22, <1>23, <2>4, <2>8, <2>9 DEF left, side
<1> QED BY <1>9, <1>24, <1>25

\* The matches leave the own side alone.
LEMMA MatchesLeaveOwnSide ==
  ASSUME Sound(Book), NEW in \in Incoming, NEW n, PlanOK(in, n), NEW after, MatchedOK(in, n, after)
  PROVE  /\ OfSide(after.live, in.side) = OfSide(live, in.side)
         /\ Depth(after.live, in.side) = Depth(live, in.side) /\ Depth(live, in.side) \in Nat
<1> DEFINE walk == Walk(in)
           s == in.side
<1>1. Submittable(in) /\ s \in Sides
  BY IncomingFields
<1>2. WalkOK(in, walk)
  BY <1>1, WalkIsOK DEF Submittable
<1>3. \A k \in DOMAIN walk : live[walk[k]].side = Opposite(s)
  BY <1>2 DEF WalkOK
<1>4. Opposite(s) # s
  BY <1>1 DEF Opposite, Sides
<1>5. n \in 0..Len(walk) /\ DOMAIN walk = 1..Len(walk) /\ Len(walk) \in Nat
  BY <1>2 DEF PlanOK, WalkOK
<1>6. Shrunk(after.live, live)
  BY <1>1, MatchedShrinks
<1>7. \A o \in DOMAIN live :
        (\A k \in 1..n : o # walk[k]) => o \in DOMAIN after.live /\ after.live[o] = live[o]
  BY DEF MatchedOK
<1> HIDE DEF walk
<1>8. \A o \in OfSide(live, s) : o \in DOMAIN after.live /\ after.live[o] = live[o]
  BY <1>3, <1>4, <1>5, <1>7 DEF OfSide
<1>9. OfSide(after.live, s) = OfSide(live, s)
  BY <1>6, <1>8 DEF OfSide, Shrunk
<1>10. Total(after.live, OfSide(live, s)) = Total(live, OfSide(live, s))
  BY <1>8, TotalAgrees
<1>11. Counted(live, OfSide(live, s))
  <2>1. OfSide(live, s) \in SUBSET DOMAIN live /\ Nodes(live)
    BY BookParts DEF OfSide, Sound
  <2> QED BY <2>1, MineCounted
<1>12. Total(live, OfSide(live, s)) \in Nat
  BY <1>11, TotalType
<1> QED BY <1>9, <1>10, <1>12, DepthIs

\* Quantity is conserved.
LEMMA SubmitConserves ==
  ASSUME BookInv, NEW in \in Incoming, Submit(in)
  PROVE  QuantityConserved(in)
<1> DEFINE plan == PlanMatches(in)
           left == Unmatched(in, plan)
           filled == Filled(in)
           after == Submitted(in)
           opp == Opposite(in.side)
           own == in.side
<1>1. Sound(Book) /\ Submittable(in) /\ nextPriority \in Nat /\ in.side \in Sides /\ in.quantity \in Nat
  BY IncomingFields, LadderAssumption DEF BookInv, BookOK
<1>2. PICK n : PlanOK(in, n)
  BY <1>1, PlanIsOK
<1>3. SubmitAccepted(in) /\ live' = after.live
  BY SubmitIs
<1>4. /\ MatchedOK(in, n, filled) /\ Shrunk(filled.live, live)
      /\ BookOK(after, NextAfter(in))
      /\ after.live = IF Rests(in, plan)
                      THEN [x \in DOMAIN filled.live \cup {in.id} |->
                              IF x = in.id THEN NewNode(in) ELSE filled.live[x]]
                      ELSE filled.live
  BY <1>1, <1>2, <1>3, SubmittedIsOK DEF BookInv
<1>5. Sound(filled) /\ Sound(after)
  BY <1>4 DEF MatchedOK, BookOK
<1>6. in.id \notin DOMAIN filled.live
  BY <1>3, <1>4 DEF SubmitAccepted, Shrunk
<1>7. /\ Depth(live, opp) \in Nat /\ Depth(filled.live, opp) \in Nat
      /\ Depth(live, opp) - Depth(filled.live, opp) = in.quantity - left
      /\ left \in Nat
  BY <1>1, <1>2, <1>4, MatchesTakeDepth
<1>8. Depth(filled.live, own) = Depth(live, own) /\ Depth(live, own) \in Nat
  BY <1>1, <1>2, <1>4, MatchesLeaveOwnSide
<1>9. own # opp
  BY <1>1 DEF Opposite, Sides
<1>10. NewNode(in).side = own /\ NewNode(in).remaining = left
  BY DEF NewNode
<1> HIDE DEF filled, after, opp, own, left, plan
<1>11. /\ Depth(after.live, opp) = Depth(filled.live, opp)
       /\ Depth(after.live, own) = Depth(filled.live, own) + (IF Rests(in, plan) THEN left ELSE 0)
  <2>1. CASE ~Rests(in, plan)
    BY <1>4, <1>8, <2>1
  <2>2. CASE Rests(in, plan)
    <3> DEFINE A == OfSide(filled.live, own)
               B == OfSide(filled.live, opp)
               o == in.id
    <3>1. /\ DOMAIN after.live = DOMAIN filled.live \cup {o} /\ after.live[o] = NewNode(in)
          /\ \A x \in DOMAIN filled.live : after.live[x] = filled.live[x]
      BY <1>4, <1>6, <2>2
    <3>2. OfSide(after.live, opp) = B /\ OfSide(after.live, own) = A \cup {o}
      BY <1>6, <1>9, <1>10, <3>1 DEF OfSide
    <3>3. A \subseteq DOMAIN filled.live /\ B \subseteq DOMAIN filled.live /\ o \notin A
      BY <1>6 DEF OfSide
    <3> HIDE DEF A, B, o
    <3>4. Total(after.live, B) = Total(filled.live, B) /\ Total(after.live, A) = Total(filled.live, A)
      BY <3>1, <3>3, TotalAgrees
    <3>5. Counted(after.live, A \cup {o})
      <4>1. Nodes(after.live) /\ A \cup {o} \in SUBSET DOMAIN after.live
        BY <1>5, <3>1, <3>3 DEF Sound
      <4> QED BY <4>1, MineCounted
    <3>6. Total(after.live, A \cup {o}) = Total(after.live, A) + after.live[o].remaining
      BY <3>3, <3>5, TotalWith
    <3>7. /\ Depth(after.live, opp) = Total(after.live, B)
          /\ Depth(after.live, own) = Total(after.live, A \cup {o})
          /\ Depth(filled.live, opp) = Total(filled.live, B)
          /\ Depth(filled.live, own) = Total(filled.live, A)
      BY <3>2, DepthIs DEF A, B
    <3> QED BY <1>10, <2>2, <3>1, <3>4, <3>6, <3>7
  <2> QED BY <2>1, <2>2
<1> DEFINE lost == IF Outcome(in).status \in {"Cancelled", "Expired"} THEN Outcome(in).remaining ELSE 0
<1>12. Outcome(in).remaining = left
  BY DEF Outcome, left, plan
<1>13. lost = IF Rests(in, plan) THEN 0 ELSE left
  <2> DEFINE verdict == Outcome(in).status
  <2>1. CASE plan.self_trade_prevented
    <3>1. verdict = "Cancelled"
      BY <2>1 DEF Outcome, left, plan
    <3>2. ~Rests(in, plan)
      BY <2>1 DEF Rests
    <3> QED BY <1>12, <3>1, <3>2
  <2>2. CASE ~plan.self_trade_prevented /\ left = 0
    <3>1. verdict = "Filled"
      BY <2>2 DEF Outcome, left, plan
    <3>2. ~Rests(in, plan)
      BY <2>2 DEF Rests, left
    <3> QED BY <1>12, <2>2, <3>1, <3>2
  <2>3. CASE ~plan.self_trade_prevented /\ left # 0 /\ ~IsLimit(in)
    <3>1. verdict = "Expired"
      BY <2>3 DEF Outcome, left, plan
    <3>2. ~Rests(in, plan)
      BY <2>3 DEF Rests
    <3> QED BY <1>12, <3>1, <3>2
  <2>4. CASE ~plan.self_trade_prevented /\ left # 0 /\ IsLimit(in)
    <3>1. verdict \in {"Resting", "PartiallyFilled"}
      BY <2>4 DEF Outcome, left, plan
    <3>2. Rests(in, plan)
      BY <2>4 DEF Rests, left
    <3> QED BY <1>12, <3>1, <3>2
  <2> QED BY <2>1, <2>2, <2>3, <2>4
<1> DEFINE taken == Depth(live, opp) - Depth(live', opp)
           added == Depth(live', own) - Depth(live, own)
<1>14. taken = in.quantity - left
  BY <1>3, <1>7, <1>11
<1>15. added = IF Rests(in, plan) THEN left ELSE 0
  <2>1. Depth(live', own) = Depth(live, own) + (IF Rests(in, plan) THEN left ELSE 0)
    BY <1>3, <1>8, <1>11
  <2> QED BY <1>7, <1>8, <2>1
<1>16. in.quantity = taken + added + lost /\ taken = in.quantity - Outcome(in).remaining
  <2> HIDE DEF taken, added, lost
  <2>1. CASE Rests(in, plan)
    BY <1>1, <1>7, <1>12, <1>13, <1>14, <1>15, <2>1
  <2>2. CASE ~Rests(in, plan)
    BY <1>1, <1>7, <1>12, <1>13, <1>14, <1>15, <2>2
  <2> QED BY <2>1, <2>2
<1> QED BY <1>16 DEF QuantityConserved, own, opp

\* What is shown tells the totals of the levels.
LEMMA ShownTotals ==
  ASSUME NEW a, NEW b, Sound(a), Sound(b), Snapshot(a.levels) = Snapshot(b.levels),
         NEW s \in Sides, NEW p \in Prices
  PROVE  a.levels[s][p].total = b.levels[s][p].total
<1> DEFINE x == a.levels[s][p]
           y == b.levels[s][p]
           A == {<<q, a.levels[s][q].total, a.levels[s][q].count>> : q \in {r \in Prices : a.levels[s][r].count # 0}}
           B == {<<q, b.levels[s][q].total, b.levels[s][q].count>> : q \in {r \in Prices : b.levels[s][r].count # 0}}
<1>1. A = B
  BY DEF Snapshot
<1>2. /\ x.count # 0 => <<p, x.total, x.count>> \in A
      /\ y.count # 0 => <<p, y.total, y.count>> \in B
      /\ \A t, c : <<p, t, c>> \in A => t = x.total
      /\ \A t, c : <<p, t, c>> \in B => t = y.total
  OBVIOUS
<1>3. (x.count = 0 => x.total = 0) /\ (y.count = 0 => y.total = 0)
  <2>1. /\ x.count = Cardinality(Mine(a.live, s, p)) /\ x.total = Total(a.live, Mine(a.live, s, p))
        /\ y.count = Cardinality(Mine(b.live, s, p)) /\ y.total = Total(b.live, Mine(b.live, s, p))
    BY DEF Sound, LevelOK
  <2>2. IsFiniteSet(Mine(a.live, s, p)) /\ IsFiniteSet(Mine(b.live, s, p))
    <3>1. Mine(a.live, s, p) \subseteq DOMAIN a.live /\ Mine(b.live, s, p) \subseteq DOMAIN b.live
      BY DEF Mine
    <3>2. IsFiniteSet(DOMAIN a.live) /\ IsFiniteSet(DOMAIN b.live)
      BY DEF Sound, Nodes
    <3> QED BY <3>1, <3>2, FS_Subset
  <2> HIDE DEF x, y
  <2>3. x.count = 0 => Mine(a.live, s, p) = {}
    BY <2>1, <2>2, FS_EmptySet
  <2>4. y.count = 0 => Mine(b.live, s, p) = {}
    BY <2>1, <2>2, FS_EmptySet
  <2> QED BY <2>1, <2>3, <2>4, TotalOfNothing
<1> HIDE DEF x, y, A, B
<1>4. x.total = y.total
  <2>1. CASE x.count # 0
    BY <1>1, <1>2, <2>1
  <2>2. CASE x.count = 0 /\ y.count # 0
    BY <1>1, <1>2, <2>2
  <2>3. CASE x.count = 0 /\ y.count = 0
    BY <1>3, <2>3
  <2> QED BY <2>1, <2>2, <2>3
<1> QED BY <1>4 DEF x, y

\* The preview is exact.
LEMMA SubmitIsPreviewed ==
  ASSUME BookInv, NEW in \in Incoming, Submit(in)
  PROVE  PreviewIsExact(in)
<1> DEFINE plan == PlanMatches(in)
           left == Unmatched(in, plan)
           filled == Filled(in)
           after == Submitted(in)
           walk == Walk(in)
<1>1. Sound(Book) /\ Submittable(in) /\ nextPriority \in Nat /\ in.side \in Sides
  BY IncomingFields, LadderAssumption DEF BookInv, BookOK
<1>2. PICK n : PlanOK(in, n)
  BY <1>1, PlanIsOK
<1>3. SubmitAccepted(in) /\ levels' = after.levels
  BY SubmitIs
<1>4. /\ MatchedOK(in, n, filled) /\ Shrunk(filled.live, live)
      /\ BookOK(after, NextAfter(in))
      /\ Rests(in, plan) => LinkTotals(filled, NewNode(in), after)
  BY <1>1, <1>2, <1>3, SubmittedIsOK DEF BookInv
<1>5. Sound(filled) /\ Sound(after)
  BY <1>4 DEF MatchedOK, BookOK
<1>6. nextTrade' = nextTrade + n /\ n \in Nat /\ nextTrade \in Nat
  BY <1>2, SubmitKeepsNumbers, LadderAssumption DEF BookInv
<1>7. Len(plan.matches) = n
  BY <1>2 DEF PlanOK
<1>8. /\ Preview(in).execution_count = n
      /\ Preview(in).changes_displayed_depth <=> plan.matches # <<>> \/ Rests(in, plan)
  BY <1>7 DEF Preview
<1>9. plan.matches # <<>> <=> n # 0
  <2>1. n = 0 => plan.matches = <<>>
    <3> HAVE n = 0
    <3>1. DOMAIN plan.matches = {}
      BY <1>2, <1>6 DEF PlanOK
    <3>2. PICK m : plan.matches = Planned(in, walk, m)
      BY DEF PlanMatches
    <3>3. plan.matches = [k \in DOMAIN plan.matches |-> plan.matches[k]]
      BY <3>2 DEF Planned
    <3> QED BY <3>1, <3>3
  <2> QED BY <1>6, <1>7, <2>1
<1>10. WalkOK(in, walk)
  BY <1>1, WalkIsOK DEF Submittable
<1>11. n \in 0..Len(walk) /\ Len(walk) \in Nat /\ DOMAIN walk = 1..Len(walk)
  BY <1>2, <1>10 DEF PlanOK, WalkOK
<1>12. Snapshot(levels') # Snapshot(levels) <=> n # 0 \/ Rests(in, plan)
  <2>1. ASSUME n = 0, ~Rests(in, plan) PROVE levels' = levels
    <3>1. filled = Book
      BY <1>4, <2>1 DEF MatchedOK
    <3>2. after = filled
      BY <2>1 DEF Submitted
    <3> QED BY <1>3, <3>1, <3>2, BookParts
  <2>2. ASSUME n = 0, Rests(in, plan) PROVE Snapshot(levels') # Snapshot(levels)
    <3>1. filled = Book
      BY <1>4, <2>2 DEF MatchedOK
    <3>2. /\ NewNode(in).side = in.side /\ NewNode(in).price = in.price
          /\ NewNode(in).remaining \in Nat \ {0} /\ in.price \in Prices
      BY <1>1, <1>2, <2>2, RestingConsumed DEF NewNode
    <3>3. after.levels[in.side][in.price].total
            = Book.levels[in.side][in.price].total + NewNode(in).remaining
      BY <1>1, <1>4, <2>2, <3>1, <3>2 DEF LinkTotals
    <3>4. Book.levels[in.side][in.price].total \in Nat
      BY <1>1, <3>2 DEF Sound, Level
    <3>5. after.levels[in.side][in.price].total # Book.levels[in.side][in.price].total
      BY <3>2, <3>3, <3>4
    <3>6. Snapshot(after.levels) # Snapshot(Book.levels)
      BY <1>1, <1>5, <3>2, <3>5, ShownTotals
    <3> QED BY <1>3, <3>6, BookParts
  <2>3. ASSUME n # 0 PROVE Snapshot(levels') # Snapshot(levels)
    <3> DEFINE o == walk[1]
               s == live[o].side
               p == live[o].price
    <3>1. 1 \in DOMAIN walk /\ 1 \in 1..n
      BY <1>6, <1>11, <2>3
    <3>2. o \in DOMAIN live /\ s = Opposite(in.side)
      BY <1>10, <3>1 DEF WalkOK
    <3>3. s \in Sides /\ p \in Prices /\ live[o].remaining \in Nat /\ live[o].remaining > 0
          /\ live[o] \in OrderNode
      BY <1>1, <3>2, NodeFields, BookParts DEF Sound
    <3>4. o \in Mine(live, s, p)
      BY <3>2 DEF Mine
    <3>5. o \in DOMAIN filled.live => filled.live[o].remaining < live[o].remaining
      <4> HAVE o \in DOMAIN filled.live
      <4>1. n = 1 /\ ~(LeftAfter(in, walk, n) >= 0)
        BY <1>4, <1>6, <3>1 DEF MatchedOK
      <4>2. /\ LeftAfter(in, walk, n) \in Int /\ LeftAfter(in, walk, n - 1) \in Int
            /\ LeftAfter(in, walk, n) = LeftAfter(in, walk, n - 1) - live[o].remaining
        <5>1. n \in 0..Len(walk) /\ n - 1 \in 0..Len(walk) /\ n \in 1..Len(walk) /\ walk[n] = o
          BY <1>11, <4>1
        <5> HIDE DEF walk
        <5> QED BY <1>1, <1>10, <5>1, LeftFalls
      <4>3. LeftAfter(in, walk, n - 1) > 0
        BY <1>2, <3>1, <4>1 DEF PlanOK
      <4>4. filled.live[o] = [live[o] EXCEPT !.remaining = 0 - LeftAfter(in, walk, n)]
        BY <1>4, <4>1, <4>2 DEF MatchedOK
      <4>5. filled.live[o].remaining = 0 - LeftAfter(in, walk, n)
        BY <3>3, <4>4 DEF OrderNode
      <4> QED BY <3>3, <4>2, <4>3, <4>5
    <3> HIDE DEF filled, after, o, s, p
    <3>6. filled.levels[s][p].total < levels[s][p].total /\ filled.levels[s][p].total \in Nat
          /\ levels[s][p].total \in Nat
      BY <1>1, <1>4, <1>5, <3>3, <3>4, <3>5, ShrunkTotals, BookParts
    <3>7. after.levels[s][p].total = filled.levels[s][p].total
      <4>1. CASE ~Rests(in, plan)
        BY <4>1 DEF Submitted, after, filled
      <4>2. CASE Rests(in, plan)
        <5>1. NewNode(in).side # s
          BY <1>1, <3>2 DEF NewNode, Opposite, Sides
        <5> QED BY <1>4, <3>3, <4>2, <5>1 DEF LinkTotals
      <4> QED BY <4>1, <4>2
    <3>8. after.levels[s][p].total # levels[s][p].total
      BY <3>6, <3>7
    <3>9. Snapshot(after.levels) # Snapshot(Book.levels)
      BY <1>1, <1>5, <3>3, <3>8, ShownTotals, BookParts
    <3> QED BY <1>3, <3>9, BookParts
  <2> QED BY <2>1, <2>2, <2>3
<1>13. Preview(in).execution_count = nextTrade' - nextTrade
  BY <1>6, <1>8
<1>14. Preview(in).changes_displayed_depth <=> Snapshot(levels) # Snapshot(levels')
  BY <1>8, <1>9, <1>12
<1> QED BY <1>13, <1>14 DEF PreviewIsExact


-----------------------------------------------------------------------------
(* 11. The view. *)

\* A set of displayed levels: one entry per side and price, none of them empty.
OneEach(shown) == \A l, m \in shown : SameLevel(l, m) => l = m

LEMMA DisplayedLevels ==
  ASSUME NEW lad
  PROVE  \A x : x \in Displayed(lad) <=>
           \E s \in Sides, p \in Prices :
             lad[s][p].count # 0 /\ x = <<s, p, lad[s][p].total, lad[s][p].count>>
<1> TAKE x
<1> DEFINE T(s) == {<<p, lad[s][p].total, lad[s][p].count>> : p \in {q \in Prices : lad[s][q].count # 0}}
<1>1. \A s \in Sides : Snapshot(lad)[s] = T(s)
  BY DEF Snapshot
<1>2. x \in Displayed(lad) <=> \E s \in Sides : \E l \in Snapshot(lad)[s] : x = <<s, l[1], l[2], l[3]>>
  BY DEF Displayed
<1>3. ASSUME NEW s \in Sides
      PROVE  (\E l \in T(s) : x = <<s, l[1], l[2], l[3]>>)
               <=> \E p \in Prices : lad[s][p].count # 0 /\ x = <<s, p, lad[s][p].total, lad[s][p].count>>
  <2>1. ASSUME NEW l \in T(s), x = <<s, l[1], l[2], l[3]>>
        PROVE  \E p \in Prices : lad[s][p].count # 0 /\ x = <<s, p, lad[s][p].total, lad[s][p].count>>
    BY <2>1
  <2>2. ASSUME NEW p \in Prices, lad[s][p].count # 0, x = <<s, p, lad[s][p].total, lad[s][p].count>>
        PROVE  \E l \in T(s) : x = <<s, l[1], l[2], l[3]>>
    <3> DEFINE l == <<p, lad[s][p].total, lad[s][p].count>>
    <3>1. l \in T(s) /\ x = <<s, l[1], l[2], l[3]>>
      BY <2>2
    <3> HIDE DEF l
    <3> QED BY <3>1
  <2> QED BY <2>1, <2>2
<1> HIDE DEF T
<1> QED BY <1>1, <1>2, <1>3

LEMMA DisplayedOnce ==
  ASSUME NEW book, Sound(book)
  PROVE  OneEach(Displayed(book.levels)) /\ \A l \in Displayed(book.levels) : l[3] # 0
<1> DEFINE lad == book.levels
<1>1. \A x : x \in Displayed(lad) <=>
        \E s \in Sides, p \in Prices :
          lad[s][p].count # 0 /\ x = <<s, p, lad[s][p].total, lad[s][p].count>>
  BY DisplayedLevels
<1>2. ASSUME NEW s \in Sides, NEW p \in Prices, lad[s][p].count # 0 PROVE lad[s][p].total # 0
  <2> DEFINE mine == Mine(book.live, s, p)
  <2>1. lad[s][p].count = Cardinality(mine) /\ lad[s][p].total = Total(book.live, mine)
    BY DEF Sound, LevelOK
  <2>2. Nodes(book.live) /\ mine \in SUBSET DOMAIN book.live
    BY DEF Sound, Mine
  <2> HIDE DEF mine, lad
  <2>3. Counted(book.live, mine) /\ \A o \in mine : book.live[o].remaining > 0
    BY <2>2, MineCounted, NodeFields
  <2>4. PICK o \in mine : TRUE
    <3>1. mine # {}
      BY <1>2, <2>1, FS_EmptySet
    <3> QED BY <3>1
  <2>5. Total(book.live, {}) < Total(book.live, mine)
    <3>1. Counted(book.live, {})
      BY FS_EmptySet DEF Counted
    <3>2. {} \subseteq mine /\ \A x \in {} : book.live[x].remaining <= book.live[x].remaining
      OBVIOUS
    <3>3. \A x \in mine : book.live[x].remaining > 0 /\ (x \in {} => book.live[x].remaining < book.live[x].remaining)
                            => Total(book.live, {}) < Total(book.live, mine)
      BY <2>3, <3>1, <3>2, TotalFalls
    <3> QED BY <2>3, <2>4, <3>3
  <2> QED BY <2>1, <2>5, TotalOfNothing
<1> HIDE DEF lad
<1>3. \A l \in Displayed(lad) : l[3] # 0
  <2> TAKE l \in Displayed(lad)
  <2>1. PICK s \in Sides, p \in Prices :
          lad[s][p].count # 0 /\ l = <<s, p, lad[s][p].total, lad[s][p].count>>
    BY <1>1
  <2> QED BY <1>2, <2>1
<1>4. OneEach(Displayed(lad))
  <2> SUFFICES ASSUME NEW l \in Displayed(lad), NEW m \in Displayed(lad), SameLevel(l, m)
               PROVE  l = m
    BY DEF OneEach
  <2>1. PICK s \in Sides, p \in Prices : l = <<s, p, lad[s][p].total, lad[s][p].count>>
    BY <1>1
  <2>2. PICK t \in Sides, q \in Prices : m = <<t, q, lad[t][q].total, lad[t][q].count>>
    BY <1>1
  <2>3. s = t /\ p = q
    BY <2>1, <2>2 DEF SameLevel
  <2> QED BY <2>1, <2>2, <2>3
<1> QED BY <1>3, <1>4 DEF lad

\* A view that applies what changed between two books shows the second one.
LEMMA AppliedShows ==
  ASSUME NEW A, NEW B, OneEach(A), OneEach(B), \A l \in B : l[3] # 0
  PROVE  Applied(A, DepthDelta(A, B)) = B
<1> DEFINE D == DepthDelta(A, B)
           Z == {<<l[1], l[2], 0, 0>> : l \in {m \in A : \A n \in B : ~SameLevel(m, n)}}
<1>1. D = (B \ A) \cup Z
  BY DEF DepthDelta
<1>2. \A x : x \in Z <=> \E m \in A : (\A n \in B : ~SameLevel(m, n)) /\ x = <<m[1], m[2], 0, 0>>
  OBVIOUS
<1>3. \A x : x \in Applied(A, D) <=> (x \in A /\ \A d \in D : ~SameLevel(x, d)) \/ (x \in D /\ x[3] # 0)
  BY DEF Applied
<1> HIDE DEF D, Z
<1>4. ASSUME NEW x \in B PROVE x \in Applied(A, D)
  <2>1. CASE x \notin A
    BY <1>1, <1>3, <2>1
  <2>2. CASE x \in A
    <3> SUFFICES ASSUME NEW d \in D, SameLevel(x, d) PROVE FALSE
      BY <1>3, <2>2
    <3>1. CASE d \in B \ A
      BY <2>2, <3>1 DEF OneEach
    <3>2. CASE d \in Z
      <4>1. PICK m \in A : (\A n \in B : ~SameLevel(m, n)) /\ d = <<m[1], m[2], 0, 0>>
        BY <1>2, <3>2
      <4>2. SameLevel(m, x)
        BY <4>1 DEF SameLevel
      <4> QED BY <4>1, <4>2
    <3> QED BY <1>1, <3>1, <3>2
  <2> QED BY <2>1, <2>2
<1>5. ASSUME NEW x \in Applied(A, D) PROVE x \in B
  <2>1. CASE x \in A /\ \A d \in D : ~SameLevel(x, d)
    <3> SUFFICES ASSUME x \notin B PROVE FALSE
      OBVIOUS
    <3>1. ASSUME NEW n \in B, SameLevel(x, n) PROVE FALSE
      <4>1. n \notin A
        BY <2>1, <3>1 DEF OneEach
      <4> QED BY <1>1, <2>1, <3>1, <4>1
    <3>2. <<x[1], x[2], 0, 0>> \in Z
      BY <1>2, <2>1, <3>1
    <3>3. SameLevel(x, <<x[1], x[2], 0, 0>>)
      BY DEF SameLevel
    <3> QED BY <1>1, <2>1, <3>2, <3>3
  <2>2. CASE x \in D /\ x[3] # 0
    <3>1. x \notin Z
      <4> SUFFICES ASSUME x \in Z PROVE FALSE
        OBVIOUS
      <4>1. PICK m \in A : x = <<m[1], m[2], 0, 0>>
        BY <1>2
      <4>2. x[3] = 0
        BY <4>1
      <4> QED BY <2>2, <4>2
    <3> QED BY <1>1, <2>2, <3>1
  <2> QED BY <1>3, <2>1, <2>2
<1> QED BY <1>4, <1>5 DEF D

LEMMA NothingChanged == \A A : DepthDelta(A, A) = {}
<1> TAKE A
<1>1. \A m \in A : SameLevel(m, m)
  BY DEF SameLevel
<1> QED BY <1>1 DEF DepthDelta

-----------------------------------------------------------------------------
(* 12. The invariant. *)

\* Numbers handed out so far: each is an identifier, and every live order has
\* one of them.
OrderNumbers ==
  /\ nextOrder \in Nat \ {0} /\ 1..(nextOrder - 1) \subseteq Orders
  /\ \A o \in DOMAIN live : o < nextOrder

\* The inductive invariant of a market.
IInv ==
  /\ BookInv
  /\ OrderNumbers
  /\ status \in Statuses
  /\ nextEvent \in 1..(EventCapacity + 1)
  /\ ViewIsBook
  /\ ClosedMarketsAreEmpty

LEMMA InvInit == ExchangeInit => IInv
<1> SUFFICES ASSUME ExchangeInit PROVE IInv
  OBVIOUS
<1>1. BookInv
  BY BookInit DEF ExchangeInit
<1>2. /\ live = NoBook.live /\ levels = NoBook.levels /\ status = "Open" /\ nextOrder = 1
      /\ nextEvent = 1 /\ view = {}
  BY DEF ExchangeInit, Init
<1>3. OrderNumbers
  BY <1>2, EmptyBook DEF OrderNumbers
<1>4. Displayed(levels) = {}
  <2>1. \A s \in Sides, p \in Prices : levels[s][p].count = 0
    BY <1>2 DEF NoBook, EmptyLevel
  <2> QED BY <2>1, DisplayedLevels
<1>5. nextEvent \in 1..(EventCapacity + 1)
  BY <1>2, ExchangeAssumption
<1> QED BY <1>1, <1>2, <1>3, <1>4, <1>5 DEF IInv, ViewIsBook, ClosedMarketsAreEmpty, Statuses

\* Every emission keeps the view, and takes one number more than its count
\* exactly when the displayed book has changed.
LEMMA EmitKeepsView ==
  ASSUME BookInv, BookInv', ViewIsBook, NEW count, Emit(count)
  PROVE  /\ ViewIsBook'
         /\ nextEvent' = nextEvent + count + (IF Snapshot(levels) = Snapshot(levels') THEN 0 ELSE 1)
<1> DEFINE A == Displayed(levels)
           B == Displayed(levels')
<1>1. /\ nextEvent' = nextEvent + count + (IF DepthDelta(A, B) = {} THEN 0 ELSE 1)
      /\ view' = Applied(view, DepthDelta(A, B))
  BY DEF Emit
<1>2. Sound(Book) /\ Sound([live |-> live', levels |-> levels'])
  BY DEF BookInv, BookOK, Book
<1>3. OneEach(A) /\ OneEach(B) /\ \A l \in B : l[3] # 0
  <2>1. OneEach(Displayed(Book.levels))
    BY <1>2, DisplayedOnce
  <2> DEFINE b == [live |-> live', levels |-> levels']
  <2>2. b.levels = levels'
    OBVIOUS
  <2> HIDE DEF b
  <2>3. OneEach(Displayed(b.levels)) /\ \A l \in Displayed(b.levels) : l[3] # 0
    BY <1>2, DisplayedOnce DEF b
  <2> QED BY <2>1, <2>2, <2>3, BookParts
<1>4. Applied(A, DepthDelta(A, B)) = B
  BY <1>3, AppliedShows
<1>5. view = A
  BY DEF ViewIsBook
<1>6. ViewIsBook'
  BY <1>1, <1>4, <1>5 DEF ViewIsBook
<1>7. Snapshot(levels) = Snapshot(levels') => DepthDelta(A, B) = {}
  <2> HAVE Snapshot(levels) = Snapshot(levels')
  <2>1. A = B
    BY DEF Displayed
  <2> QED BY <2>1, NothingChanged
<1>8. DepthDelta(A, B) = {} => Snapshot(levels) = Snapshot(levels')
  <2> HAVE DepthDelta(A, B) = {}
  <2>1. Applied(A, {}) = A
    BY DEF Applied
  <2>2. A = B
    BY <1>4, <2>1
  <2> DEFINE T(lad, s) == {<<p, lad[s][p].total, lad[s][p].count>> : p \in {q \in Prices : lad[s][q].count # 0}}
  <2>3. Snapshot(levels) = [s \in Sides |-> T(levels, s)] /\ Snapshot(levels') = [s \in Sides |-> T(levels', s)]
    BY DEF Snapshot
  <2>4. ASSUME NEW s \in Sides PROVE T(levels, s) = T(levels', s)
    <3>1. \A x : x \in A <=> \E t \in Sides, p \in Prices :
            levels[t][p].count # 0 /\ x = <<t, p, levels[t][p].total, levels[t][p].count>>
      BY DisplayedLevels
    <3>2. \A x : x \in B <=> \E t \in Sides, p \in Prices :
            levels'[t][p].count # 0 /\ x = <<t, p, levels'[t][p].total, levels'[t][p].count>>
      BY DisplayedLevels
    <3> HIDE DEF A, B
    <3>3. \A t, c : \A p \in Prices :
            <<s, p, t, c>> \in A <=> levels[s][p].count # 0 /\ t = levels[s][p].total /\ c = levels[s][p].count
      BY <3>1
    <3>4. \A t, c : \A p \in Prices :
            <<s, p, t, c>> \in B <=> levels'[s][p].count # 0 /\ t = levels'[s][p].total /\ c = levels'[s][p].count
      BY <3>2
    <3>5. \A p \in Prices :
            /\ levels[s][p].count # 0 <=> levels'[s][p].count # 0
            /\ levels[s][p].count # 0 => /\ levels'[s][p].total = levels[s][p].total
                                         /\ levels'[s][p].count = levels[s][p].count
      <4> TAKE p \in Prices
      <4>1. <<s, p, levels[s][p].total, levels[s][p].count>> \in A <=> levels[s][p].count # 0
        BY <3>3
      <4>2. <<s, p, levels[s][p].total, levels[s][p].count>> \in B
              <=> /\ levels'[s][p].count # 0
                  /\ levels[s][p].total = levels'[s][p].total /\ levels[s][p].count = levels'[s][p].count
        BY <3>4
      <4>3. <<s, p, levels'[s][p].total, levels'[s][p].count>> \in B <=> levels'[s][p].count # 0
        BY <3>4
      <4>4. <<s, p, levels'[s][p].total, levels'[s][p].count>> \in A
              <=> /\ levels[s][p].count # 0
                  /\ levels'[s][p].total = levels[s][p].total /\ levels'[s][p].count = levels[s][p].count
        BY <3>3
      <4> QED BY <2>2, <4>1, <4>2, <4>3, <4>4
    <3> QED BY <3>5
  <2> HIDE DEF T
  <2> QED BY <2>3, <2>4
<1> QED BY <1>1, <1>6, <1>7, <1>8

LEMMA RejectKeeps ==
  ASSUME IInv, HasCapacity(1), Reject
  PROVE  IInv'
<1>1. UNCHANGED <<live, levels, nextPriority, nextTrade, status, nextOrder>> /\ Emit(1)
  BY DEF Reject, vars
<1>2. BookInv'
  BY <1>1 DEF IInv, BookInv, Book
<1>3. ViewIsBook' /\ nextEvent' = nextEvent + 1
  BY <1>1, <1>2, EmitKeepsView, ExchangeAssumption DEF IInv
<1>4. nextEvent' \in 1..(EventCapacity + 1)
  BY <1>3, ExchangeAssumption DEF IInv, HasCapacity
<1>5. OrderNumbers' /\ ClosedMarketsAreEmpty' /\ status' \in Statuses
  BY <1>1 DEF IInv, OrderNumbers, ClosedMarketsAreEmpty, NoBook
<1> QED BY <1>2, <1>3, <1>4, <1>5 DEF IInv

LEMMA IncomingOrder ==
  ASSUME nextOrder \in Orders, NEW r \in SubmitOrderRequest
  PROVE  OrderOf(r) \in Incoming
BY DEF SubmitOrderRequest, OrderOf, Incoming

LEMMA AcceptKeeps ==
  ASSUME IInv, NEW r \in SubmitOrderRequest, TakesOrders, nextOrder \in Orders,
         HasCapacity(PlannedEvents(r)), Accept(r)
  PROVE  IInv'
<1> DEFINE in == OrderOf(r)
<1>1. in \in Incoming /\ in.id = nextOrder
  BY IncomingOrder DEF OrderOf
<1>2. Submit(in) /\ nextOrder' = nextOrder + 1 /\ status' = status /\ Emit(2 + nextTrade' - nextTrade)
  BY DEF Accept
<1> HIDE DEF in
<1>3. BookInv /\ Sound(Book) /\ Submittable(in) /\ nextPriority \in Nat
  BY <1>1, IncomingFields, LadderAssumption DEF IInv, BookInv, BookOK
<1>4. BookInv'
  BY <1>1, <1>2, <1>3, SubmitKeepsBook
<1>5. PICK n : PlanOK(in, n)
  BY <1>3, PlanIsOK
<1>6. nextTrade' = nextTrade + n /\ n \in Nat /\ nextTrade \in Nat
  BY <1>1, <1>2, <1>3, <1>5, SubmitKeepsNumbers, LadderAssumption DEF BookInv
<1>7. PreviewIsExact(in)
  BY <1>1, <1>2, <1>3, SubmitIsPreviewed
<1>8. /\ Preview(in).execution_count = n
      /\ Preview(in).changes_displayed_depth <=> Snapshot(levels) # Snapshot(levels')
  BY <1>6, <1>7 DEF PreviewIsExact
<1>9. 2 + nextTrade' - nextTrade = 2 + n
  BY <1>6
<1>10. /\ ViewIsBook'
       /\ nextEvent' = nextEvent + (2 + n) + (IF Snapshot(levels) = Snapshot(levels') THEN 0 ELSE 1)
  BY <1>2, <1>3, <1>4, <1>9, EmitKeepsView DEF IInv
<1>11. PlannedEvents(r) = 2 + n + (IF Snapshot(levels) = Snapshot(levels') THEN 0 ELSE 1)
  BY <1>8 DEF PlannedEvents, in
<1>12. nextEvent' \in 1..(EventCapacity + 1)
  BY <1>6, <1>10, <1>11, ExchangeAssumption DEF IInv, HasCapacity
<1>13. SubmitAccepted(in) /\ live' = Submitted(in).live
  BY <1>2, SubmitIs
<1>14. /\ Shrunk(Filled(in).live, live)
       /\ Submitted(in).live
            = IF Rests(in, PlanMatches(in))
              THEN [x \in DOMAIN Filled(in).live \cup {in.id} |->
                      IF x = in.id THEN NewNode(in) ELSE Filled(in).live[x]]
              ELSE Filled(in).live
  BY <1>1, <1>3, <1>5, <1>13, SubmittedIsOK DEF BookInv
<1>15. DOMAIN live' \subseteq DOMAIN live \cup {nextOrder}
  BY <1>1, <1>13, <1>14 DEF Shrunk
<1>16. OrderNumbers'
  <2>1. nextOrder \in Nat \ {0} /\ 1..(nextOrder - 1) \subseteq Orders /\ \A o \in DOMAIN live : o < nextOrder
    BY DEF IInv, OrderNumbers
  <2>2. nextOrder' \in Nat \ {0} /\ 1..(nextOrder' - 1) \subseteq Orders
    <3>1. \A i \in 1..(nextOrder' - 1) : i \in 1..(nextOrder - 1) \/ i = nextOrder
      BY <1>2, <2>1
    <3> QED BY <1>2, <2>1, <3>1
  <2>3. \A o \in DOMAIN live' : o < nextOrder'
    <3> TAKE o \in DOMAIN live'
    <3>1. CASE o = nextOrder
      BY <1>2, <2>1, <3>1
    <3>2. CASE o \in DOMAIN live
      <4>1. o \in Nat
        BY <1>3, <3>2, BookParts, ExchangeAssumption DEF Sound, Nodes
      <4> QED BY <1>2, <2>1, <3>2, <4>1
    <3> QED BY <1>15, <3>1, <3>2
  <2> QED BY <2>2, <2>3 DEF OrderNumbers
<1>17. ClosedMarketsAreEmpty' /\ status' \in Statuses
  BY <1>2 DEF IInv, ClosedMarketsAreEmpty, TakesOrders
<1> QED BY <1>4, <1>10, <1>12, <1>16, <1>17 DEF IInv

LEMMA CancelKeeps ==
  ASSUME IInv, NEW t, NEW o, OwnsLive(t, o), HasCapacity(2), Cancel(o), Emit(1), UNCHANGED <<status, nextOrder>>
  PROVE  IInv'
<1>1. BookInv' /\ o \in DOMAIN live /\ live' = [x \in DOMAIN live \ {o} |-> live[x]]
  BY CancelKeepsBook DEF IInv
<1>2. ViewIsBook' /\ nextEvent' = nextEvent + 1 + (IF Snapshot(levels) = Snapshot(levels') THEN 0 ELSE 1)
  BY <1>1, EmitKeepsView DEF IInv
<1>3. nextEvent' \in 1..(EventCapacity + 1)
  BY <1>2, ExchangeAssumption DEF IInv, HasCapacity
<1>4. OrderNumbers' /\ status' \in Statuses
  BY <1>1 DEF IInv, OrderNumbers
<1>5. ClosedMarketsAreEmpty'
  <2>1. status \notin {"Closed", "Settled"}
    BY <1>1, EmptyBook DEF IInv, ClosedMarketsAreEmpty
  <2> QED BY <2>1 DEF ClosedMarketsAreEmpty
<1> QED BY <1>1, <1>2, <1>3, <1>4, <1>5 DEF IInv

-----------------------------------------------------------------------------
(* 13. Closing. *)

LEMMA CancelAllSteps ==
  ASSUME Len(ByPriority) \in Nat
  PROVE  \E after : /\ after[0] = Book
                    /\ \A k \in 1..Len(ByPriority) : after[k] = Unlink(after[k - 1], ByPriority[k])
                    /\ CancelAll = after[Len(ByPriority)]
<1> DEFINE l == ByPriority
           n == Len(l)
           G == {m \in 0..n : \E f : f = [k \in 0..m |-> IF k = 0 THEN Book ELSE Unlink(f[k - 1], l[k])]}
<1> HIDE DEF l
<1>1. 0 \in G
  <2> DEFINE f == [k \in 0..0 |-> Book]
  <2>1. f = [k \in 0..0 |-> IF k = 0 THEN Book ELSE Unlink(f[k - 1], l[k])]
    <3>1. \A k \in 0..0 : k = 0
      OBVIOUS
    <3> QED BY <3>1
  <2> HIDE DEF f
  <2>2. \E g : g = [k \in 0..0 |-> IF k = 0 THEN Book ELSE Unlink(g[k - 1], l[k])]
    BY <2>1
  <2>3. n \in Nat
    BY DEF l
  <2> QED BY <2>2, <2>3
<1>2. ASSUME NEW m \in 0..(n - 1), m \in G PROVE m + 1 \in G
  <2>1. PICK f : f = [k \in 0..m |-> IF k = 0 THEN Book ELSE Unlink(f[k - 1], l[k])]
    BY <1>2
  <2> DEFINE g == [k \in 0..(m + 1) |-> IF k <= m THEN f[k] ELSE Unlink(f[m], l[m + 1])]
  <2>2. \A k \in 0..(m + 1) : g[k] = IF k = 0 THEN Book ELSE Unlink(g[k - 1], l[k])
    <3> TAKE k \in 0..(m + 1)
    <3>1. CASE k = 0
      BY <2>1, <3>1
    <3>2. CASE k \in 1..m
      <4>1. g[k] = f[k] /\ g[k - 1] = f[k - 1]
        BY <3>2
      <4>2. f[k] = Unlink(f[k - 1], l[k])
        BY <2>1, <3>2
      <4> HIDE DEF g
      <4> QED BY <3>2, <4>1, <4>2
    <3>3. CASE k = m + 1
      <4>1. g[k] = Unlink(f[m], l[m + 1]) /\ g[k - 1] = f[m]
        BY <3>3
      <4> HIDE DEF g
      <4> QED BY <3>3, <4>1
    <3> QED BY <3>1, <3>2, <3>3
  <2>3. g = [k \in 0..(m + 1) |-> g[k]]
    OBVIOUS
  <2> HIDE DEF g
  <2>4. g = [k \in 0..(m + 1) |-> IF k = 0 THEN Book ELSE Unlink(g[k - 1], l[k])]
    BY <2>2, <2>3
  <2>5. \E h : h = [k \in 0..(m + 1) |-> IF k = 0 THEN Book ELSE Unlink(h[k - 1], l[k])]
    BY <2>4
  <2>6. m + 1 \in 0..n
    BY DEF l
  <2> QED BY <2>5, <2>6
<1>3. n \in G
  <2>1. n \in Nat
    BY DEF l
  <2> HIDE DEF G
  <2>2. \A k \in 0..n : k \in G
    BY <1>1, <1>2, <2>1, Climb
  <2> QED BY <2>1, <2>2
<1> DEFINE after == CHOOSE f : f = [k \in 0..n |-> IF k = 0 THEN Book ELSE Unlink(f[k - 1], l[k])]
<1>4. after = [k \in 0..n |-> IF k = 0 THEN Book ELSE Unlink(after[k - 1], l[k])]
  BY <1>3
<1>5. CancelAll = after[n]
  BY DEF CancelAll, l
<1> HIDE DEF after
<1>6. after[0] = Book /\ \A k \in 1..n : after[k] = Unlink(after[k - 1], l[k])
  BY <1>4 DEF l
<1> QED BY <1>5, <1>6 DEF l

\* Cancelling the orders one by one leaves the empty book.
LEMMA CancelAllEmpties ==
  ASSUME BookInv
  PROVE  CancelAll = NoBook
<1> DEFINE l == ByPriority
           n == Len(l)
           rest(k) == DOMAIN live \ {l[i] : i \in 1..k}
<1>1. Sound(Book) /\ BookOK(Book, nextPriority)
  BY DEF BookInv, BookOK
<1>2. /\ n \in Nat
      /\ \A k \in 1..n : l[k] \in DOMAIN live
      /\ \A o \in DOMAIN live : \E k \in 1..n : l[k] = o
      /\ \A i, j \in 1..n : i < j => live[l[i]].priority < live[l[j]].priority
  BY <1>1, ByPriorityLists
<1>3. \A o \in DOMAIN live : live[o].priority \in Nat
  BY <1>1, NodeFields, BookParts DEF Sound
<1>4. PICK after : /\ after[0] = Book
                   /\ \A k \in 1..n : after[k] = Unlink(after[k - 1], l[k])
                   /\ CancelAll = after[n]
  BY <1>2, CancelAllSteps
<1>5. live = [o \in DOMAIN live |-> live[o]]
  BY <1>1, BookParts DEF Sound, Nodes
<1> DEFINE OK(k) == Sound(after[k]) /\ after[k].live = [o \in rest(k) |-> live[o]]
           G == {k \in 0..n : OK(k)}
<1> HIDE DEF l, n
<1>6. 0 \in G
  <2>1. rest(0) = DOMAIN live
    OBVIOUS
  <2>2. after[0].live = [o \in DOMAIN live |-> live[o]]
    BY <1>4, <1>5, BookParts
  <2> QED BY <1>1, <1>2, <1>4, <2>1, <2>2
<1>7. ASSUME NEW k \in 0..(n - 1), k \in G PROVE k + 1 \in G
  <2> DEFINE j == k + 1
             b == after[k]
             o == l[j]
  <2>1. j \in 1..n /\ j - 1 = k /\ j \in 0..n
    BY <1>2
  <2>2. o \in DOMAIN live /\ \A i \in 1..k : l[i] # o
    <3>1. \A i \in 1..k : i \in 1..n /\ i < j
      BY <1>2
    <3> QED BY <1>2, <1>3, <2>1, <3>1
  <2>3. o \in rest(k) /\ rest(k) \ {o} = rest(j)
    <3>1. \A i : i \in 1..j <=> i \in 1..k \/ i = j
      BY <1>2
    <3> QED BY <2>2, <3>1
  <2>4. Sound(b) /\ b.live = [x \in rest(k) |-> live[x]]
    BY <1>7
  <2> HIDE DEF rest, b, o, j
  <2>5. o \in DOMAIN b.live
    BY <2>3, <2>4
  <2>6. after[j] = Unlink(b, o)
    BY <1>4, <2>1 DEF b, o
  <2>7. Sound(Unlink(b, o)) /\ Unlink(b, o).live = [x \in DOMAIN b.live \ {o} |-> b.live[x]]
    BY <2>4, <2>5, Unlinking
  <2>8. after[j].live = [x \in rest(j) |-> live[x]]
    BY <2>3, <2>4, <2>6, <2>7
  <2>9. j \in G
    BY <2>1, <2>6, <2>7, <2>8
  <2> QED BY <2>9 DEF j
<1>8. OK(n)
  <2> HIDE DEF G
  <2>1. \A k \in 0..n : k \in G
    BY <1>2, <1>6, <1>7, Climb
  <2> QED BY <1>2, <2>1 DEF G
<1>9. rest(n) = {}
  BY <1>2
<1> HIDE DEF rest
<1>10. after[n].live = [o \in {} |-> live[o]] /\ Sound(after[n])
  BY <1>8, <1>9
<1>11. after[n].live = NoBook.live
  BY <1>10, EmptyBook
<1> QED BY <1>4, <1>10, <1>11, EmptyBook, OneBook

\* Nothing rested, and closing changes nothing.
LEMMA EmptyBookIs ==
  ASSUME BookInv, DOMAIN live = {}
  PROVE  live = NoBook.live /\ levels = NoBook.levels
<1>1. Sound(Book) /\ live = [o \in DOMAIN live |-> live[o]]
  BY BookParts DEF BookInv, BookOK, Sound, Nodes
<1>2. Book.live = NoBook.live
  BY <1>1, EmptyBook, BookParts
<1> QED BY <1>1, <1>2, EmptyBook, OneBook, BookParts

LEMMA LifecycleKeeps ==
  ASSUME IInv, NEW target \in Statuses, ValidTransition(status, target), HasCapacity(1), status' = target,
         UNCHANGED <<nextPriority, nextTrade, nextOrder>>,
         IF target = "Closed" THEN CloseBook ELSE UNCHANGED <<live, levels>> /\ Emit(1)
  PROVE  IInv' /\ DOMAIN live' \subseteq DOMAIN live /\ \A o \in DOMAIN live' : live'[o] = live[o]
<1>1. CASE target # "Closed"
  <2>1. UNCHANGED <<live, levels>> /\ Emit(1)
    BY <1>1
  <2>2. BookInv'
    BY <2>1 DEF IInv, BookInv, Book
  <2>3. ViewIsBook' /\ nextEvent' = nextEvent + 1
    BY <2>1, <2>2, EmitKeepsView, ExchangeAssumption DEF IInv
  <2>4. nextEvent' \in 1..(EventCapacity + 1)
    BY <2>3, ExchangeAssumption DEF IInv, HasCapacity
  <2>5. status \in {"Closed", "Settled"} \/ target = "Open" \/ target = "Halted"
    BY <1>1 DEF ValidTransition
  <2>6. ClosedMarketsAreEmpty'
    BY <1>1, <2>1, <2>5 DEF IInv, ClosedMarketsAreEmpty, NoBook
  <2>7. OrderNumbers'
    BY <2>1 DEF IInv, OrderNumbers
  <2> QED BY <2>1, <2>2, <2>3, <2>4, <2>6, <2>7 DEF IInv
<1>2. CASE target = "Closed"
  <2> DEFINE resting == Cardinality(DOMAIN live)
  <2>1. /\ HasCapacity(1 + resting + (IF resting = 0 THEN 0 ELSE 1))
        /\ live' = NoBook.live /\ levels' = NoBook.levels /\ Emit(1 + resting)
    BY <1>2, CancelAllEmpties DEF IInv, CloseBook
  <2>2. resting \in Nat /\ (resting = 0 => DOMAIN live = {})
    <3>1. IsFiniteSet(DOMAIN live)
      BY BookParts DEF IInv, BookInv, BookOK, Sound, Nodes
    <3> QED BY <3>1, FS_CardinalityType, FS_EmptySet
  <2>3. BookInv'
    <3>1. Book' = NoBook
      BY <2>1 DEF Book, NoBook
    <3>2. BookOK(Book', nextPriority')
      BY <3>1, EmptyBookIsOK
    <3> QED BY <3>2 DEF BookInv, IInv
  <2>4. /\ ViewIsBook'
        /\ nextEvent' = nextEvent + (1 + resting) + (IF Snapshot(levels) = Snapshot(levels') THEN 0 ELSE 1)
    BY <2>1, <2>3, EmitKeepsView DEF IInv
  <2>5. resting = 0 => Snapshot(levels) = Snapshot(levels')
    BY <2>1, <2>2, EmptyBookIs DEF IInv
  <2> HIDE DEF resting
  <2>6. nextEvent' \in 1..(EventCapacity + 1)
    BY <2>1, <2>2, <2>4, <2>5, ExchangeAssumption DEF IInv, HasCapacity
  <2>7. OrderNumbers' /\ DOMAIN live' = {}
    BY <2>1, EmptyBook DEF IInv, OrderNumbers
  <2>8. ClosedMarketsAreEmpty'
    BY <2>1 DEF ClosedMarketsAreEmpty, NoBook
  <2> QED BY <2>3, <2>4, <2>6, <2>7, <2>8 DEF IInv
<1> QED BY <1>1, <1>2

-----------------------------------------------------------------------------
(* 14. The steps. *)

\* The four things a command can do.
LEMMA Commands ==
  ASSUME ExchangeNext
  PROVE  \/ HasCapacity(1) /\ Reject
         \/ \E r \in SubmitOrderRequest :
              /\ TakesOrders /\ nextOrder \in Orders /\ ~Invalid(r)
              /\ HasCapacity(PlannedEvents(r)) /\ Accept(r)
         \/ \E t \in Traders, o \in Orders :
              /\ status # "Settled" /\ OwnsLive(t, o) /\ HasCapacity(2)
              /\ Cancel(o) /\ Emit(1) /\ UNCHANGED <<status, nextOrder>>
         \/ \E target \in Statuses :
              /\ ValidTransition(status, target) /\ HasCapacity(1) /\ status' = target
              /\ UNCHANGED <<nextPriority, nextTrade, nextOrder>>
              /\ IF target = "Closed" THEN CloseBook ELSE UNCHANGED <<live, levels>> /\ Emit(1)
<1>1. ASSUME NEW r \in SubmitOrderRequest, ProcessSubmit(r)
      PROVE  \/ HasCapacity(1) /\ Reject
             \/ /\ TakesOrders /\ nextOrder \in Orders /\ ~Invalid(r)
                /\ HasCapacity(PlannedEvents(r)) /\ Accept(r)
  BY <1>1, Zenon DEF ProcessSubmit
<1>2. ASSUME NEW t \in Traders, NEW o \in Orders, ProcessCancel(t, o)
      PROVE  \/ HasCapacity(1) /\ Reject
             \/ /\ status # "Settled" /\ OwnsLive(t, o) /\ HasCapacity(2)
                /\ Cancel(o) /\ Emit(1) /\ UNCHANGED <<status, nextOrder>>
  BY <1>2, Zenon DEF ProcessCancel
<1>3. ASSUME NEW target \in Statuses, ProcessLifecycle(target)
      PROVE  \/ HasCapacity(1) /\ Reject
             \/ /\ ValidTransition(status, target) /\ HasCapacity(1) /\ status' = target
                /\ UNCHANGED <<nextPriority, nextTrade, nextOrder>>
                /\ IF target = "Closed" THEN CloseBook ELSE UNCHANGED <<live, levels>> /\ Emit(1)
  BY <1>3, Zenon DEF ProcessLifecycle
<1> QED BY <1>1, <1>2, <1>3, Zenon DEF ExchangeNext

LEMMA InvNext == IInv /\ [ExchangeNext]_exchangeVars => IInv'
<1> SUFFICES ASSUME IInv, [ExchangeNext]_exchangeVars PROVE IInv'
  OBVIOUS
<1>1. CASE UNCHANGED exchangeVars
  <2>1. UNCHANGED <<live, levels, nextPriority, nextTrade, status, nextOrder, nextEvent, view>>
    BY <1>1 DEF exchangeVars, vars, market
  <2>2. BookInv'
    BY <2>1 DEF IInv, BookInv, Book
  <2>3. OrderNumbers' /\ ViewIsBook' /\ ClosedMarketsAreEmpty'
    BY <2>1 DEF IInv, OrderNumbers, ViewIsBook, ClosedMarketsAreEmpty, NoBook
  <2> QED BY <2>1, <2>2, <2>3 DEF IInv
<1>2. CASE HasCapacity(1) /\ Reject
  BY <1>2, RejectKeeps
<1>3. ASSUME NEW r \in SubmitOrderRequest, TakesOrders, nextOrder \in Orders,
             HasCapacity(PlannedEvents(r)), Accept(r)
      PROVE  IInv'
  BY <1>3, AcceptKeeps
<1>4. ASSUME NEW t \in Traders, NEW o \in Orders, OwnsLive(t, o), HasCapacity(2), Cancel(o), Emit(1),
             UNCHANGED <<status, nextOrder>>
      PROVE  IInv'
  BY <1>4, CancelKeeps
<1>5. ASSUME NEW target \in Statuses, ValidTransition(status, target), HasCapacity(1), status' = target,
             UNCHANGED <<nextPriority, nextTrade, nextOrder>>,
             IF target = "Closed" THEN CloseBook ELSE UNCHANGED <<live, levels>> /\ Emit(1)
      PROVE  IInv'
  BY <1>5, LifecycleKeeps
<1> QED BY <1>1, <1>2, <1>3, <1>4, <1>5, Commands

\* The market's invariant holds in every state.
THEOREM MarketInvariant == ExchangeSpec => []IInv
BY InvInit, InvNext, PTL DEF ExchangeSpec

-----------------------------------------------------------------------------
(* 15. The results. *)

\* The book is what validate_invariants asks for, never crossed, and its
\* checkpoint restores it.
THEOREM BookStaysConsistent == ExchangeSpec => []BookConsistent
<1>1. IInv => BookConsistent
  BY BookInvIsConsistent DEF IInv
<1> QED BY <1>1, MarketInvariant, PTL

LEMMA OrdersCounted ==
  ASSUME OrderNumbers
  PROVE  nextOrder \in 1..(Cardinality(Orders) + 1)
<1>1. nextOrder \in Nat \ {0} /\ 1..(nextOrder - 1) \subseteq Orders /\ IsFiniteSet(Orders)
  BY ExchangeAssumption DEF OrderNumbers
<1>2. Cardinality(1..(nextOrder - 1)) <= Cardinality(Orders) /\ Cardinality(Orders) \in Nat
  BY <1>1, FS_Subset, FS_CardinalityType
<1>3. Cardinality(1..(nextOrder - 1)) = nextOrder - 1
  BY <1>1, FS_Interval
<1> QED BY <1>1, <1>2, <1>3

\* No number runs out, the depth events show the book, and a closed market is
\* empty.
THEOREM MarketStaysConsistent == ExchangeSpec => []MarketConsistent
<1>1. IInv => MarketConsistent
  BY OrdersCounted DEF IInv, MarketConsistent, EventsWithinCapacity
<1> QED BY <1>1, MarketInvariant, PTL

\* An order executes only after every order with priority over it is gone.
THEOREM ExecutionsFollowPriority == ExchangeSpec => PriceTimePriority
<1> DEFINE Rule == \A a, b \in DOMAIN live :
                     /\ nextTrade' # nextTrade
                     /\ Ahead(a, b)
                     /\ b \in DOMAIN live' => live'[b].remaining < live[b].remaining
                     => a \notin DOMAIN live'
<1>1. IInv /\ [ExchangeNext]_exchangeVars => [Rule]_vars
  <2> SUFFICES ASSUME IInv, [ExchangeNext]_exchangeVars, nextTrade' # nextTrade,
                      NEW a \in DOMAIN live, NEW b \in DOMAIN live, Ahead(a, b),
                      b \in DOMAIN live' => live'[b].remaining < live[b].remaining
               PROVE  a \notin DOMAIN live'
    OBVIOUS
  <2>1. ~UNCHANGED exchangeVars
    BY DEF exchangeVars, vars
  <2>2. ~Reject
    BY DEF Reject, vars
  <2>3. \A o : ~Cancel(o)
    BY DEF Cancel
  <2>4. PICK r \in SubmitOrderRequest : nextOrder \in Orders /\ Accept(r)
    BY <2>1, <2>2, <2>3, Commands
  <2>5. OrderOf(r) \in Incoming /\ Submit(OrderOf(r))
    BY <2>4, IncomingOrder DEF Accept
  <2> QED BY <2>5, SubmitKeepsPriority DEF IInv
<1> QED BY <1>1, MarketInvariant, PTL DEF ExchangeSpec, PriceTimePriority

\* A submission conserves quantity and does what its preview told.
THEOREM SubmissionsAreExact == ExchangeSpec => SubmitIsExact
<1> DEFINE Rule == vars' # vars => \A in \in Incoming : Submit(in) => QuantityConserved(in) /\ PreviewIsExact(in)
<1>1. IInv => [Rule]_vars
  BY SubmitConserves, SubmitIsPreviewed DEF IInv
<1> QED BY <1>1, MarketInvariant, PTL DEF SubmitIsExact

\* If any order is crossed, the best displayed level is.
LEMMA WalkWouldTake ==
  ASSUME IInv, NEW r \in SubmitOrderRequest, nextOrder \in Orders, 1 \in DOMAIN Walk(OrderOf(r))
  PROVE  WouldTake(r)
<1> DEFINE in == OrderOf(r)
           walk == Walk(in)
           opp == Opposite(r.side)
           o == walk[1]
           best == live[o].price
<1>1. in \in Incoming /\ in.side = r.side
  BY IncomingOrder DEF OrderOf
<1>2. BookInv /\ Sound(Book) /\ Submittable(in)
  BY <1>1, IncomingFields DEF IInv, BookInv, BookOK
<1>3. WalkOK(in, walk)
  BY <1>2, WalkIsOK DEF Submittable
<1>4. Len(walk) \in Nat /\ DOMAIN walk = 1..Len(walk)
  BY <1>3 DEF WalkOK
<1>5. 1 \in DOMAIN walk
  OBVIOUS
<1> HIDE DEF in
<1>6. o \in DOMAIN live /\ live[o].side = opp /\ Crosses(in, best)
  BY <1>1, <1>3, <1>5 DEF WalkOK
<1>7. /\ opp \in Sides /\ best \in Prices
      /\ \A x \in DOMAIN live : live[x].price \in Nat /\ live[x].side \in Sides /\ live[x].priority \in Nat
  BY <1>2, <1>6, NodeFields, LadderAssumption, BookParts DEF Sound
<1> HIDE DEF walk, o, opp, best
<1>8. best \in Occupied(opp)
  <2>1. o \in Mine(live, opp, best)
    BY <1>6 DEF Mine, best
  <2>2. levels[opp][best].occupied
    BY <1>2, <1>7, <2>1, QueuedOrders
  <2> QED BY <1>7, <2>2 DEF Occupied
<1>9. ASSUME NEW p \in Occupied(opp), Better(opp, p, best) PROVE FALSE
  <2>1. p \in Prices /\ levels[opp][p].occupied
    BY DEF Occupied
  <2>2. PICK x : x \in Mine(live, opp, p)
    BY <1>2, <1>7, <2>1, QueuedOrders
  <2>3. x \in DOMAIN live /\ live[x].side = opp /\ live[x].price = p
    BY <2>2 DEF Mine
  <2>4. Ahead(x, o)
    BY <1>6, <1>9, <2>3 DEF Ahead, Better, best
  <2>5. live[x].side = Opposite(in.side) /\ Crosses(in, live[x].price) /\ x # o /\ ~Ahead(o, x)
    BY <1>1, <1>2, <1>6, <2>3, <2>4, AheadCrosses DEF best, opp
  <2>6. PICK k \in DOMAIN walk : walk[k] = x
    BY <1>3, <2>3, <2>5 DEF WalkOK
  <2>7. 1 < k
    BY <1>4, <2>5, <2>6 DEF o
  <2> QED BY <1>3, <1>5, <2>5, <2>6, <2>7 DEF WalkOK, o
<1> QED BY <1>6, <1>8, <1>9 DEF WouldTake, in, opp

\* An order that executes crossed something.
LEMMA MatchingWouldTake ==
  ASSUME IInv, NEW r \in SubmitOrderRequest, nextOrder \in Orders, Submit(OrderOf(r)), nextTrade' # nextTrade
  PROVE  WouldTake(r)
<1> DEFINE in == OrderOf(r)
<1>1. in \in Incoming
  BY IncomingOrder
<1>2. BookInv /\ Sound(Book) /\ Submittable(in)
  BY <1>1, IncomingFields DEF IInv, BookInv, BookOK
<1>3. PICK n : PlanOK(in, n)
  BY <1>2, PlanIsOK
<1> HIDE DEF in
<1>4. nextTrade' = nextTrade + n /\ n \in Nat /\ nextTrade \in Nat
  BY <1>1, <1>2, <1>3, SubmitKeepsNumbers, LadderAssumption DEF BookInv, in
<1>5. WalkOK(in, Walk(in))
  BY <1>2, WalkIsOK DEF Submittable
<1>6. n # 0 /\ n \in 0..Len(Walk(in)) /\ Len(Walk(in)) \in Nat /\ DOMAIN Walk(in) = 1..Len(Walk(in))
  BY <1>3, <1>4, <1>5 DEF PlanOK, WalkOK
<1>7. 1 \in DOMAIN Walk(in)
  BY <1>4, <1>6
<1> QED BY <1>7, WalkWouldTake DEF in

\* An accepted post-only order meets nothing and rests whole.
LEMMA PostOnlyRests ==
  ASSUME IInv, NEW r \in SubmitOrderRequest, nextOrder \in Orders, r.post_only, ~Invalid(r)
  PROVE  /\ PlanOK(OrderOf(r), 0) /\ PlanMatches(OrderOf(r)).matches = <<>>
         /\ Unmatched(OrderOf(r), PlanMatches(OrderOf(r))) = r.quantity
         /\ Rests(OrderOf(r), PlanMatches(OrderOf(r))) /\ IsLimit(OrderOf(r))
<1> DEFINE in == OrderOf(r)
<1>1. in \in Incoming /\ in.quantity = r.quantity /\ in.price = r.price
  BY IncomingOrder DEF OrderOf
<1>2. Sound(Book) /\ Submittable(in)
  BY <1>1, IncomingFields DEF IInv, BookInv, BookOK
<1>3. PICK n : PlanOK(in, n)
  BY <1>2, PlanIsOK
<1>4. WalkOK(in, Walk(in))
  BY <1>2, WalkIsOK DEF Submittable
<1>5. 1 \notin DOMAIN Walk(in)
  BY WalkWouldTake DEF Invalid
<1>6. IsLimit(in)
  BY <1>1 DEF Invalid, IsLimit
<1> HIDE DEF in
<1>7. Len(Walk(in)) = 0 /\ n = 0
  <2>1. Len(Walk(in)) \in Nat /\ DOMAIN Walk(in) = 1..Len(Walk(in))
    BY <1>4 DEF WalkOK
  <2> QED BY <1>3, <1>5, <2>1 DEF PlanOK
<1>8. /\ PlanOK(in, 0) /\ LeftAfter(in, Walk(in), 0) = in.quantity
      /\ in.quantity \in Nat \ {0}
  BY <1>2, <1>3, <1>4, <1>7, LeftFalls DEF Submittable
<1>9. /\ Unmatched(in, PlanMatches(in)) = in.quantity /\ PlanMatches(in).self_trade_prevented = FALSE
      /\ Len(PlanMatches(in).matches) = 0
  BY <1>7, <1>8 DEF PlanOK
<1>10. Rests(in, PlanMatches(in))
  BY <1>6, <1>8, <1>9 DEF Rests
<1>11. PlanMatches(in).matches = <<>>
  <2>1. PlanMatches(in).matches
          = Planned(in, Walk(in), Cardinality({k \in DOMAIN Walk(in) :
                    /\ LeftAfter(in, Walk(in), k - 1) > 0
                    /\ \A j \in 1..k : live[Walk(in)[j]].trader # in.trader}))
    BY DEF PlanMatches
  <2>2. DOMAIN PlanMatches(in).matches = 1..0
    BY <1>8 DEF PlanOK
  <2>3. PlanMatches(in).matches = [k \in DOMAIN PlanMatches(in).matches |-> PlanMatches(in).matches[k]]
    BY <2>1, Zenon DEF Planned
  <2>4. 1..0 = {} /\ <<>> = [k \in {} |-> PlanMatches(in).matches[k]]
    OBVIOUS
  <2> QED BY <2>2, <2>3, <2>4
<1> QED BY <1>1, <1>6, <1>8, <1>9, <1>10, <1>11 DEF in

\* Identifiers are fresh, a market that is not open only loses orders, and a
\* post-only order never executes on entry.
THEOREM RulesAreKept == ExchangeSpec => MarketRules
<1> DEFINE Fresh == \A o \in DOMAIN live' \ DOMAIN live : o >= nextOrder /\ nextOrder' > o
           Still == status # "Open" => /\ DOMAIN live' \subseteq DOMAIN live
                                       /\ nextTrade' = nextTrade
                                       /\ \A o \in DOMAIN live' : live'[o] = live[o]
           Maker == nextTrade' # nextTrade => \A r \in SubmitOrderRequest : r.post_only => ~ProcessSubmit(r)
<1>1. ASSUME IInv, ExchangeNext PROVE Fresh /\ Still
  <2>1. CASE HasCapacity(1) /\ Reject
    <3>1. live' = live /\ nextTrade' = nextTrade
      BY <2>1 DEF Reject, vars
    <3> QED BY <3>1
  <2>2. ASSUME NEW r \in SubmitOrderRequest, TakesOrders, nextOrder \in Orders, Accept(r)
        PROVE  Fresh /\ Still
    <3> DEFINE in == OrderOf(r)
    <3>1. in \in Incoming /\ in.id = nextOrder
      BY <2>2, IncomingOrder DEF OrderOf
    <3>2. Submit(in) /\ nextOrder' = nextOrder + 1 /\ status = "Open"
      BY <2>2 DEF Accept, TakesOrders
    <3> HIDE DEF in
    <3>3. BookInv /\ Sound(Book) /\ Submittable(in) /\ nextPriority \in Nat
      BY <1>1, <3>1, IncomingFields, LadderAssumption DEF IInv, BookInv, BookOK
    <3>4. PICK n : PlanOK(in, n)
      BY <3>3, PlanIsOK
    <3>5. SubmitAccepted(in) /\ live' = Submitted(in).live
      BY <3>2, SubmitIs
    <3>6. /\ Shrunk(Filled(in).live, live)
          /\ Submitted(in).live
               = IF Rests(in, PlanMatches(in))
                 THEN [x \in DOMAIN Filled(in).live \cup {in.id} |->
                         IF x = in.id THEN NewNode(in) ELSE Filled(in).live[x]]
                 ELSE Filled(in).live
      BY <3>1, <3>3, <3>4, <3>5, SubmittedIsOK DEF BookInv
    <3>7. DOMAIN live' \subseteq DOMAIN live \cup {nextOrder}
      BY <3>1, <3>5, <3>6 DEF Shrunk
    <3>8. nextOrder \in Nat
      BY <2>2, ExchangeAssumption
    <3>9. Fresh
      BY <3>2, <3>7, <3>8
    <3> QED BY <3>2, <3>9
  <2>3. ASSUME NEW o, Cancel(o) PROVE Fresh /\ Still
    <3>1. live' = [x \in DOMAIN live \ {o} |-> live[x]] /\ nextTrade' = nextTrade
      BY <1>1, <2>3, CancelKeepsBook DEF IInv, Cancel
    <3> QED BY <3>1
  <2>4. ASSUME NEW target \in Statuses, ValidTransition(status, target), HasCapacity(1), status' = target,
               UNCHANGED <<nextPriority, nextTrade, nextOrder>>,
               IF target = "Closed" THEN CloseBook ELSE UNCHANGED <<live, levels>> /\ Emit(1)
        PROVE  Fresh /\ Still
    <3>1. DOMAIN live' \subseteq DOMAIN live /\ (\A o \in DOMAIN live' : live'[o] = live[o]) /\ nextTrade' = nextTrade
      BY <1>1, <2>4, LifecycleKeeps
    <3> QED BY <3>1
  <2> HIDE DEF Fresh, Still
  <2> QED BY <1>1, <2>1, <2>2, <2>3, <2>4, Commands
<1>2. ASSUME IInv PROVE Maker
  <2> SUFFICES ASSUME nextTrade' # nextTrade, NEW r \in SubmitOrderRequest, r.post_only, ProcessSubmit(r)
               PROVE  FALSE
    OBVIOUS
  <2>1. ~Reject
    BY DEF Reject, vars
  <2>2. nextOrder \in Orders /\ ~Invalid(r) /\ Accept(r)
    BY <2>1, Zenon DEF ProcessSubmit
  <2>3. ~WouldTake(r)
    BY <2>2 DEF Invalid
  <2>4. Submit(OrderOf(r))
    BY <2>2 DEF Accept
  <2> QED BY <1>2, <2>2, <2>3, <2>4, MatchingWouldTake
<1>3. IInv /\ [ExchangeNext]_exchangeVars => [Fresh]_exchangeVars
  BY <1>1
<1>4. IInv /\ [ExchangeNext]_exchangeVars => [Still]_exchangeVars
  BY <1>1
<1>5. IInv => [Maker]_exchangeVars
  BY <1>2
<1>6. ExchangeSpec => FreshOrderIds
  BY <1>3, MarketInvariant, PTL DEF ExchangeSpec, FreshOrderIds
<1>7. ExchangeSpec => OrdersMoveOnlyWhileOpen
  BY <1>4, MarketInvariant, PTL DEF ExchangeSpec, OrdersMoveOnlyWhileOpen
<1>8. ExchangeSpec => PostOnlyNeverTakes
  BY <1>5, MarketInvariant, PTL DEF ExchangeSpec, PostOnlyNeverTakes
<1> QED BY <1>6, <1>7, <1>8 DEF MarketRules
=============================================================================
