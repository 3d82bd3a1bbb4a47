---------------------------- MODULE Replay_proofs ----------------------------
(***************************************************************************)
(* Proofs about Replay: whatever the network does to the frames, however   *)
(* often connections fail and whatever the venue leaves out, the product   *)
(* cursors keep the promise of SegmentedBooks, a book they show is the     *)
(* venue's, and a capture called complete is.                              *)
(*                                                                         *)
(* Sections 3 to 9 say what reading a record does to the normalization and *)
(* to the cursors, as a relation between the two states (Skips, Accepts,   *)
(* EndsAll; FrameEffect), so that the proofs of the invariants look into   *)
(* no definition of the code.  The refinement (section 10) follows from    *)
(* those relations alone.  That a shown book is true is a claim about a    *)
(* frame sent long ago, which the state has forgotten: sections 12 to 16   *)
(* carry a chronicle L of all frames sent, as a bound variable, and tie    *)
(* what the network carries (Chron) and what the normalizer knows (Norm)   *)
(* to it.  Sections 17 to 21 follow a normalization that is still clean:   *)
(* its numbers start at one and leave none out (Opening, Runs), no cursor  *)
(* raises (Calm), and the rows of its records are the cursors' (Rows).     *)
(***************************************************************************)
EXTENDS Replay, FiniteSetTheorems, SequenceTheorems, WellFoundedInduction, TLAPS

-----------------------------------------------------------------------------
(* 1. Least counterexamples.                                                   *)

\* A set of numbers has a least one.
LEMMA LeastNumber ==
  ASSUME NEW T, T \subseteq Nat, T # {}
  PROVE  \E x \in T : \A y \in T : x <= y
<1> DEFINE R == OpToRel(<, Nat)
<1>1. \E x \in T : \A y \in T : ~ (<<y, x>> \in R)
  <2>1. IsWellFoundedOn(R, Nat)
    BY Zenon, NatLessThanWellFounded
  <2> HIDE DEF R
  <2> QED BY <2>1, WFMin
<1>2. PICK x \in T : \A y \in T : ~(<<y, x>> \in R)
  BY Zenon, <1>1
<1>3. \A y \in T : ~(y < x)
  BY <1>2 DEF OpToRel
<1>4. \A y \in T : x <= y
  BY <1>3
<1> QED BY <1>4

\* Induction up to n, with the set of numbers a claim holds of in its place.
LEMMA Climb ==
  ASSUME NEW m \in Nat, NEW G, 0 \in G,
         \A k \in 0..(m - 1) : k \in G => k + 1 \in G
  PROVE  \A k \in 0..m : k \in G
<1> DEFINE Bad == {k \in 0..m : k \notin G}
<1> SUFFICES ASSUME Bad # {} PROVE FALSE
  OBVIOUS
<1>1. PICK k \in Bad : \A j \in Bad : k <= j
  <2>1. Bad \subseteq Nat
    OBVIOUS
  <2> QED BY <2>1, LeastNumber
<1>2. k # 0 /\ k \in 0..m
  OBVIOUS
<1>3. k - 1 \in 0..(m - 1) /\ k - 1 \notin Bad
  BY <1>1, <1>2
<1>4. k - 1 \in G
  BY <1>2, <1>3
<1> QED BY <1>2, <1>3, <1>4

-----------------------------------------------------------------------------
(* 2. The loops over raw and normalized records. *)

\* One record read: the normalization takes one step.
LEMMA ReadOne ==
  ASSUME NEW raw
  PROVE  ReadAll(<<raw>>) = Read(n, raw)
<1> DEFINE raws == <<raw>>
           f == [i \in 0..1 |-> IF i = 0 THEN n ELSE Read(n, raws[i])]
           after == CHOOSE g : g = [i \in 0..Len(raws) |-> IF i = 0 THEN n ELSE Read(g[i - 1], raws[i])]
<1>1. \A i \in 0..1 : f[i] = IF i = 0 THEN n ELSE Read(f[i - 1], raws[i])
  <2>1. f[0] = n
    OBVIOUS
  <2> QED BY <2>1
<1>2. f = [i \in 0..1 |-> f[i]]
  OBVIOUS
<1> HIDE DEF f
<1>3. f = [i \in 0..1 |-> IF i = 0 THEN n ELSE Read(f[i - 1], raws[i])]
  BY <1>1, <1>2
<1>4. Len(raws) = 1 /\ raws[1] = raw
  OBVIOUS
<1>5. \E g : g = [i \in 0..Len(raws) |-> IF i = 0 THEN n ELSE Read(g[i - 1], raws[i])]
  BY <1>3, <1>4
<1>6. after = [i \in 0..Len(raws) |-> IF i = 0 THEN n ELSE Read(after[i - 1], raws[i])]
  BY <1>5
<1>7. ReadAll(raws) = after[Len(raws)]
  BY DEF ReadAll
<1> HIDE DEF after, raws
<1>8. after[0] = n /\ after[1] = Read(after[0], raws[1])
  BY <1>4, <1>6
<1> QED BY <1>4, <1>7, <1>8 DEF raws

\* Three records read, when a connection opens.
LEMMA ReadThree ==
  ASSUME NEW a, NEW b, NEW c
  PROVE  ReadAll(<<a, b, c>>) = Read(Read(Read(n, a), b), c)
<1> DEFINE raws == <<a, b, c>>
           f == [i \in 0..3 |-> IF i = 0 THEN n ELSE IF i = 1 THEN Read(n, a)
                                ELSE IF i = 2 THEN Read(Read(n, a), b) ELSE Read(Read(Read(n, a), b), c)]
           after == CHOOSE g : g = [i \in 0..Len(raws) |-> IF i = 0 THEN n ELSE Read(g[i - 1], raws[i])]
<1>1. Len(raws) = 3 /\ raws[1] = a /\ raws[2] = b /\ raws[3] = c
  OBVIOUS
<1>2. f[0] = n /\ f[1] = Read(n, a) /\ f[2] = Read(Read(n, a), b) /\ f[3] = Read(Read(Read(n, a), b), c)
  OBVIOUS
<1>3. f = [i \in 0..3 |-> f[i]]
  OBVIOUS
<1> HIDE DEF f, raws
<1>4. \A i \in 0..3 : f[i] = IF i = 0 THEN n ELSE Read(f[i - 1], raws[i])
  <2> TAKE i \in 0..3
  <2>1. i = 0 \/ i = 1 \/ i = 2 \/ i = 3
    OBVIOUS
  <2> QED BY <1>1, <1>2, <2>1
<1>5. f = [i \in 0..3 |-> IF i = 0 THEN n ELSE Read(f[i - 1], raws[i])]
  BY <1>3, <1>4
<1>6. \E g : g = [i \in 0..Len(raws) |-> IF i = 0 THEN n ELSE Read(g[i - 1], raws[i])]
  BY <1>1, <1>5
<1>7. after = [i \in 0..Len(raws) |-> IF i = 0 THEN n ELSE Read(after[i - 1], raws[i])]
  BY <1>6
<1>8. ReadAll(raws) = after[Len(raws)]
  BY DEF ReadAll
<1> HIDE DEF after
<1>9. /\ after[0] = n /\ after[1] = Read(after[0], raws[1])
      /\ after[2] = Read(after[1], raws[2]) /\ after[3] = Read(after[2], raws[3])
  BY <1>1, <1>7
<1> QED BY <1>1, <1>8, <1>9 DEF raws

\* The cursors after each of the records.
LEMMA FollowSteps ==
  ASSUME NEW recs, Len(recs) \in Nat
  PROVE  \E h : /\ FollowAll(recs) = h[Len(recs)]
                /\ h[0] = cursors /\ \A i \in 1..Len(recs) : h[i] = Following(h[i - 1], recs[i])
<1> DEFINE m == Len(recs)
           G == {j \in 0..m : \E f : f = [i \in 0..j |-> IF i = 0 THEN cursors
                                                         ELSE Following(f[i - 1], recs[i])]}
<1>1. 0 \in G
  <2> DEFINE f == [i \in 0..0 |-> cursors]
  <2>1. f = [i \in 0..0 |-> IF i = 0 THEN cursors ELSE Following(f[i - 1], recs[i])]
    <3>1. \A i \in 0..0 : i = 0
      OBVIOUS
    <3> QED BY <3>1
  <2> HIDE DEF f
  <2>2. \E g : g = [i \in 0..0 |-> IF i = 0 THEN cursors ELSE Following(g[i - 1], recs[i])]
    BY <2>1
  <2> QED BY <2>2
<1>2. ASSUME NEW j \in 0..(m - 1), j \in G PROVE j + 1 \in G
  <2>1. PICK f : f = [i \in 0..j |-> IF i = 0 THEN cursors ELSE Following(f[i - 1], recs[i])]
    BY <1>2
  <2> DEFINE last == Following(f[j], recs[j + 1])
             g == [i \in 0..(j + 1) |-> IF i <= j THEN f[i] ELSE last]
  <2>2. \A i \in 0..(j + 1) : g[i] = IF i = 0 THEN cursors ELSE Following(g[i - 1], recs[i])
    <3> TAKE i \in 0..(j + 1)
    <3>1. CASE i = 0
      BY <2>1, <3>1
    <3>2. CASE i \in 1..j
      <4>1. g[i] = f[i] /\ g[i - 1] = f[i - 1]
        BY <3>2
      <4>2. f[i] = Following(f[i - 1], recs[i])
        BY <2>1, <3>2
      <4> HIDE DEF g
      <4> QED BY <3>2, <4>1, <4>2
    <3>3. CASE i = j + 1
      <4>1. g[i] = last /\ g[i - 1] = f[j]
        BY <3>3
      <4> HIDE DEF g
      <4> QED BY <3>3, <4>1
    <3> QED BY <3>1, <3>2, <3>3
  <2>3. g = [i \in 0..(j + 1) |-> g[i]]
    OBVIOUS
  <2> HIDE DEF g
  <2>4. g = [i \in 0..(j + 1) |-> IF i = 0 THEN cursors ELSE Following(g[i - 1], recs[i])]
    BY <2>2, <2>3
  <2>5. \E h : h = [i \in 0..(j + 1) |-> IF i = 0 THEN cursors ELSE Following(h[i - 1], recs[i])]
    BY <2>4
  <2> QED BY <2>5
<1>3. m \in G
  <2> HIDE DEF G
  <2>1. \A j \in 0..m : j \in G
    BY <1>1, <1>2, Climb
  <2> QED BY <2>1
<1> DEFINE after == CHOOSE f : f = [i \in 0..m |-> IF i = 0 THEN cursors ELSE Following(f[i - 1], recs[i])]
<1>4. after = [i \in 0..m |-> IF i = 0 THEN cursors ELSE Following(after[i - 1], recs[i])]
  BY <1>3
<1>5. FollowAll(recs) = after[m]
  BY DEF FollowAll
<1> HIDE DEF after
<1>6. after[0] = cursors /\ \A i \in 1..m : after[i] = Following(after[i - 1], recs[i])
  BY <1>4
<1> QED BY <1>5, <1>6

\* What the normalizer has just written.
Added(before, after) == SubSeq(after, Len(before) + 1, Len(after))

LEMMA NothingAdded ==
  ASSUME NEW S, NEW o \in Seq(S)
  PROVE  Added(o, o) = <<>>
BY DEF Added

LEMMA ConcatAdded ==
  ASSUME NEW S, NEW o \in Seq(S), NEW p \in Seq(S)
  PROVE  Added(o, o \o p) = p
<1>1. o \o p \in Seq(S) /\ Len(o \o p) = Len(o) + Len(p) /\ Len(o) \in Nat /\ Len(p) \in Nat
  OBVIOUS
<1>2. Added(o, o \o p) \in Seq(S) /\ Len(Added(o, o \o p)) = Len(p)
  BY <1>1, SubSeqProperties DEF Added
<1>3. \A i \in 1..Len(p) : Added(o, o \o p)[i] = p[i]
  BY <1>1 DEF Added
<1> QED BY <1>1, <1>2, <1>3, SeqEqual

Joined(p, q, w) == (p \o q) \o w
Chained(o, p, q, w) == ((o \o p) \o q) \o w

LEMMA AddedThree ==
  ASSUME NEW S, NEW o \in Seq(S), NEW p \in Seq(S), NEW q \in Seq(S), NEW w \in Seq(S)
  PROVE  Added(o, Chained(o, p, q, w)) = Joined(p, q, w)
<1>1. (o \o p) \o q = o \o (p \o q)
  OBVIOUS
<1> DEFINE pq == p \o q
<1>2. pq \in Seq(S)
  BY ConcatProperties
<1> HIDE DEF pq
<1>3. (o \o pq) \o w = o \o (pq \o w)
  BY <1>2
<1>4. pq \o w \in Seq(S)
  BY <1>2, ConcatProperties
<1>5. Chained(o, p, q, w) = o \o (pq \o w)
  BY <1>1, <1>3 DEF pq, Chained
<1> DEFINE pqw == pq \o w
<1> HIDE DEF pqw
<1>6. Added(o, o \o pqw) = pqw
  BY <1>4, ConcatAdded DEF pqw
<1> QED BY <1>5, <1>6 DEF pq, pqw, Joined

-----------------------------------------------------------------------------
(* 3. What each helper of the normalizer changes. *)

IsNorm(m) == DOMAIN m =
  {"policy", "topology", "error", "ordinal", "time", "requests", "scopes", "previous", "payloads",
   "ids", "segment", "valid", "ever", "awaiting", "snapshots", "reasons", "discontinuous", "out"}

Awaited == {"initial_snapshot", "recovery_snapshot", None}

\* The per-ticker part of a normalization, and its output, have their types.
Tables(m) ==
  /\ IsNorm(m)
  /\ m.segment \in [Tickers -> Nat] /\ m.valid \in [Tickers -> BOOLEAN]
  /\ m.ever \in [Tickers -> BOOLEAN] /\ m.awaiting \in [Tickers -> Awaited]
  /\ DOMAIN m.ids = Tickers
  /\ \E S : m.out \in Seq(S)

\* k has everything of m but its tables, times and counts.
SameSource(m, k) ==
  /\ k.policy = m.policy /\ k.topology = m.topology /\ k.error = m.error /\ k.ordinal = m.ordinal
  /\ k.requests = m.requests /\ k.scopes = m.scopes

LEMMA AppendTables ==
  ASSUME NEW o, \E S : o \in Seq(S), NEW x
  PROVE  \E S : o \in Seq(S) /\ <<x>> \in Seq(S) /\ Append(o, x) \in Seq(S) /\ Append(o, x) = o \o <<x>>
<1>1. PICK S : o \in Seq(S)
  OBVIOUS
<1>2. o \in Seq(S \union {x}) /\ <<x>> \in Seq(S \union {x})
  BY <1>1, SeqMonotonic
<1>3. Append(o, x) \in Seq(S \union {x}) /\ Append(o, x) = o \o <<x>>
  BY <1>2, AppendProperties, AppendIsConcat
<1> QED BY <1>2, <1>3

LEMMA LookupAssigned ==
  ASSUME NEW map, NEW k, NEW v, NEW j
  PROVE  Lookup(Assign(map, k, v), j) = IF j = k THEN v ELSE Lookup(map, j)
<1> DEFINE map2 == Assign(map, k, v)
<1>1. CASE j = k
  <2>1. {p \in map2 : p.key = j} = {[key |-> k, value |-> v]}
    BY <1>1 DEF Assign
  <2> HIDE DEF map2
  <2>0. {[key |-> k, value |-> v]} # {}
    OBVIOUS
  <2>2. Lookup(map2, j) = (CHOOSE p \in {[key |-> k, value |-> v]} : TRUE).value
    BY Zenon, <2>0, <2>1 DEF Lookup
  <2>3. (CHOOSE p \in {[key |-> k, value |-> v]} : TRUE) = [key |-> k, value |-> v]
    OBVIOUS
  <2> QED BY <1>1, <2>2, <2>3 DEF map2
<1>2. CASE j # k
  <2>1. {p \in map2 : p.key = j} = {p \in map : p.key = j}
    BY <1>2 DEF Assign
  <2> HIDE DEF map2
  <2> DEFINE value(found) == IF found = {} THEN None ELSE (CHOOSE p \in found : TRUE).value
             new == {p \in map2 : p.key = j}
             old == {p \in map : p.key = j}
  <2>2. Lookup(map2, j) = value(new) /\ Lookup(map, j) = value(old)
    BY DEF Lookup
  <2>3. new = old
    BY <2>1
  <2> HIDE DEF value, new, old
  <2> QED BY <1>2, <2>2, <2>3 DEF map2
<1> QED BY <1>1, <1>2

LEMMA InvalidateTables ==
  ASSUME NEW m, Tables(m), NEW affected
  PROVE  LET k == Invalidate(m, affected)
         IN /\ Tables(k) /\ SameSource(m, k)
            /\ k.previous = m.previous /\ k.payloads = m.payloads /\ k.ids = m.ids
            /\ k.reasons = m.reasons /\ k.out = m.out /\ k.discontinuous = m.discontinuous
            /\ k.snapshots = m.snapshots /\ k.segment = m.segment
            /\ \A t \in Tickers : k.valid[t] = (m.valid[t] /\ t \notin affected)
BY DEF Invalidate, Tables, IsNorm, SameSource, Awaited

LEMMA DiscontinuityTables ==
  ASSUME NEW m, Tables(m), NEW r, NEW type, NEW affected
  PROVE  LET k == Discontinuity(m, r, type, affected)
         IN /\ Tables(k) /\ SameSource(m, k)
            /\ k.previous = m.previous /\ k.payloads = m.payloads /\ k.ids = m.ids
            /\ k.reasons = m.reasons /\ k.discontinuous = TRUE /\ k.snapshots = m.snapshots
            /\ k.segment = m.segment /\ k.valid = m.valid
            /\ k.out = m.out \o <<Control(type, affected, r.ordinal, Larger(m.time, r.at))>>
<1> DEFINE x == Control(type, affected, r.ordinal, Larger(m.time, r.at))
           k == Discontinuity(m, r, type, affected)
<1>1. k = [[m EXCEPT !.time = Larger(m.time, r.at), !.discontinuous = TRUE] EXCEPT !.out = Append(m.out, x)]
  BY DEF Discontinuity, Emit, Tables, IsNorm
<1>2. Append(m.out, x) = m.out \o <<x>> /\ \E S : Append(m.out, x) \in Seq(S)
  BY AppendTables DEF Tables
<1> HIDE DEF x, k
<1>3. Tables(k) /\ k.out = Append(m.out, x)
  BY <1>1, <1>2 DEF Tables, IsNorm
<1>4. /\ SameSource(m, k)
      /\ k.previous = m.previous /\ k.payloads = m.payloads /\ k.ids = m.ids
      /\ k.reasons = m.reasons /\ k.discontinuous = TRUE /\ k.snapshots = m.snapshots
      /\ k.segment = m.segment /\ k.valid = m.valid
  BY <1>1 DEF Tables, IsNorm, SameSource
<1> QED BY <1>2, <1>3, <1>4 DEF x, k

ReasonEffect(m, k, code) ==
  /\ Tables(k) /\ SameSource(m, k) /\ k.reasons = m.reasons \union {code}
  /\ k.previous = m.previous /\ k.payloads = m.payloads /\ k.ids = m.ids
  /\ k.out = m.out /\ k.discontinuous = m.discontinuous /\ k.snapshots = m.snapshots
  /\ k.segment = m.segment /\ k.valid = m.valid /\ k.time = m.time /\ k.awaiting = m.awaiting

LEMMA ReasonTables ==
  ASSUME NEW m, Tables(m), NEW code
  PROVE  ReasonEffect(m, Reason(m, code), code)
BY DEF Reason, ReasonEffect, Tables, IsNorm, SameSource

\* The records a data frame may leave in the output.
GapRecord(m, r) == Control("sequence_gap", Affected(m, r.data), r.ordinal, Larger(m.time, r.at))
BoundaryRecord(m, r) ==
  [kind |-> "segment_boundary", ticker |-> r.data.ticker, segment |-> m.segment[r.data.ticker] + 1,
   evidence |-> m.awaiting[r.data.ticker], scope |-> <<r.conn, r.data.sid>>,
   ordinal |-> r.ordinal, time |-> Larger(m.time, r.at)]
EventTime(m, r) == Larger(m.time, IF r.data.ts = None THEN r.at ELSE r.data.ts)
EventRecord(m, r) ==
  [kind |-> "market_event", type |-> r.data.type, ticker |-> r.data.ticker,
   market |-> m.ids[r.data.ticker], segment |-> m.segment[r.data.ticker],
   valid |-> m.valid[r.data.ticker], scope |-> <<r.conn, r.data.sid>>, body |-> r.data.body,
   ordinal |-> r.ordinal, time |-> EventTime(m, r)]

\* What one frame's sequence does to a normalization m.
SequenceEffect(m, k, r) ==
  LET key == SequenceScope(m, r)
      ends == IsGap(m, r) /\ ExpectedChannel(r.data) # "trade"
  IN /\ Tables(k) /\ SameSource(m, k)
     /\ k.ids = m.ids /\ k.reasons = m.reasons /\ k.segment = m.segment
     /\ k.snapshots = m.snapshots
     /\ k.discontinuous = IF IsGap(m, r) THEN TRUE ELSE m.discontinuous
     /\ k.out = m.out \o (IF IsGap(m, r) THEN <<GapRecord(m, r)>> ELSE <<>>)
     /\ \A t \in Tickers : k.valid[t] = (m.valid[t] /\ ~ (ends /\ t \in Affected(m, r.data)))
     /\ k.previous = IF r.data.seq = None THEN m.previous ELSE Assign(m.previous, key, r.data.seq)
     /\ k.payloads = IF r.data.seq = None THEN m.payloads
                     ELSE Assign(m.payloads, <<key, r.data.seq>>, r.data)
     /\ ~IsGap(m, r) => k.awaiting = m.awaiting /\ k.time = m.time

LEMMA SequenceTables ==
  ASSUME NEW m, Tables(m), NEW r
  PROVE  SequenceEffect(m, AfterSequence(m, r), r)
<1> DEFINE noted == Discontinuity(m, r, "sequence_gap", Affected(m, r.data))
           jumped == AfterJump(m, r)
           k == AfterSequence(m, r)
           key == SequenceScope(m, r)
           gap == IsGap(m, r)
           book == ExpectedChannel(r.data) # "trade"
           affected == Affected(m, r.data)
           added == IF gap THEN <<GapRecord(m, r)>> ELSE <<>>
<1>1. /\ Tables(noted) /\ SameSource(m, noted)
      /\ noted.previous = m.previous /\ noted.payloads = m.payloads /\ noted.ids = m.ids
      /\ noted.reasons = m.reasons /\ noted.discontinuous = TRUE /\ noted.snapshots = m.snapshots
      /\ noted.segment = m.segment /\ noted.valid = m.valid /\ noted.out = m.out \o <<GapRecord(m, r)>>
  BY DiscontinuityTables DEF GapRecord
<1>2. LET i == Invalidate(noted, affected)
      IN /\ Tables(i) /\ SameSource(noted, i)
         /\ i.previous = noted.previous /\ i.payloads = noted.payloads /\ i.ids = noted.ids
         /\ i.reasons = noted.reasons /\ i.out = noted.out /\ i.discontinuous = noted.discontinuous
         /\ i.snapshots = noted.snapshots /\ i.segment = noted.segment
         /\ \A t \in Tickers : i.valid[t] = (noted.valid[t] /\ t \notin affected)
  <2> HIDE DEF noted, affected
  <2> QED BY <1>1, InvalidateTables
<1>3. jumped = IF ~gap THEN m ELSE IF ~book THEN noted ELSE Invalidate(noted, affected)
  BY DEF AfterJump
<1>4. m.out = m.out \o <<>>
  BY ConcatEmptySeq DEF Tables
<1>5. k = IF r.data.seq = None THEN jumped
          ELSE [jumped EXCEPT !.previous = Assign(jumped.previous, key, r.data.seq),
                              !.payloads = Assign(jumped.payloads, <<key, r.data.seq>>, r.data)]
  BY DEF AfterSequence
<1> HIDE DEF noted, jumped, k, key, gap, book, affected
<1>6. /\ Tables(jumped) /\ SameSource(m, jumped)
      /\ jumped.ids = m.ids /\ jumped.reasons = m.reasons /\ jumped.segment = m.segment
      /\ jumped.snapshots = m.snapshots
      /\ jumped.discontinuous = IF gap THEN TRUE ELSE m.discontinuous
      /\ jumped.out = m.out \o added
      /\ \A t \in Tickers : jumped.valid[t] = (m.valid[t] /\ ~ (gap /\ book /\ t \in affected))
      /\ jumped.previous = m.previous /\ jumped.payloads = m.payloads
      /\ ~gap => jumped.awaiting = m.awaiting /\ jumped.time = m.time
  <2>0. \A t \in Tickers : m.valid[t] \in BOOLEAN
    BY DEF Tables
  <2>1. CASE ~gap
    BY <1>3, <1>4, <2>0, <2>1 DEF SameSource
  <2>2. CASE gap /\ ~book
    BY <1>1, <1>3, <2>0, <2>2
  <2>3. CASE gap /\ book
    <3>1. added = <<GapRecord(m, r)>>
      BY <2>3
    <3> HIDE DEF added
    <3> QED BY <1>1, <1>2, <1>3, <2>0, <2>3, <3>1 DEF SameSource
  <2> QED BY <2>1, <2>2, <2>3
<1> HIDE DEF added
<1>7. /\ Tables(k) /\ SameSource(m, k)
      /\ k.ids = m.ids /\ k.reasons = m.reasons /\ k.segment = m.segment
      /\ k.snapshots = m.snapshots
      /\ k.discontinuous = IF gap THEN TRUE ELSE m.discontinuous
      /\ k.out = m.out \o added
      /\ \A t \in Tickers : k.valid[t] = (m.valid[t] /\ ~ (gap /\ book /\ t \in affected))
  BY <1>5, <1>6 DEF Tables, IsNorm, SameSource
<1>8. /\ k.previous = IF r.data.seq = None THEN m.previous ELSE Assign(m.previous, key, r.data.seq)
      /\ k.payloads = IF r.data.seq = None THEN m.payloads ELSE Assign(m.payloads, <<key, r.data.seq>>, r.data)
      /\ ~gap => k.awaiting = m.awaiting /\ k.time = m.time
  BY <1>5, <1>6 DEF Tables, IsNorm
<1>9. k = AfterSequence(m, r)
  BY DEF k
<1> QED BY <1>7, <1>8, <1>9 DEF SequenceEffect, key, gap, book, affected, added

BoundaryEffect(m, k, r) ==
  LET t == r.data.ticker
      key == <<r.conn, t>>
      count == IF Lookup(m.snapshots, key) = None THEN 0 ELSE Lookup(m.snapshots, key)
  IN /\ Tables(k) /\ SameSource(m, k)
     /\ k.previous = m.previous /\ k.payloads = m.payloads /\ k.ids = m.ids
     /\ k.reasons = m.reasons /\ k.discontinuous = m.discontinuous
     /\ k.segment = [m.segment EXCEPT ![t] = @ + 1] /\ k.valid = [m.valid EXCEPT ![t] = TRUE]
     /\ k.snapshots = Assign(m.snapshots, key, count + 1)
     /\ k.awaiting = [m.awaiting EXCEPT ![t] = None] /\ k.time = m.time
     /\ k.out = m.out \o <<BoundaryRecord(m, r)>>

LEMMA BoundaryTables ==
  ASSUME NEW m, Tables(m), NEW r, r.data.ticker \in Tickers
  PROVE  BoundaryEffect(m, Boundary(m, r), r)
<1> DEFINE k == Boundary(m, r)
           x == BoundaryRecord(m, r)
           t == r.data.ticker
           key == <<r.conn, t>>
           count == IF Lookup(m.snapshots, key) = None THEN 0 ELSE Lookup(m.snapshots, key)
<1>1. k = [[m EXCEPT !.segment[t] = @ + 1, !.valid[t] = TRUE, !.ever[t] = TRUE, !.awaiting[t] = None,
                     !.snapshots = Assign(m.snapshots, key, count + 1)] EXCEPT !.out = Append(m.out, x)]
  BY DEF Boundary, Emit, Tables, IsNorm, BoundaryRecord
<1>2. Append(m.out, x) = m.out \o <<x>> /\ \E S : Append(m.out, x) \in Seq(S)
  BY AppendTables DEF Tables
<1> HIDE DEF x, k, key, count
<1>3. Tables(k)
  BY <1>1, <1>2 DEF Tables, IsNorm, Awaited
<1>4. /\ SameSource(m, k)
      /\ k.previous = m.previous /\ k.payloads = m.payloads /\ k.ids = m.ids
      /\ k.reasons = m.reasons /\ k.discontinuous = m.discontinuous
      /\ k.segment = [m.segment EXCEPT ![t] = @ + 1] /\ k.valid = [m.valid EXCEPT ![t] = TRUE]
      /\ k.snapshots = Assign(m.snapshots, key, count + 1) /\ k.out = Append(m.out, x)
      /\ k.awaiting = [m.awaiting EXCEPT ![t] = None] /\ k.time = m.time
  BY <1>1 DEF Tables, IsNorm, SameSource
<1>5. k = Boundary(m, r)
  BY DEF k
<1> QED BY <1>2, <1>3, <1>4, <1>5 DEF BoundaryEffect, x, key, count

EventEffect(m, k, r) ==
  /\ Tables(k) /\ SameSource(m, k)
  /\ k.previous = m.previous /\ k.payloads = m.payloads /\ k.ids = m.ids
  /\ k.reasons = m.reasons /\ k.discontinuous = m.discontinuous
  /\ k.segment = m.segment /\ k.valid = m.valid /\ k.snapshots = m.snapshots
  /\ k.awaiting = m.awaiting /\ k.time = EventTime(m, r)
  /\ k.out = m.out \o <<EventRecord(m, r)>>

LEMMA EventTables ==
  ASSUME NEW m, Tables(m), NEW r
  PROVE  EventEffect(m, Event(m, r), r)
<1> DEFINE k == Event(m, r)
           x == EventRecord(m, r)
           time == EventTime(m, r)
<1>1. k = [[m EXCEPT !.time = time] EXCEPT !.out = Append(m.out, x)]
  BY DEF Event, Emit, Tables, IsNorm, EventRecord, EventTime
<1>2. Append(m.out, x) = m.out \o <<x>> /\ \E S : Append(m.out, x) \in Seq(S)
  BY AppendTables DEF Tables
<1> HIDE DEF x, k, time
<1>3. Tables(k)
  BY <1>1, <1>2 DEF Tables, IsNorm
<1>4. /\ SameSource(m, k)
      /\ k.previous = m.previous /\ k.payloads = m.payloads /\ k.ids = m.ids
      /\ k.reasons = m.reasons /\ k.discontinuous = m.discontinuous
      /\ k.segment = m.segment /\ k.valid = m.valid /\ k.snapshots = m.snapshots
      /\ k.awaiting = m.awaiting /\ k.time = time /\ k.out = Append(m.out, x)
  BY <1>1 DEF Tables, IsNorm, SameSource
<1>5. k = Event(m, r)
  BY DEF k
<1> QED BY <1>2, <1>3, <1>4, <1>5 DEF EventEffect, x, time

-----------------------------------------------------------------------------
(* 4. What reading a data frame does, when it is not refused. *)

IsDelta(f) == f.type = "orderbook_delta"
IsSnapshot(f) == f.type = "orderbook_snapshot"
Unsequenced(f) == f.seq = None /\ SequenceRequired(f)

\* The frame ends the books of some tickers: it follows a gap of the book's sequence.
Hides(m, r, t) == IsGap(m, r) /\ ExpectedChannel(r.data) # "trade" /\ t \in Affected(m, r.data)

\* Its book, where it was valid, is valid still.
Still(m, r, t) == m.valid[t] /\ ~Hides(m, r, t)

\* The snapshots of the frame's ticker on its connection.
Counted(m, r) ==
  IF Lookup(m.snapshots, <<r.conn, r.data.ticker>>) = None THEN 0
  ELSE Lookup(m.snapshots, <<r.conn, r.data.ticker>>)

\* The three records.
IsEnd(d, affected, r) == d.kind = "discontinuity" /\ d.affected = affected /\ d.ordinal = r.ordinal
IsBoundary(b, k, r) ==
  /\ b.kind = "segment_boundary" /\ b.ticker = r.data.ticker /\ b.segment = k.segment[r.data.ticker]
  /\ b.scope = <<r.conn, r.data.sid>> /\ b.ordinal = r.ordinal
IsEvent(e, k, r) ==
  /\ e.kind = "market_event" /\ e.type = r.data.type /\ e.ticker = r.data.ticker
  /\ e.market = k.ids[r.data.ticker] /\ e.segment = k.segment[r.data.ticker]
  /\ e.valid = k.valid[r.data.ticker] /\ e.scope = <<r.conn, r.data.sid>>
  /\ e.body = r.data.body /\ e.ordinal = r.ordinal

NamedIds(m, f) == IF m.ids[f.ticker] = None THEN [m.ids EXCEPT ![f.ticker] = f.market] ELSE m.ids

\* k comes of m by reading r.
Continues(m, k, r) ==
  /\ Tables(k) /\ k.policy = m.policy /\ k.topology = m.topology /\ k.error = m.error
  /\ k.ordinal = r.ordinal

\* A frame that was seen before changes no book.
Skips(m, k, r) ==
  /\ r.data \in Prior(m, r)
  /\ Continues(m, k, r) /\ k.requests = m.requests /\ k.scopes = m.scopes /\ k.ids = NamedIds(m, r.data)
  /\ k.previous = m.previous /\ k.payloads = m.payloads /\ k.reasons = m.reasons
  /\ k.discontinuous = m.discontinuous /\ k.segment = m.segment /\ k.valid = m.valid
  /\ k.snapshots = m.snapshots /\ k.out = m.out /\ k.awaiting = m.awaiting /\ k.time = m.time

\* What a new frame that follows no gap does to the snapshots awaited and to the time.
Quiet(m, k, r) ==
  ~IsGap(m, r) =>
    /\ k.awaiting = IF IsSnapshot(r.data) THEN [m.awaiting EXCEPT ![r.data.ticker] = None] ELSE m.awaiting
    /\ k.time = EventTime(m, r)

\* A new frame.
Accepts(m, k, r) ==
  LET f == r.data
      key == SequenceScope(m, r)
  IN /\ Prior(m, r) = {} /\ ~IsRegression(m, r)
     /\ Continues(m, k, r) /\ k.requests = m.requests /\ k.scopes = m.scopes /\ k.ids = NamedIds(m, f)
     /\ k.ids[f.ticker] # None /\ Quiet(m, k, r)
     /\ k.previous = IF f.seq = None THEN m.previous ELSE Assign(m.previous, key, f.seq)
     /\ k.payloads = IF f.seq = None THEN m.payloads ELSE Assign(m.payloads, <<key, f.seq>>, f)
     /\ k.reasons = m.reasons \union (IF Unsequenced(f) THEN {"RequiredSourceSequenceMissing"} ELSE {})
                              \union (IF IsDelta(f) /\ ~Still(m, r, f.ticker) THEN {"DeltaBeforeRecovery"} ELSE {})
     /\ k.discontinuous = IF IsGap(m, r) THEN TRUE ELSE m.discontinuous
     /\ IsSnapshot(f) => ~Still(m, r, f.ticker)
     /\ \A t \in Tickers : k.valid[t] = IF IsSnapshot(f) /\ t = f.ticker THEN TRUE ELSE Still(m, r, t)
     /\ k.segment = IF IsSnapshot(f) THEN [m.segment EXCEPT ![f.ticker] = @ + 1] ELSE m.segment
     /\ k.snapshots = IF IsSnapshot(f) THEN Assign(m.snapshots, <<r.conn, f.ticker>>, Counted(m, r) + 1) ELSE m.snapshots
     /\ \E d, b, e :
          /\ IsEnd(d, Affected(m, f), r) /\ IsBoundary(b, k, r) /\ IsEvent(e, k, r)
          /\ IsSnapshot(f) /\ ~IsGap(m, r) => b = BoundaryRecord(m, r)
          /\ k.out = ((m.out \o IF IsGap(m, r) THEN <<d>> ELSE <<>>)
                      \o IF IsSnapshot(f) THEN <<b>> ELSE <<>>) \o <<e>>

\* The names of Data's steps.
Named(m, f) == IF m.ids[f.ticker] = None THEN [m EXCEPT !.ids[f.ticker] = f.market] ELSE m
Noted(m, f) == IF Unsequenced(f) THEN Reason(Named(m, f), "RequiredSourceSequenceMissing") ELSE Named(m, f)
Seeded(m, r) ==
  LET s == AfterSequence(Noted(m, r.data), r)
  IN IF IsSnapshot(r.data) THEN Boundary(s, r)
     ELSE IF IsDelta(r.data) /\ ~s.valid[r.data.ticker] THEN Reason(s, "DeltaBeforeRecovery")
     ELSE s

\* A refusal leaves the rest as it was.
Refused(m, k) ==
  Tables(k) /\ k.out = m.out /\ k.error # None /\ k.error # "complete_observed_interval"

LEMMA RefuseTables ==
  ASSUME NEW m, Tables(m), NEW code, code # None, code # "complete_observed_interval"
  PROVE  Refused(m, Refuse(m, code))
BY DEF Refuse, Refused, Tables, IsNorm

LEMMA DataCases ==
  ASSUME NEW m, NEW r, m.error = None, r.data.ticker \in Tickers
  PROVE  \/ \E code : /\ code # None /\ code # "complete_observed_interval"
                      /\ Data(m, r) = Refuse(m, code)
         \/ /\ r.data \in Prior(m, r) /\ Data(m, r) = Noted(m, r.data)
         \/ /\ Prior(m, r) = {} /\ ~IsRegression(m, r)
            /\ ~ (m.ids[r.data.ticker] = None /\ r.data.market = None)
            /\ StateRefusal(AfterSequence(Noted(m, r.data), r), r.data) = None
            /\ Data(m, r) = Event(Seeded(m, r), r)
<1> DEFINE f == r.data
           s == AfterSequence(Noted(m, f), r)
           identity == IdentityRefusal(m, r)
           state == StateRefusal(s, f)
           unsequenced == Unsequenced(f) /\ m.policy = "refuse"
           after == Data(m, r)
<1>1. after = IF identity # None THEN Refuse(m, identity)
              ELSE IF unsequenced THEN Refuse(m, "RequiredSourceSequenceMissing")
              ELSE IF f \in Prior(m, r) THEN Noted(m, f)
              ELSE IF Prior(m, r) # {} THEN Refuse(m, "ConflictingDuplicate")
              ELSE IF IsRegression(m, r) THEN Refuse(m, "SourceSequenceRegression")
              ELSE IF state # None THEN Refuse(m, state)
              ELSE Event(Seeded(m, r), r)
  BY Zenon DEF Data, Noted, Named, Unsequenced, Seeded, IsSnapshot, IsDelta
<1>2. /\ "RequiredSourceSequenceMissing" # None /\ "ConflictingDuplicate" # None
      /\ "SourceSequenceRegression" # None
  BY ReplayAssumption DEF Codes
<1>3. /\ identity # None => identity # "complete_observed_interval"
      /\ state # None => state # "complete_observed_interval"
      /\ identity = None => ~ (m.ids[f.ticker] = None /\ f.market = None)
  <2>1. "MarketIdentityMissing" # None /\ "UnboundSourceScope" # None /\ "SourceScopeConflict" # None
    BY ReplayAssumption DEF Codes
  <2>2. identity # None => identity # "complete_observed_interval"
    BY DEF IdentityRefusal
  <2>3. state # None => state # "complete_observed_interval"
    BY DEF StateRefusal
  <2>4. identity = None => ~ (m.ids[f.ticker] = None /\ f.market = None)
    BY <2>1 DEF IdentityRefusal
  <2> QED BY <2>2, <2>3, <2>4
<1> HIDE DEF s, f, identity, state, unsequenced, after
<1>4. \/ \E code : /\ code # None /\ code # "complete_observed_interval" /\ after = Refuse(m, code)
      \/ f \in Prior(m, r) /\ after = Noted(m, f)
      \/ /\ Prior(m, r) = {} /\ ~IsRegression(m, r) /\ ~ (m.ids[f.ticker] = None /\ f.market = None)
         /\ state = None /\ after = Event(Seeded(m, r), r)
  BY <1>1, <1>2, <1>3
<1> QED BY <1>4 DEF s, f, state, after

LEMMA NotedTables ==
  ASSUME NEW m, Tables(m), NEW f, f.ticker \in Tickers
  PROVE  LET k == Noted(m, f)
         IN /\ Tables(k) /\ SameSource(m, k) /\ k.ids = NamedIds(m, f)
            /\ k.previous = m.previous /\ k.payloads = m.payloads
            /\ k.reasons = m.reasons \union (IF Unsequenced(f) THEN {"RequiredSourceSequenceMissing"} ELSE {})
            /\ k.discontinuous = m.discontinuous /\ k.segment = m.segment /\ k.valid = m.valid
            /\ k.snapshots = m.snapshots /\ k.out = m.out /\ k.awaiting = m.awaiting /\ k.time = m.time
<1> DEFINE a == Named(m, f)
<1>1. /\ Tables(a) /\ SameSource(m, a) /\ a.ids = NamedIds(m, f)
      /\ a.previous = m.previous /\ a.payloads = m.payloads /\ a.reasons = m.reasons
      /\ a.discontinuous = m.discontinuous /\ a.segment = m.segment /\ a.valid = m.valid
      /\ a.snapshots = m.snapshots /\ a.out = m.out /\ a.awaiting = m.awaiting /\ a.time = m.time
  BY DEF Named, NamedIds, Tables, IsNorm, SameSource
<1> HIDE DEF a
<1>2. CASE Unsequenced(f)
  <2>1. Noted(m, f) = Reason(a, "RequiredSourceSequenceMissing")
    BY <1>2 DEF Noted, a
  <2> QED BY <1>1, <1>2, <2>1, ReasonTables DEF SameSource, ReasonEffect
<1>3. CASE ~Unsequenced(f)
  <2>1. Noted(m, f) = a
    BY <1>3 DEF Noted, a
  <2> QED BY <1>1, <1>3, <2>1
<1> QED BY <1>2, <1>3

LEMMA ScopeOfNoted ==
  ASSUME NEW m, NEW k, NEW r, k.topology = m.topology, k.previous = m.previous
  PROVE  /\ SequenceScope(k, r) = SequenceScope(m, r) /\ IsGap(k, r) = IsGap(m, r)
         /\ Affected(k, r.data) = Affected(m, r.data)
BY DEF SequenceScope, IsGap, Affected

\* The books after the frame's sequence, and after what it opens.
LEMMA DataReads ==
  ASSUME NEW m, NEW r, Tables(m), m.error = None, m.ordinal = r.ordinal,
         r.data.ticker \in Tickers
  PROVE  Refused(m, Data(m, r)) \/ Skips(m, Data(m, r), r) \/ Accepts(m, Data(m, r), r)
<1> DEFINE f == r.data
           t == f.ticker
           noted == Noted(m, f)
           s == AfterSequence(noted, r)
           seeded == Seeded(m, r)
           k == Data(m, r)
           gap == IsGap(m, r)
           d == GapRecord(noted, r)
           one == m.out \o (IF gap THEN <<d>> ELSE <<>>)
           still(u) == m.valid[u] /\ ~Hides(m, r, u)
<1>1. /\ Tables(noted) /\ SameSource(m, noted) /\ noted.ids = NamedIds(m, f)
      /\ noted.previous = m.previous /\ noted.payloads = m.payloads
      /\ noted.reasons = m.reasons \union (IF Unsequenced(f) THEN {"RequiredSourceSequenceMissing"} ELSE {})
      /\ noted.discontinuous = m.discontinuous /\ noted.segment = m.segment /\ noted.valid = m.valid
      /\ noted.snapshots = m.snapshots /\ noted.out = m.out
      /\ noted.awaiting = m.awaiting /\ noted.time = m.time
  BY NotedTables
<1>2. CASE f \in Prior(m, r) /\ k = noted
  <2>1. ~Unsequenced(f)
    BY <1>2 DEF Prior, Unsequenced
  <2>2. noted.reasons = m.reasons
    BY <1>1, <2>1
  <2> HIDE DEF noted, k
  <2>3. Skips(m, k, r)
    BY <1>1, <1>2, <2>2 DEF Skips, Continues, SameSource
  <2> QED BY <2>3 DEF k
<1>3. CASE /\ Prior(m, r) = {} /\ ~IsRegression(m, r) /\ ~ (m.ids[t] = None /\ f.market = None)
           /\ StateRefusal(s, f) = None /\ k = Event(seeded, r)
  <2>1. /\ SequenceScope(noted, r) = SequenceScope(m, r) /\ IsGap(noted, r) = gap
        /\ Affected(noted, f) = Affected(m, f)
    BY <1>1, ScopeOfNoted DEF SameSource
  <2> DEFINE key == SequenceScope(m, r)
  <2>2. /\ Tables(s) /\ SameSource(noted, s)
        /\ s.ids = noted.ids /\ s.reasons = noted.reasons /\ s.segment = noted.segment
        /\ s.snapshots = noted.snapshots
        /\ s.discontinuous = IF gap THEN TRUE ELSE noted.discontinuous
        /\ s.out = noted.out \o (IF gap THEN <<d>> ELSE <<>>)
        /\ \A u \in Tickers : s.valid[u] = (noted.valid[u] /\ ~Hides(m, r, u))
        /\ s.previous = IF f.seq = None THEN noted.previous ELSE Assign(noted.previous, key, f.seq)
        /\ s.payloads = IF f.seq = None THEN noted.payloads
                        ELSE Assign(noted.payloads, <<key, f.seq>>, f)
        /\ ~gap => s.awaiting = noted.awaiting /\ s.time = noted.time
    <3>1. Tables(noted)
      BY <1>1
    <3>2. SequenceEffect(noted, s, r)
      BY <3>1, SequenceTables
    <3> HIDE DEF noted, s, gap
    <3> QED BY <2>1, <3>2 DEF SequenceEffect, Hides, gap, d
  <2>3. IsEnd(d, Affected(m, f), r)
    BY <2>1 DEF IsEnd, GapRecord, Control
  <2>4. \A u \in Tickers : s.valid[u] = still(u) /\ s.valid[u] \in BOOLEAN
    <3> HIDE DEF s, noted
    <3> QED BY <1>1, <2>2 DEF Tables
  <2> DEFINE x == BoundaryRecord(s, r)
             count == IF Lookup(m.snapshots, <<r.conn, t>>) = None THEN 0
                      ELSE Lookup(m.snapshots, <<r.conn, t>>)
  <2>5. /\ Tables(seeded) /\ SameSource(s, seeded)
        /\ seeded.previous = s.previous /\ seeded.payloads = s.payloads /\ seeded.ids = s.ids
        /\ seeded.discontinuous = s.discontinuous
        /\ seeded.reasons = s.reasons \union (IF IsDelta(f) /\ ~still(t) THEN {"DeltaBeforeRecovery"} ELSE {})
        /\ IsSnapshot(f) => ~still(t)
        /\ \A u \in Tickers : seeded.valid[u] = IF IsSnapshot(f) /\ u = t THEN TRUE ELSE still(u)
        /\ seeded.segment = IF IsSnapshot(f) THEN [m.segment EXCEPT ![t] = @ + 1] ELSE m.segment
        /\ seeded.snapshots = IF IsSnapshot(f) THEN Assign(m.snapshots, <<r.conn, t>>, count + 1) ELSE m.snapshots
        /\ seeded.out = one \o IF IsSnapshot(f) THEN <<x>> ELSE <<>>
        /\ seeded.awaiting = IF IsSnapshot(f) THEN [s.awaiting EXCEPT ![t] = None] ELSE s.awaiting
        /\ seeded.time = s.time
    <3>0. s.out = one /\ s.segment = m.segment /\ s.snapshots = m.snapshots /\ one = one \o <<>>
      <4>1. s.out = one /\ s.segment = m.segment /\ s.snapshots = m.snapshots
        BY <1>1, <2>2
      <4> HIDE DEF s, one
      <4> QED BY <2>2, <4>1, ConcatEmptySeq DEF Tables
    <3>1. CASE IsSnapshot(f)
      <4>0. BoundaryEffect(s, Boundary(s, r), r)
        <5> HIDE DEF s
        <5> QED BY <2>2, BoundaryTables
      <4>1. seeded = Boundary(s, r) /\ ~IsDelta(f)
        BY <3>1 DEF Seeded, IsDelta, IsSnapshot
      <4>2. ~still(t)
        <5>1. ~s.valid[t]
          <6> HIDE DEF s
          <6>1. "RecoverySnapshotDuplicate" # None
            BY ReplayAssumption DEF Codes
          <6> QED BY <1>3, <3>1, <6>1 DEF StateRefusal, IsSnapshot
        <5> QED BY <2>4, <5>1
      <4> HIDE DEF s, seeded, still, one, x
      <4>3. /\ Tables(seeded) /\ SameSource(s, seeded)
            /\ seeded.previous = s.previous /\ seeded.payloads = s.payloads /\ seeded.ids = s.ids
            /\ seeded.reasons = s.reasons /\ seeded.discontinuous = s.discontinuous
            /\ seeded.segment = [s.segment EXCEPT ![t] = @ + 1] /\ seeded.valid = [s.valid EXCEPT ![t] = TRUE]
            /\ seeded.snapshots = Assign(s.snapshots, <<r.conn, t>>, count + 1)
            /\ seeded.awaiting = [s.awaiting EXCEPT ![t] = None] /\ seeded.time = s.time
            /\ seeded.out = s.out \o <<x>>
        BY <2>2, <3>0, <4>0, <4>1 DEF BoundaryEffect, x
      <4>4. \A u \in Tickers : seeded.valid[u] = IF u = t THEN TRUE ELSE still(u)
        BY <2>2, <2>4, <4>3 DEF Tables
      <4> QED BY <3>0, <3>1, <4>1, <4>2, <4>3, <4>4
    <3>2. CASE IsDelta(f) /\ ~still(t)
      <4>1. seeded = Reason(s, "DeltaBeforeRecovery") /\ ~IsSnapshot(f)
        BY <2>4, <3>2 DEF Seeded, IsDelta, IsSnapshot
      <4> HIDE DEF s, seeded, still, one, x
      <4>2. /\ Tables(seeded) /\ SameSource(s, seeded) /\ seeded.reasons = s.reasons \union {"DeltaBeforeRecovery"}
            /\ seeded.previous = s.previous /\ seeded.payloads = s.payloads /\ seeded.ids = s.ids
            /\ seeded.out = s.out /\ seeded.discontinuous = s.discontinuous
            /\ seeded.snapshots = s.snapshots /\ seeded.segment = s.segment /\ seeded.valid = s.valid
            /\ seeded.awaiting = s.awaiting /\ seeded.time = s.time
        <5>1. Tables(s)
          BY <2>2
        <5>2. ReasonEffect(s, Reason(s, "DeltaBeforeRecovery"), "DeltaBeforeRecovery")
          BY <5>1, ReasonTables
        <5> QED BY <4>1, <5>2 DEF ReasonEffect
      <4> QED BY <2>2, <2>4, <3>0, <3>2, <4>1, <4>2
    <3>3. CASE ~IsSnapshot(f) /\ ~ (IsDelta(f) /\ ~still(t))
      <4>1. seeded = s
        BY <2>4, <3>3 DEF Seeded
      <4> HIDE DEF s, seeded, still, one, x
      <4> QED BY <2>2, <2>4, <3>0, <3>3, <4>1 DEF SameSource
    <3> QED BY <3>1, <3>2, <3>3
  <2> DEFINE e == EventRecord(seeded, r)
  <2>6. /\ Tables(k) /\ SameSource(seeded, k)
        /\ k.previous = seeded.previous /\ k.payloads = seeded.payloads /\ k.ids = seeded.ids
        /\ k.reasons = seeded.reasons /\ k.discontinuous = seeded.discontinuous
        /\ k.segment = seeded.segment /\ k.valid = seeded.valid /\ k.snapshots = seeded.snapshots
        /\ k.awaiting = seeded.awaiting /\ k.time = EventTime(seeded, r)
        /\ k.out = seeded.out \o <<e>>
    <3>1. EventEffect(seeded, Event(seeded, r), r)
      <4> HIDE DEF seeded
      <4> QED BY <2>5, EventTables
    <3>2. k = Event(seeded, r)
      BY <1>3
    <3> HIDE DEF seeded, k
    <3> QED BY <3>1, <3>2 DEF EventEffect, e
  <2>7. IsEvent(e, k, r)
    <3> HIDE DEF seeded, k
    <3> QED BY <2>6 DEF IsEvent, EventRecord, e
  <2>8. IsSnapshot(f) => IsBoundary(x, k, r)
    <3>1. s.segment = m.segment /\ m.segment[t] \in Nat /\ t \in DOMAIN m.segment
      BY <1>1, <2>2 DEF Tables
    <3> HIDE DEF seeded, k, s
    <3> QED BY <2>5, <2>6, <3>1 DEF IsBoundary, BoundaryRecord, x
  <2>quiet. Quiet(m, k, r)
    <3> HIDE DEF noted, s, seeded, k
    <3> QED BY <1>1, <2>2, <2>5, <2>6 DEF Quiet, EventTime
  <2>same. ~gap => x = BoundaryRecord(m, r)
    <3> HIDE DEF noted, s
    <3>1. s.segment = m.segment
      BY <1>1, <2>2
    <3> QED BY <1>1, <2>2, <3>1 DEF BoundaryRecord
  <2>named. k.ids[t] # None
    <3>1. k.ids = NamedIds(m, f) /\ DOMAIN m.ids = Tickers
      <4> HIDE DEF noted, s, seeded, k
      <4> QED BY <1>1, <2>2, <2>5, <2>6 DEF Tables
    <3> QED BY <1>3, <3>1 DEF NamedIds
  <2> HIDE DEF noted, s, seeded, k, d, x, e, still, key, count
  <2>9. \E b : IsBoundary(b, k, r) /\ (IsSnapshot(f) => b = x)
    <3>1. CASE IsSnapshot(f)
      BY <2>8, <3>1
    <3>2. CASE ~IsSnapshot(f)
      <4> DEFINE b == [kind |-> "segment_boundary", ticker |-> f.ticker, segment |-> k.segment[f.ticker],
                       scope |-> <<r.conn, f.sid>>, ordinal |-> r.ordinal]
      <4>1. IsBoundary(b, k, r)
        BY DEF IsBoundary
      <4> HIDE DEF b
      <4> QED BY <3>2, <4>1
    <3> QED BY <3>1, <3>2
  <2>10. PICK b : IsBoundary(b, k, r) /\ (IsSnapshot(f) => b = x)
    BY <2>9
  <2>11. k.out = (one \o IF IsSnapshot(f) THEN <<b>> ELSE <<>>) \o <<e>>
    <3> HIDE DEF one
    <3>1. (IF IsSnapshot(f) THEN <<b>> ELSE <<>>) = (IF IsSnapshot(f) THEN <<x>> ELSE <<>>)
      BY <2>10
    <3> QED BY <2>5, <2>6, <3>1
  <2>12. \E d0, b0, e0 :
          /\ IsEnd(d0, Affected(m, f), r) /\ IsBoundary(b0, k, r) /\ IsEvent(e0, k, r)
          /\ IsSnapshot(f) /\ ~IsGap(m, r) => b0 = BoundaryRecord(m, r)
          /\ k.out = ((m.out \o IF IsGap(m, r) THEN <<d0>> ELSE <<>>)
                      \o IF IsSnapshot(f) THEN <<b0>> ELSE <<>>) \o <<e0>>
    BY <2>3, <2>7, <2>10, <2>11, <2>same
  <2>13. /\ Tables(k) /\ SameSource(m, k) /\ k.ids = NamedIds(m, f)
         /\ k.previous = IF f.seq = None THEN m.previous ELSE Assign(m.previous, key, f.seq)
         /\ k.payloads = IF f.seq = None THEN m.payloads ELSE Assign(m.payloads, <<key, f.seq>>, f)
         /\ k.reasons = m.reasons \union (IF Unsequenced(f) THEN {"RequiredSourceSequenceMissing"} ELSE {})
                              \union (IF IsDelta(f) /\ ~still(t) THEN {"DeltaBeforeRecovery"} ELSE {})
         /\ k.discontinuous = IF gap THEN TRUE ELSE m.discontinuous
    BY <1>1, <2>2, <2>5, <2>6 DEF SameSource
  <2>14. /\ IsSnapshot(f) => ~still(t)
         /\ \A u \in Tickers : k.valid[u] = IF IsSnapshot(f) /\ u = t THEN TRUE ELSE still(u)
         /\ k.segment = IF IsSnapshot(f) THEN [m.segment EXCEPT ![t] = @ + 1] ELSE m.segment
         /\ k.snapshots = IF IsSnapshot(f) THEN Assign(m.snapshots, <<r.conn, t>>, count + 1) ELSE m.snapshots
    BY <2>5, <2>6
  <2>15. Accepts(m, k, r)
    BY <1>3, <2>12, <2>13, <2>14, <2>quiet, <2>named DEF Accepts, Continues, SameSource, Still, Counted, still, key, count
  <2> QED BY <2>15 DEF k
<1>4. CASE \E code : code # None /\ code # "complete_observed_interval" /\ k = Refuse(m, code)
  <2> HIDE DEF k
  <2>1. Refused(m, k)
    BY <1>4, RefuseTables
  <2> QED BY <2>1 DEF k
<1> QED BY <1>2, <1>3, <1>4, DataCases

-----------------------------------------------------------------------------
(* 5. What reading a raw record does. *)

\* A record of a connection's subscriptions changes no book.
Binds(m, k, r) ==
  /\ Continues(m, k, r) /\ r.ordinal = m.ordinal + 1 /\ k.ids = m.ids
  /\ k.previous = m.previous /\ k.payloads = m.payloads /\ k.reasons = m.reasons
  /\ k.discontinuous = m.discontinuous /\ k.segment = m.segment /\ k.valid = m.valid
  /\ k.snapshots = m.snapshots /\ k.out = m.out /\ k.awaiting = m.awaiting /\ k.time = m.time

\* A gap of the connection ends every book.
EndsAll(m, k, r) ==
  /\ Continues(m, k, r) /\ k.ids = m.ids
  /\ k.previous = m.previous /\ k.payloads = m.payloads /\ m.reasons \subseteq k.reasons
  /\ k.reasons \subseteq m.reasons \union {"IncompletePrefix"}
  /\ k.discontinuous = TRUE /\ k.segment = m.segment /\ k.snapshots = m.snapshots
  /\ k.requests = m.requests /\ k.scopes = m.scopes
  /\ \A t \in Tickers : ~k.valid[t]
  /\ \E S, controls :
       /\ controls \in Seq(S) /\ m.out \in Seq(S) /\ k.out = m.out \o controls
       /\ \A i \in 1..Len(controls) : \E t \in Tickers : IsEnd(controls[i], {t}, r)
       /\ \A t \in Tickers : \E i \in 1..Len(controls) : IsEnd(controls[i], {t}, r)

LEMMA TickersListed ==
  LET order == SetToSeq(Tickers)
  IN /\ order \in Seq(Tickers)
     /\ \A t \in Tickers : \E i \in 1..Len(order) : order[i] = t
<1> DEFINE c == Cardinality(Tickers)
           order == SetToSeq(Tickers)
<1>1. IsFiniteSet(Tickers) /\ c \in Nat /\ ExistsBijection(1..c, Tickers)
  BY ReplayAssumption, FS_CardinalityType
<1>2. \E f \in [1..c -> Tickers] : IsInjective(f)
  BY <1>1 DEF ExistsBijection, Bijection, Injection
<1>3. order \in [1..c -> Tickers] /\ IsInjective(order)
  BY <1>2 DEF SetToSeq
<1> HIDE DEF order
<1>4. order \in Injection(1..c, Tickers)
  BY <1>3 DEF Injection
<1>5. Cardinality(1..c) = c
  BY <1>1, FS_Interval
<1>6. order \in Surjection(1..c, Tickers)
  <2> HIDE DEF c
  <2>1. Cardinality(1..c) = Cardinality(Tickers)
    BY <1>5 DEF c
  <2> QED BY <1>1, <1>4, <2>1, FS_Injection
<1>7. order \in Seq(Tickers) /\ Len(order) = c
  BY <1>1, <1>3
<1>8. \A t \in Tickers : \E i \in 1..c : order[i] = t
  BY <1>6 DEF Surjection
<1> QED BY <1>7, <1>8 DEF order

\* The normalization with the record's number.
Numbered(m, r) == [m EXCEPT !.ordinal = r.ordinal]

LEMMA NumberedTables ==
  ASSUME NEW m, Tables(m), NEW r
  PROVE  LET k == Numbered(m, r)
         IN /\ Tables(k) /\ k.policy = m.policy /\ k.topology = m.topology /\ k.error = m.error
            /\ k.ordinal = r.ordinal /\ k.time = m.time /\ k.requests = m.requests /\ k.scopes = m.scopes
            /\ k.previous = m.previous /\ k.payloads = m.payloads /\ k.ids = m.ids
            /\ k.segment = m.segment /\ k.valid = m.valid /\ k.ever = m.ever /\ k.awaiting = m.awaiting
            /\ k.snapshots = m.snapshots /\ k.reasons = m.reasons
            /\ k.discontinuous = m.discontinuous /\ k.out = m.out
BY DEF Numbered, Tables, IsNorm

LEMMA GapReads ==
  ASSUME NEW m, Tables(m), NEW r, m.ordinal = r.ordinal
  PROVE  EndsAll(m, Gap(m, r), r)
<1> DEFINE prefix == IF \E t \in Tickers : ~m.ever[t] THEN Reason(m, "IncompletePrefix") ELSE m
           time == Larger(m.time, r.at)
           order == SetToSeq(Tickers)
           controls == [i \in DOMAIN order |-> Control("connection_gap", {order[i]}, r.ordinal, time)]
           ended == Invalidate(prefix, Tickers)
           k == Gap(m, r)
<1>1. /\ Tables(prefix) /\ SameSource(m, prefix) /\ m.reasons \subseteq prefix.reasons
      /\ prefix.reasons \subseteq m.reasons \union {"IncompletePrefix"}
      /\ prefix.previous = m.previous /\ prefix.payloads = m.payloads /\ prefix.ids = m.ids
      /\ prefix.out = m.out /\ prefix.segment = m.segment /\ prefix.snapshots = m.snapshots
  <2> DEFINE known == Reason(m, "IncompletePrefix")
  <2>1. /\ Tables(known) /\ SameSource(m, known) /\ known.reasons = m.reasons \union {"IncompletePrefix"}
        /\ known.previous = m.previous /\ known.payloads = m.payloads /\ known.ids = m.ids
        /\ known.out = m.out /\ known.segment = m.segment /\ known.snapshots = m.snapshots
    BY ReasonTables DEF ReasonEffect
  <2>2. prefix = known \/ prefix = m
    OBVIOUS
  <2> HIDE DEF known, prefix
  <2> QED BY <2>1, <2>2 DEF SameSource
<1> HIDE DEF prefix
<1>2. /\ Tables(ended) /\ SameSource(prefix, ended)
      /\ ended.previous = prefix.previous /\ ended.payloads = prefix.payloads /\ ended.ids = prefix.ids
      /\ ended.reasons = prefix.reasons /\ ended.out = prefix.out
      /\ ended.snapshots = prefix.snapshots /\ ended.segment = prefix.segment
      /\ \A t \in Tickers : ended.valid[t] = (prefix.valid[t] /\ t \notin Tickers)
  BY <1>1, InvalidateTables
<1>3. k = [ended EXCEPT !.time = time, !.discontinuous = TRUE, !.out = ended.out \o controls]
  BY <1>2 DEF Gap, Tables, IsNorm, prefix
<1>4. order \in Seq(Tickers) /\ \A t \in Tickers : \E i \in 1..Len(order) : order[i] = t
  BY TickersListed
<1> HIDE DEF ended, k, order, time
<1> DEFINE S0 == {Control("connection_gap", {t}, r.ordinal, time) : t \in Tickers}
<1>5. controls \in Seq(S0) /\ Len(controls) = Len(order)
      /\ \A i \in 1..Len(order) : controls[i] = Control("connection_gap", {order[i]}, r.ordinal, time)
  <2>1. DOMAIN order = 1..Len(order) /\ Len(order) \in Nat
    BY <1>4
  <2>2. \A i \in 1..Len(order) : order[i] \in Tickers
    BY <1>4
  <2>3. \A i \in 1..Len(order) : Control("connection_gap", {order[i]}, r.ordinal, time) \in S0
    BY <2>2
  <2> HIDE DEF S0
  <2>4. controls \in [1..Len(order) -> S0]
    BY <2>1, <2>3
  <2>5. controls \in Seq(S0)
    BY <2>1, <2>4
  <2> QED BY <2>1, <2>4, <2>5
<1>6. /\ \A i \in 1..Len(controls) : \E t \in Tickers : IsEnd(controls[i], {t}, r)
      /\ \A t \in Tickers : \E i \in 1..Len(controls) : IsEnd(controls[i], {t}, r)
  <2>1. \A t : IsEnd(Control("connection_gap", {t}, r.ordinal, time), {t}, r)
    BY DEF IsEnd, Control
  <2>2. \A i \in 1..Len(order) : order[i] \in Tickers
    BY <1>4
  <2> HIDE DEF controls
  <2> QED BY <1>4, <1>5, <2>1, <2>2
<1>7. \E S : controls \in Seq(S) /\ m.out \in Seq(S) /\ m.out \o controls \in Seq(S)
  <2>1. PICK S1 : m.out \in Seq(S1)
    BY DEF Tables
  <2> HIDE DEF controls, S0
  <2>2. controls \in Seq(S0 \union S1) /\ m.out \in Seq(S0 \union S1)
    BY <1>5, <2>1, SeqMonotonic
  <2>3. m.out \o controls \in Seq(S0 \union S1)
    BY <2>2, ConcatProperties
  <2> QED BY <2>2, <2>3
<1> HIDE DEF controls
<1>8. k.out = m.out \o controls
  BY <1>1, <1>2, <1>3 DEF Tables, IsNorm
<1>9. Tables(k)
  BY <1>1, <1>2, <1>3, <1>7 DEF Tables, IsNorm
<1>10. /\ k.policy = m.policy /\ k.topology = m.topology /\ k.error = m.error /\ k.ordinal = m.ordinal
       /\ k.requests = m.requests /\ k.scopes = m.scopes /\ k.ids = m.ids
       /\ k.previous = m.previous /\ k.payloads = m.payloads /\ k.reasons = prefix.reasons
       /\ k.discontinuous = TRUE /\ k.segment = m.segment /\ k.snapshots = m.snapshots
       /\ \A t \in Tickers : ~k.valid[t]
  BY <1>1, <1>2, <1>3 DEF Tables, IsNorm, SameSource
<1>11. EndsAll(m, k, r)
  BY <1>1, <1>6, <1>7, <1>8, <1>9, <1>10 DEF EndsAll, Continues
<1> QED BY <1>11 DEF k

\* A record of a subscription: refused, or recorded.
LEMMA ReadBinds ==
  ASSUME NEW m, Tables(m), m.error = None, NEW r,
         r.kind \in {"subscription_sent", "subscription_acknowledged"}
  PROVE  Refused(m, Read(m, r)) \/ Binds(m, Read(m, r), r)
<1> DEFINE a == Numbered(m, r)
           k == Read(m, r)
<1>1. /\ Tables(a) /\ a.policy = m.policy /\ a.topology = m.topology /\ a.error = m.error
      /\ a.ordinal = r.ordinal /\ a.ids = m.ids
      /\ a.previous = m.previous /\ a.payloads = m.payloads /\ a.reasons = m.reasons
      /\ a.discontinuous = m.discontinuous /\ a.segment = m.segment /\ a.valid = m.valid
      /\ a.snapshots = m.snapshots /\ a.out = m.out /\ a.awaiting = m.awaiting /\ a.time = m.time
  BY NumberedTables
<1>2. /\ "IngressOrdinalMismatch" # None /\ "SubscriptionRequestInvalid" # None
      /\ "SubscriptionAckMismatch" # None
  BY ReplayAssumption DEF Codes
<1>3. k = IF r.ordinal # m.ordinal + 1 THEN Refuse(m, "IngressOrdinalMismatch")
          ELSE IF r.kind = "subscription_sent" THEN Request(a, r) ELSE Acknowledgement(a, r)
  BY DEF Read, Numbered
<1> HIDE DEF a, k
<1>4. CASE k = Refuse(m, "IngressOrdinalMismatch")
  <2>1. Refused(m, k)
    BY <1>2, <1>4, RefuseTables
  <2> QED BY <2>1 DEF k
<1>5. CASE \E code : code # None /\ code # "complete_observed_interval" /\ k = Refuse(a, code)
  <2>1. Refused(a, k)
    BY <1>1, <1>5, RefuseTables
  <2> QED BY <1>1, <2>1 DEF k, Refused
<1>6. ASSUME r.ordinal = m.ordinal + 1, NEW x, k = [a EXCEPT !.requests = x] \/ k = [a EXCEPT !.scopes = x]
      PROVE  Binds(m, k, r)
  BY <1>1, <1>6 DEF Binds, Continues, Tables, IsNorm
<1>7. Request(a, r) = Refuse(a, "SubscriptionRequestInvalid") \/ \E x : Request(a, r) = [a EXCEPT !.requests = x]
  BY <1>1 DEF Request, Tables, IsNorm
<1>8. Acknowledgement(a, r) = Refuse(a, "SubscriptionAckMismatch") \/ \E x : Acknowledgement(a, r) = [a EXCEPT !.scopes = x]
  BY <1>1 DEF Acknowledgement, Tables, IsNorm
<1>9. Refused(m, k) \/ Binds(m, k, r)
  BY <1>2, <1>3, <1>4, <1>5, <1>6, <1>7, <1>8 DEF k
<1> QED BY <1>9 DEF k

LEMMA ReadEndsAll ==
  ASSUME NEW m, Tables(m), m.error = None, NEW r, r.ordinal = m.ordinal + 1, r.kind = "connection_gap"
  PROVE  EndsAll(m, Read(m, r), r)
<1> DEFINE a == Numbered(m, r)
           k == Read(m, r)
<1>1. /\ Tables(a) /\ a.policy = m.policy /\ a.topology = m.topology /\ a.error = m.error
      /\ a.ordinal = r.ordinal /\ a.ids = m.ids /\ a.requests = m.requests /\ a.scopes = m.scopes
      /\ a.previous = m.previous /\ a.payloads = m.payloads /\ a.reasons = m.reasons
      /\ a.discontinuous = m.discontinuous /\ a.segment = m.segment /\ a.valid = m.valid
      /\ a.snapshots = m.snapshots /\ a.out = m.out
  BY NumberedTables
<1>2. k = Gap(a, r)
  BY DEF Read, Numbered
<1>3. EndsAll(a, Gap(a, r), r)
  <2> HIDE DEF a
  <2> QED BY <1>1, GapReads
<1> HIDE DEF a, k
<1>4. EndsAll(m, k, r)
  BY <1>1, <1>2, <1>3 DEF EndsAll, Continues
<1> QED BY <1>4 DEF k

LEMMA SameReading ==
  ASSUME NEW m, NEW a, NEW r, a.topology = m.topology, a.previous = m.previous,
         a.payloads = m.payloads, a.ids = m.ids, a.valid = m.valid
  PROVE  /\ SequenceScope(a, r) = SequenceScope(m, r) /\ IsGap(a, r) = IsGap(m, r)
         /\ IsRegression(a, r) = IsRegression(m, r) /\ Prior(a, r) = Prior(m, r)
         /\ Affected(a, r.data) = Affected(m, r.data) /\ NamedIds(a, r.data) = NamedIds(m, r.data)
         /\ \A t : Hides(a, r, t) = Hides(m, r, t)
<1>1. SequenceScope(a, r) = SequenceScope(m, r) /\ Affected(a, r.data) = Affected(m, r.data)
  BY DEF SequenceScope, Affected
<1>2. IsGap(a, r) = IsGap(m, r) /\ IsRegression(a, r) = IsRegression(m, r) /\ Prior(a, r) = Prior(m, r)
  BY <1>1 DEF IsGap, IsRegression, Prior
<1>3. NamedIds(a, r.data) = NamedIds(m, r.data)
  BY DEF NamedIds
<1>4. \A t : Hides(a, r, t) = Hides(m, r, t)
  BY <1>1, <1>2 DEF Hides
<1> QED BY <1>1, <1>2, <1>3, <1>4

\* A frame that is delivered: refused, seen before, or new.
LEMMA ReadFrame ==
  ASSUME NEW m, Tables(m), m.error = None, NEW r, r.ordinal = m.ordinal + 1, r.kind = "inbound_frame",
         r.data.type \in EventTypes, r.data.ticker \in Tickers
  PROVE  Refused(m, Read(m, r)) \/ Skips(m, Read(m, r), r) \/ Accepts(m, Read(m, r), r)
<1> DEFINE a == Numbered(m, r)
           k == Read(m, r)
<1>1. /\ Tables(a) /\ a.policy = m.policy /\ a.topology = m.topology /\ a.error = m.error
      /\ a.ordinal = r.ordinal /\ a.ids = m.ids /\ a.requests = m.requests /\ a.scopes = m.scopes
      /\ a.previous = m.previous /\ a.payloads = m.payloads /\ a.reasons = m.reasons
      /\ a.discontinuous = m.discontinuous /\ a.segment = m.segment /\ a.valid = m.valid
      /\ a.snapshots = m.snapshots /\ a.out = m.out /\ a.awaiting = m.awaiting /\ a.time = m.time
  BY NumberedTables
<1>2. k = Data(a, r)
  BY DEF Read, Numbered
<1>3. Refused(a, Data(a, r)) \/ Skips(a, Data(a, r), r) \/ Accepts(a, Data(a, r), r)
  <2> HIDE DEF a
  <2> QED BY <1>1, DataReads
<1> HIDE DEF a, k
<1>4. /\ SequenceScope(a, r) = SequenceScope(m, r) /\ IsGap(a, r) = IsGap(m, r)
      /\ IsRegression(a, r) = IsRegression(m, r) /\ Prior(a, r) = Prior(m, r)
      /\ Affected(a, r.data) = Affected(m, r.data) /\ NamedIds(a, r.data) = NamedIds(m, r.data)
      /\ \A t : Hides(a, r, t) = Hides(m, r, t)
  BY <1>1, SameReading
<1>5. CASE Refused(a, k)
  <2>1. Refused(m, k)
    BY <1>1, <1>5 DEF Refused
  <2> QED BY <2>1 DEF k
<1>6. CASE Skips(a, k, r)
  <2>1. Skips(m, k, r)
    BY <1>1, <1>4, <1>6 DEF Skips, Continues
  <2> QED BY <2>1 DEF k
<1>7. CASE Accepts(a, k, r)
  <2>1. Counted(a, r) = Counted(m, r) /\ \A t : Still(a, r, t) = Still(m, r, t)
    BY <1>1, <1>4 DEF Counted, Still
  <2>2. /\ Prior(m, r) = {} /\ ~IsRegression(m, r)
        /\ Continues(m, k, r) /\ k.requests = m.requests /\ k.scopes = m.scopes /\ k.ids = NamedIds(m, r.data)
    BY <1>1, <1>4, <1>7 DEF Accepts, Continues
  <2>named. k.ids[r.data.ticker] # None
    BY <1>7 DEF Accepts
  <2>quiet. Quiet(m, k, r)
    <3>1. Quiet(a, k, r)
      BY <1>7 DEF Accepts
    <3> QED BY <1>1, <1>4, <3>1 DEF Quiet, EventTime
  <2>same. BoundaryRecord(a, r) = BoundaryRecord(m, r)
    BY <1>1 DEF BoundaryRecord
  <2>3. /\ k.previous = IF r.data.seq = None THEN m.previous
                        ELSE Assign(m.previous, SequenceScope(m, r), r.data.seq)
        /\ k.payloads = IF r.data.seq = None THEN m.payloads
                        ELSE Assign(m.payloads, <<SequenceScope(m, r), r.data.seq>>, r.data)
        /\ k.discontinuous = IF IsGap(m, r) THEN TRUE ELSE m.discontinuous
    BY <1>1, <1>4, <1>7 DEF Accepts
  <2>4. k.reasons = m.reasons \union (IF Unsequenced(r.data) THEN {"RequiredSourceSequenceMissing"} ELSE {})
                              \union (IF IsDelta(r.data) /\ ~Still(m, r, r.data.ticker)
                                       THEN {"DeltaBeforeRecovery"} ELSE {})
    BY <1>1, <1>7, <2>1 DEF Accepts
  <2>5. /\ IsSnapshot(r.data) => ~Still(m, r, r.data.ticker)
        /\ \A t \in Tickers : k.valid[t] = IF IsSnapshot(r.data) /\ t = r.data.ticker THEN TRUE ELSE Still(m, r, t)
    BY <1>7, <2>1 DEF Accepts
  <2>6. /\ k.segment = IF IsSnapshot(r.data) THEN [m.segment EXCEPT ![r.data.ticker] = @ + 1] ELSE m.segment
        /\ k.snapshots = IF IsSnapshot(r.data)
             THEN Assign(m.snapshots, <<r.conn, r.data.ticker>>, Counted(m, r) + 1) ELSE m.snapshots
    BY <1>1, <1>7, <2>1 DEF Accepts
  <2>7. \E d, b, e :
          /\ IsEnd(d, Affected(m, r.data), r) /\ IsBoundary(b, k, r) /\ IsEvent(e, k, r)
          /\ IsSnapshot(r.data) /\ ~IsGap(m, r) => b = BoundaryRecord(m, r)
          /\ k.out = ((m.out \o IF IsGap(m, r) THEN <<d>> ELSE <<>>)
                      \o IF IsSnapshot(r.data) THEN <<b>> ELSE <<>>) \o <<e>>
    <3>1. PICK d, b, e :
          /\ IsEnd(d, Affected(a, r.data), r) /\ IsBoundary(b, k, r) /\ IsEvent(e, k, r)
          /\ IsSnapshot(r.data) /\ ~IsGap(a, r) => b = BoundaryRecord(a, r)
          /\ k.out = ((a.out \o IF IsGap(a, r) THEN <<d>> ELSE <<>>)
                      \o IF IsSnapshot(r.data) THEN <<b>> ELSE <<>>) \o <<e>>
      BY Zenon, <1>7 DEF Accepts
    <3> QED BY <1>1, <1>4, <2>same, <3>1
  <2>8. Accepts(m, k, r)
    BY <2>2, <2>3, <2>4, <2>5, <2>6, <2>7, <2>named, <2>quiet DEF Accepts
  <2> QED BY <2>8 DEF k
<1> QED BY <1>2, <1>3, <1>5, <1>6, <1>7

-----------------------------------------------------------------------------
(* 6. What a record does to a cursor. *)

CursorFields ==
  {"ticker", "market", "state", "segment", "evidence", "projection", "applied", "seed", "from",
   "pending", "seen", "error"}

\* A cursor, and an announced segment it has not seen.
IsCursor(c) ==
  /\ DOMAIN c = CursorFields
  /\ DOMAIN c.projection = {"book", "trade", "seeded"} /\ c.projection.book \in [Levels -> Nat]
  /\ IsFiniteSet(c.seen)
  /\ c.error = None /\ c.pending # None => c.pending.segment \notin c.seen

\* The cursor raises.
Fails(c, d) == IsCursor(d) /\ d.error # None /\ d.seen = c.seen

\* A boundary is announced.
Announced(c, d, b) ==
  /\ IsCursor(d) /\ d.error = None /\ d.pending = b /\ d.seen = c.seen
  /\ d.state = c.state /\ d.segment = c.segment /\ d.projection = c.projection

\* The book is gone.
Emptied(c, d) == IsCursor(d) /\ d.error = c.error /\ d.state # "valid" /\ d.seen = c.seen

\* The snapshot, the delta or the trade is applied.
Seeds(c, d, segment, body) ==
  /\ d.state = "valid" /\ d.segment = segment /\ d.projection.book = body.book
  /\ segment \notin c.seen /\ d.seen = c.seen \union {segment}
Moves(c, d, body) ==
  /\ c.state = "valid" /\ d.state = "valid" /\ d.segment = c.segment /\ d.seen = c.seen
  /\ d.projection.book = [c.projection.book EXCEPT ![body.level] = @ + body.change]
Trades(c, d) ==
  d.state = c.state /\ d.segment = c.segment /\ d.seen = c.seen /\ d.projection.book = c.projection.book
Applied(c, d, e) ==
  /\ IsCursor(d) /\ d.error = None
  /\ e.type = "orderbook_snapshot" => Seeds(c, d, e.segment, e.body)
  /\ e.type = "orderbook_delta" => Moves(c, d, e.body)
  /\ e.type = "trade" => Trades(c, d)

\* A well-formed body of each type.
BodyOK(type, body) ==
  /\ type = "orderbook_snapshot" => body.book \in [Levels -> Nat]
  /\ type = "orderbook_delta" => body.level \in Levels /\ body.change \in Int

LEMMA FailFails ==
  ASSUME NEW c, IsCursor(c), NEW code, code \in Codes
  PROVE  Fails(c, Fail(c, code))
<1>1. code # None
  BY ReplayAssumption
<1> QED BY <1>1 DEF Fail, Fails, IsCursor, CursorFields

LEMMA StartCases ==
  ASSUME NEW c, IsCursor(c), c.error = None, NEW b
  PROVE  Fails(c, StartSegment(c, b)) \/ Announced(c, StartSegment(c, b), b)
<1> DEFINE d == [c EXCEPT !.pending = b, !.applied = b.ordinal]
           k == StartSegment(c, b)
<1>1. k = Fail(c, "FeatureSegmentInvalid") \/ (b.segment \notin c.seen /\ k = d)
  BY Zenon DEF StartSegment
<1>2. b.segment \notin c.seen => Announced(c, d, b)
  BY DEF Announced, IsCursor, CursorFields
<1>3. Fails(c, Fail(c, "FeatureSegmentInvalid"))
  BY FailFails DEF Codes
<1> HIDE DEF d, k
<1>4. Fails(c, k) \/ Announced(c, k, b)
  BY <1>1, <1>2, <1>3
<1> QED BY <1>4 DEF k

LEMMA InvalidateEmpties ==
  ASSUME NEW c, IsCursor(c), NEW d
  PROVE  Emptied(c, InvalidateCursor(c, d))
<1>1. EmptyBook \in [Levels -> Nat]
  BY DEF EmptyBook
<1> QED BY <1>1 DEF InvalidateCursor, Emptied, IsCursor, CursorFields, NewProjection

LEMMA ApplyCases ==
  ASSUME NEW c, IsCursor(c), c.error = None, NEW e, e.type \in EventTypes, BodyOK(e.type, e.body)
  PROVE  Fails(c, ApplyMarketEvent(c, e)) \/ Applied(c, ApplyMarketEvent(c, e), e)
<1> DEFINE k == ApplyMarketEvent(c, e)
           projected == Project(c.projection, e.type, e.body)
           snap == [c EXCEPT !.projection = Project(NewProjection, e.type, e.body),
                   !.segment = e.segment, !.evidence = c.pending.evidence,
                   !.seen = @ \union {e.segment}, !.seed = c.pending.ordinal, !.from = e.ordinal,
                   !.applied = e.ordinal, !.pending = None, !.state = "valid"]
           pass == [c EXCEPT !.applied = e.ordinal]
           move == [c EXCEPT !.projection = projected, !.applied = e.ordinal]
<1>1. \/ \E code \in Codes : k = Fail(c, code)
      \/ /\ e.type = "orderbook_snapshot" /\ c.pending # None /\ e.segment = c.pending.segment
         /\ k = snap
      \/ e.type = "trade" /\ k = pass
      \/ /\ e.type \in {"orderbook_delta", "trade"} /\ c.state = "valid"
         /\ projected # None /\ k = move
  <2>1. ApplySnapshot(c, e) = Fail(c, "FeatureSegmentInvalid") \/
        (c.pending # None /\ e.segment = c.pending.segment /\ ApplySnapshot(c, e) = snap)
    BY DEF ApplySnapshot
  <2>2. \/ ApplyUpdate(c, e) = Fail(c, "FeatureSegmentInvalid")
        \/ ApplyUpdate(c, e) = Fail(c, "FeatureBookStateInvalid")
        \/ ApplyUpdate(c, e) = Fail(c, "FeatureProjectionInvalid")
        \/ e.type = "trade" /\ ApplyUpdate(c, e) = pass
        \/ c.state = "valid" /\ projected # None /\ ApplyUpdate(c, e) = move
    BY DEF ApplyUpdate
  <2>3. k = IF e.ticker # c.ticker \/ e.market # c.market THEN Fail(c, "FeatureProductIdentityMismatch")
            ELSE IF e.type = "orderbook_snapshot" THEN ApplySnapshot(c, e) ELSE ApplyUpdate(c, e)
    BY DEF ApplyMarketEvent
  <2> HIDE DEF k, snap, pass, move, projected
  <2>4. {"FeatureSegmentInvalid", "FeatureBookStateInvalid", "FeatureProjectionInvalid",
         "FeatureProductIdentityMismatch"} \subseteq Codes
    BY DEF Codes
  <2> QED BY <2>1, <2>2, <2>3, <2>4 DEF EventTypes
<1>2. ASSUME e.type = "orderbook_snapshot", c.pending # None, e.segment = c.pending.segment
      PROVE  Applied(c, snap, e)
  <2>1. EmptyBook \in [Levels -> Nat] /\ e.body.book \in [Levels -> Nat]
    BY <1>2 DEF EmptyBook, BodyOK
  <2> DEFINE p == Project(NewProjection, e.type, e.body)
  <2>2. DOMAIN p = {"book", "trade", "seeded"} /\ p.book = e.body.book
    BY <1>2 DEF Project, NewProjection
  <2>3. IsFiniteSet(c.seen \union {e.segment}) /\ e.segment \notin c.seen
    BY <1>2, FS_AddElement DEF IsCursor
  <2> HIDE DEF p
  <2>4. /\ DOMAIN snap = CursorFields /\ snap.projection = p /\ snap.seen = c.seen \union {e.segment}
        /\ snap.segment = e.segment /\ snap.pending = None /\ snap.state = "valid" /\ snap.error = None
    BY DEF IsCursor, CursorFields, p
  <2> HIDE DEF snap
  <2> QED BY <1>2, <2>1, <2>2, <2>3, <2>4 DEF Applied, Seeds, IsCursor
<1>3. ASSUME e.type = "trade"
      PROVE  Applied(c, pass, e)
  BY <1>3 DEF Applied, Trades, IsCursor, CursorFields
<1>4. ASSUME e.type \in {"orderbook_delta", "trade"}, c.state = "valid", projected # None
      PROVE  Applied(c, move, e)
  <2> DEFINE book == c.projection.book
             p == projected
  <2>1. /\ DOMAIN p = {"book", "trade", "seeded"} /\ p.book \in [Levels -> Nat]
        /\ e.type = "orderbook_delta" => p.book = [book EXCEPT ![e.body.level] = @ + e.body.change]
        /\ e.type = "trade" => p.book = book
    <3>1. CASE e.type = "trade"
      BY <3>1 DEF Project, IsCursor
    <3>2. CASE e.type = "orderbook_delta"
      <4>1. /\ book[e.body.level] + e.body.change >= 0
            /\ p = [c.projection EXCEPT !.book[e.body.level] = @ + e.body.change]
        BY <1>4, <3>2 DEF Project
      <4>2. e.body.level \in Levels /\ e.body.change \in Int
        BY <3>2 DEF BodyOK
      <4> QED BY <3>2, <4>1, <4>2 DEF IsCursor
    <3> QED BY <1>4, <3>1, <3>2
  <2> HIDE DEF p, projected
  <2>2. /\ DOMAIN move = CursorFields /\ move.projection = p /\ move.seen = c.seen
        /\ move.segment = c.segment /\ move.pending = c.pending /\ move.state = c.state /\ move.error = None
    BY DEF IsCursor, CursorFields, p
  <2> HIDE DEF move
  <2> QED BY <1>4, <2>1, <2>2 DEF Applied, Moves, Trades, IsCursor
<1>5. \A code \in Codes : Fails(c, Fail(c, code))
  BY FailFails
<1> HIDE DEF k, snap, pass, move, projected
<1>6. Fails(c, k) \/ Applied(c, k, e)
  BY <1>1, <1>2, <1>3, <1>4, <1>5
<1> QED BY <1>6 DEF k

-----------------------------------------------------------------------------
(* 7. What the records of one reading do to every cursor. *)

IsCursors(cs) == DOMAIN cs = Tickers /\ \A t \in Tickers : IsCursor(cs[t])

LEMMA FollowingEnd ==
  ASSUME NEW cs, DOMAIN cs = Tickers, NEW d, d.kind = "discontinuity", NEW t \in Tickers
  PROVE  Following(cs, d)[t] = IF cs[t].error = None /\ t \in d.affected
                                 THEN InvalidateCursor(cs[t], d) ELSE cs[t]
BY DEF Following, Follow

LEMMA FollowingBoundary ==
  ASSUME NEW cs, DOMAIN cs = Tickers, NEW b, b.kind = "segment_boundary", NEW t \in Tickers
  PROVE  Following(cs, b)[t] = IF cs[t].error = None /\ t = b.ticker
                                 THEN StartSegment(cs[t], b) ELSE cs[t]
BY DEF Following, Follow

LEMMA FollowingEvent ==
  ASSUME NEW cs, DOMAIN cs = Tickers, NEW e, e.kind = "market_event", NEW t \in Tickers
  PROVE  Following(cs, e)[t] = IF cs[t].error = None /\ t = e.ticker
                                 THEN ApplyMarketEvent(cs[t], e) ELSE cs[t]
BY DEF Following, Follow

LEMMA FollowingDomain ==
  ASSUME NEW cs, NEW rec
  PROVE  DOMAIN Following(cs, rec) = Tickers
BY DEF Following

LEMMA FollowNone == FollowAll(<<>>) = cursors
<1>1. Len(<<>>) = 0
  OBVIOUS
<1> QED BY <1>1, FollowSteps

\* A gap, a boundary and an event: the event is always there.
LEMMA FollowThree ==
  ASSUME NEW gap \in BOOLEAN, NEW snap \in BOOLEAN, NEW d, NEW b, NEW e
  PROVE  LET first == IF gap THEN Following(cursors, d) ELSE cursors
             second == IF snap THEN Following(first, b) ELSE first
         IN FollowAll(((IF gap THEN <<d>> ELSE <<>>) \o (IF snap THEN <<b>> ELSE <<>>)) \o <<e>>)
              = Following(second, e)
<1>1. \A recs : Len(recs) = 1 => FollowAll(recs) = Following(cursors, recs[1])
  <2> TAKE recs
  <2> HAVE Len(recs) = 1
  <2>1. PICK h : /\ FollowAll(recs) = h[1]
                 /\ h[0] = cursors /\ \A i \in 1..1 : h[i] = Following(h[i - 1], recs[i])
    <3>1. Len(recs) \in Nat
      OBVIOUS
    <3>2. \E h : /\ FollowAll(recs) = h[Len(recs)]
                 /\ h[0] = cursors /\ \A i \in 1..Len(recs) : h[i] = Following(h[i - 1], recs[i])
      BY Zenon, <3>1, FollowSteps
    <3> QED BY <3>2
  <2>2. h[1] = Following(h[0], recs[1])
    BY <2>1
  <2> QED BY <2>1, <2>2
<1>2. \A recs : Len(recs) = 2 => FollowAll(recs) = Following(Following(cursors, recs[1]), recs[2])
  <2> TAKE recs
  <2> HAVE Len(recs) = 2
  <2>1. PICK h : /\ FollowAll(recs) = h[2]
                 /\ h[0] = cursors /\ \A i \in 1..2 : h[i] = Following(h[i - 1], recs[i])
    <3>1. Len(recs) \in Nat
      OBVIOUS
    <3>2. \E h : /\ FollowAll(recs) = h[Len(recs)]
                 /\ h[0] = cursors /\ \A i \in 1..Len(recs) : h[i] = Following(h[i - 1], recs[i])
      BY Zenon, <3>1, FollowSteps
    <3> QED BY <3>2
  <2>2. h[1] = Following(h[0], recs[1]) /\ h[2] = Following(h[1], recs[2])
    BY <2>1
  <2> QED BY <2>1, <2>2
<1>3. \A recs : Len(recs) = 3 =>
        FollowAll(recs) = Following(Following(Following(cursors, recs[1]), recs[2]), recs[3])
  <2> TAKE recs
  <2> HAVE Len(recs) = 3
  <2>1. PICK h : /\ FollowAll(recs) = h[3]
                 /\ h[0] = cursors /\ \A i \in 1..3 : h[i] = Following(h[i - 1], recs[i])
    <3>1. Len(recs) \in Nat
      OBVIOUS
    <3>2. \E h : /\ FollowAll(recs) = h[Len(recs)]
                 /\ h[0] = cursors /\ \A i \in 1..Len(recs) : h[i] = Following(h[i - 1], recs[i])
      BY Zenon, <3>1, FollowSteps
    <3> QED BY <3>2
  <2>2. h[1] = Following(h[0], recs[1]) /\ h[2] = Following(h[1], recs[2]) /\ h[3] = Following(h[2], recs[3])
    BY <2>1
  <2> QED BY <2>1, <2>2
<1>4. /\ (<<>> \o <<>>) \o <<e>> = <<e>> /\ (<<d>> \o <<>>) \o <<e>> = <<d, e>>
      /\ (<<>> \o <<b>>) \o <<e>> = <<b, e>> /\ (<<d>> \o <<b>>) \o <<e>> = <<d, b, e>>
  <2> DEFINE S == {d, b, e}
  <2>0. <<>> \in Seq(S) /\ <<d>> \in Seq(S) /\ <<b>> \in Seq(S) /\ <<e>> \in Seq(S) /\ <<d, b>> \in Seq(S)
    OBVIOUS
  <2> HIDE DEF S
  <2>1. <<>> \o <<>> = <<>> /\ <<d>> \o <<>> = <<d>> /\ <<>> \o <<b>> = <<b>> /\ <<>> \o <<e>> = <<e>>
    BY Zenon, <2>0, ConcatEmptySeq
  <2>2. \A x, y : <<x>> \in Seq(S) /\ y \in S => <<x>> \o <<y>> = <<x, y>>
    <3> TAKE x, y
    <3> HAVE <<x>> \in Seq(S) /\ y \in S
    <3>1. Append(<<x>>, y) = <<x>> \o <<y>>
      BY AppendIsConcat
    <3>2. Append(<<x>>, y) = <<x, y>>
      <4>1. x \in S /\ <<x, y>> \in Seq(S)
        OBVIOUS
      <4>2. /\ Append(<<x>>, y) \in Seq(S) /\ Len(Append(<<x>>, y)) = 2
            /\ Append(<<x>>, y)[1] = x /\ Append(<<x>>, y)[2] = y
        BY AppendProperties
      <4>3. \A i \in 1..2 : Append(<<x>>, y)[i] = <<x, y>>[i]
        <5>1. \A i \in 1..2 : i = 1 \/ i = 2
          OBVIOUS
        <5> QED BY <4>2, <5>1
      <4> QED BY <4>1, <4>2, <4>3, SeqEqual
    <3> QED BY <3>1, <3>2
  <2>3. <<d, b>> \o <<e>> = <<d, b, e>>
    <3>0. e \in S
      BY DEF S
    <3>1. Append(<<d, b>>, e) = <<d, b>> \o <<e>>
      BY <2>0, <3>0, AppendIsConcat
    <3>2. Append(<<d, b>>, e) = <<d, b, e>>
      <4>1. d \in S /\ b \in S /\ <<d, b, e>> \in Seq(S)
        BY DEF S
      <4>2. /\ Append(<<d, b>>, e) \in Seq(S) /\ Len(Append(<<d, b>>, e)) = 3
            /\ Append(<<d, b>>, e)[1] = d /\ Append(<<d, b>>, e)[2] = b /\ Append(<<d, b>>, e)[3] = e
        BY <2>0, <3>0, AppendProperties
      <4>3. \A i \in 1..3 : Append(<<d, b>>, e)[i] = <<d, b, e>>[i]
        <5>1. \A i \in 1..3 : i = 1 \/ i = 2 \/ i = 3
          OBVIOUS
        <5> QED BY <4>2, <5>1
      <4> QED BY <4>1, <4>2, <4>3, SeqEqual
    <3> QED BY <3>1, <3>2
  <2>4. b \in S /\ e \in S
    BY DEF S
  <2> QED BY Zenon, <2>0, <2>1, <2>2, <2>3, <2>4
<1>5. /\ Len(<<e>>) = 1 /\ <<e>>[1] = e /\ Len(<<d, e>>) = 2 /\ <<d, e>>[1] = d /\ <<d, e>>[2] = e
      /\ Len(<<b, e>>) = 2 /\ <<b, e>>[1] = b /\ <<b, e>>[2] = e
      /\ Len(<<d, b, e>>) = 3 /\ <<d, b, e>>[1] = d /\ <<d, b, e>>[2] = b /\ <<d, b, e>>[3] = e
  OBVIOUS
<1>6. /\ FollowAll(<<e>>) = Following(cursors, e)
      /\ FollowAll(<<d, e>>) = Following(Following(cursors, d), e)
      /\ FollowAll(<<b, e>>) = Following(Following(cursors, b), e)
      /\ FollowAll(<<d, b, e>>) = Following(Following(Following(cursors, d), b), e)
  BY <1>1, <1>2, <1>3, <1>5
<1>7. CASE gap /\ snap
  BY Zenon, <1>4, <1>6, <1>7
<1>8. CASE gap /\ ~snap
  BY Zenon, <1>4, <1>6, <1>8
<1>9. CASE ~gap /\ snap
  BY Zenon, <1>4, <1>6, <1>9
<1>10. CASE ~gap /\ ~snap
  BY Zenon, <1>4, <1>6, <1>10
<1> QED BY <1>7, <1>8, <1>9, <1>10

\* What a frame f's records do to a cursor: own, of f's ticker; ends, hidden by
\* the gap before f.
FrameEffect(c, d, own, ends, f, segment) ==
  /\ IsCursor(d)
  /\ c.error # None => d = c
  /\ d.error # None => d.seen = c.seen
  /\ c.error = None /\ d.error = None =>
       /\ ~own \/ f.type = "trade" =>
            IF ends THEN d.state # "valid" /\ d.seen = c.seen ELSE Trades(c, d)
       /\ own /\ f.type = "orderbook_snapshot" => Seeds(c, d, segment, f.body)
       /\ own /\ f.type = "orderbook_delta" => ~ends /\ Moves(c, d, f.body)

LEMMA FrameOnCursor ==
  ASSUME NEW cs, IsCursors(cs), NEW gap \in BOOLEAN, NEW d, NEW b, NEW e, NEW f, NEW t \in Tickers,
         d.kind = "discontinuity", b.kind = "segment_boundary", e.kind = "market_event",
         b.ticker = f.ticker, e.ticker = f.ticker, e.type = f.type, e.body = f.body,
         f.type \in EventTypes, BodyOK(f.type, f.body)
  PROVE  LET first == IF gap THEN Following(cs, d) ELSE cs
             second == IF IsSnapshot(f) THEN Following(first, b) ELSE first
         IN FrameEffect(cs[t], Following(second, e)[t], t = f.ticker, gap /\ t \in d.affected, f, e.segment)
<1> DEFINE first == IF gap THEN Following(cs, d) ELSE cs
           second == IF IsSnapshot(f) THEN Following(first, b) ELSE first
           third == Following(second, e)
           c == cs[t]
           x == first[t]
           y == second[t]
           z == third[t]
           ends == gap /\ t \in d.affected
           own == t = f.ticker
<1>0. IsCursor(c) /\ DOMAIN cs = Tickers /\ DOMAIN first = Tickers /\ DOMAIN second = Tickers
  BY FollowingDomain DEF IsCursors
<1>1. IF c.error = None /\ ends THEN Emptied(c, x) ELSE x = c
  <2>1. x = IF c.error = None /\ ends THEN InvalidateCursor(c, d) ELSE c
    BY <1>0, FollowingEnd
  <2>2. Emptied(c, InvalidateCursor(c, d))
    BY <1>0, InvalidateEmpties
  <2> HIDE DEF x, c, ends
  <2> QED BY <2>1, <2>2
<1>2. IsCursor(x)
  BY <1>0, <1>1 DEF Emptied
<1>3. IF x.error = None /\ own /\ IsSnapshot(f) THEN Fails(x, y) \/ Announced(x, y, b) ELSE y = x
  <2>1. y = IF x.error = None /\ own /\ IsSnapshot(f) THEN StartSegment(x, b) ELSE x
    <3> HIDE DEF first
    <3> QED BY <1>0, FollowingBoundary
  <2> HIDE DEF x, y
  <2>2. x.error = None => Fails(x, StartSegment(x, b)) \/ Announced(x, StartSegment(x, b), b)
    BY <1>2, StartCases
  <2> QED BY <2>1, <2>2
<1>4. IsCursor(y)
  BY <1>2, <1>3 DEF Fails, Announced
<1>5. IF y.error = None /\ own THEN Fails(y, z) \/ Applied(y, z, e) ELSE z = y
  <2>1. z = IF y.error = None /\ own THEN ApplyMarketEvent(y, e) ELSE y
    <3> HIDE DEF second
    <3> QED BY <1>0, FollowingEvent
  <2> HIDE DEF y, z
  <2>2. y.error = None => Fails(y, ApplyMarketEvent(y, e)) \/ Applied(y, ApplyMarketEvent(y, e), e)
    BY <1>4, ApplyCases
  <2> QED BY <2>1, <2>2
<1> HIDE DEF first, second, third, c, x, y, z, ends, own
<1>6. IsCursor(z)
  BY <1>4, <1>5 DEF Fails, Applied
<1>7. c.error # None => z = c
  BY <1>1, <1>3, <1>5
<1>8. x.seen = c.seen /\ y.seen = c.seen /\ (z.error # None => z.seen = c.seen)
  BY <1>1, <1>3, <1>5 DEF Emptied, Fails, Announced, Applied
<1>9. ASSUME c.error = None, z.error = None
      PROVE  x.error = None /\ y.error = None
  BY <1>1, <1>3, <1>5, <1>9 DEF Emptied, Fails
<1>10. ASSUME c.error = None, z.error = None, ~own \/ f.type = "trade"
       PROVE  IF ends THEN z.state # "valid" /\ z.seen = c.seen ELSE Trades(c, z)
  <2>1. y = x
    BY <1>3, <1>10 DEF IsSnapshot
  <2>2. z = y \/ Trades(y, z)
    BY <1>5, <1>9, <1>10 DEF Fails, Applied
  <2>3. Trades(x, z)
    BY <2>1, <2>2 DEF Trades
  <2>4. CASE ends
    BY <1>1, <1>10, <2>3, <2>4 DEF Emptied, Trades
  <2>5. CASE ~ends
    BY <1>1, <2>3, <2>5
  <2> QED BY <2>4, <2>5
<1>11. ASSUME c.error = None, z.error = None, own, f.type = "orderbook_snapshot"
       PROVE  Seeds(c, z, e.segment, f.body)
  <2>1. Applied(y, z, e)
    BY <1>5, <1>9, <1>11 DEF Fails
  <2> QED BY <1>8, <1>11, <2>1 DEF Applied, Seeds
<1>12. ASSUME c.error = None, z.error = None, own, f.type = "orderbook_delta"
       PROVE  ~ends /\ Moves(c, z, f.body)
  <2>1. Applied(y, z, e)
    BY <1>5, <1>9, <1>12 DEF Fails
  <2>2. Moves(y, z, f.body) /\ y = x
    BY <1>3, <1>12, <2>1 DEF Applied, IsSnapshot
  <2>3. ~ends
    BY <1>1, <1>12, <2>2 DEF Emptied, Moves
  <2> QED BY <1>1, <2>2, <2>3
<1>13. FrameEffect(c, z, own, ends, f, e.segment)
  BY <1>6, <1>7, <1>8, <1>10, <1>11, <1>12 DEF FrameEffect
<1> QED BY <1>13 DEF c, z, own, ends, third, second, first

-----------------------------------------------------------------------------
(* 8. What the actions that read records do to the normalization and the cursors. *)

\* A frame of the venue.
IsFrame(f) ==
  /\ f.type \in EventTypes /\ f.ticker \in Tickers /\ BodyOK(f.type, f.body) /\ f.stamp \in Nat
  /\ f.sid = (IF f.type = "trade" THEN TradeSid ELSE BookSid) /\ f.seq \in Nat \union {None}

\* What the actions keep of the state's types.
Typed ==
  /\ venue \in [Tickers -> [Levels -> 0..MaxQty]] /\ sent \in Nat
  /\ next \in [Tickers -> Nat] /\ nextTrade \in [Tickers -> Nat]
  /\ up \in BOOLEAN /\ conn \in 0..MaxConns /\ opened \subseteq Tickers
  /\ \A f \in wire : IsFrame(f)
  /\ Tables(n) /\ (Alive => n.ordinal \in Nat)
  /\ IsCursors(cursors)

FrameRecord(f) == Raw("inbound_frame", n.ordinal + 1, f)

\* An accepted frame that follows no gap: its records, and the cursors that follow them.
Writes(f) ==
  LET r == FrameRecord(f)
  IN ~IsGap(n, r) =>
       \E b, e :
         /\ IsSnapshot(f) => b = BoundaryRecord(n, r)
         /\ IsEvent(e, n', r)
         /\ n'.out = (n.out \o IF IsSnapshot(f) THEN <<b>> ELSE <<>>) \o <<e>>
         /\ cursors' = Following(IF IsSnapshot(f) THEN Following(cursors, b) ELSE cursors, e)

\* The three outcomes of delivering f.
Delivers(f) ==
  LET r == FrameRecord(f)
  IN \/ Refused(n, n') /\ cursors' = cursors
     \/ Skips(n, n', r) /\ cursors' = cursors
     \/ /\ Accepts(n, n', r) /\ Writes(f) /\ DOMAIN cursors' = Tickers
        /\ \A t \in Tickers :
             FrameEffect(cursors[t], cursors'[t], t = f.ticker, IsGap(n, r) /\ t \in Affected(n, f), f,
                         n'.segment[f.ticker])

LEMMA FrameReads ==
  ASSUME Typed, Alive, NEW f \in wire, Reads(<<FrameRecord(f)>>)
  PROVE  Delivers(f)
<1> DEFINE r == FrameRecord(f)
           k == n'
           recs == Added(n.out, k.out)
<1>1. r.data = f /\ r.kind = "inbound_frame" /\ r.ordinal = n.ordinal + 1 /\ r.conn = conn /\ r.at = r.ordinal
  BY DEF FrameRecord, Raw
<1>2. k = Read(n, r) /\ cursors' = FollowAll(recs)
  <2>1. k = ReadAll(<<r>>) /\ cursors' = FollowAll(recs)
    BY DEF Reads, Added
  <2> QED BY <2>1, ReadOne
<1>3. IsFrame(f) /\ Tables(n) /\ n.error = None /\ IsCursors(cursors)
  BY DEF Typed, Alive
<1> HIDE DEF r, k
<1>4. Refused(n, k) \/ Skips(n, k, r) \/ Accepts(n, k, r)
  BY <1>1, <1>2, <1>3, ReadFrame DEF IsFrame
<1>5. ASSUME k.out = n.out PROVE cursors' = cursors
  <2>1. recs = <<>>
    BY <1>3, <1>5, NothingAdded DEF Tables
  <2> QED BY <1>2, <2>1, FollowNone
<1>6. CASE Accepts(n, k, r)
  <2>0. PICK d, b, e :
          /\ IsEnd(d, Affected(n, r.data), r) /\ IsBoundary(b, k, r) /\ IsEvent(e, k, r)
          /\ IsSnapshot(r.data) /\ ~IsGap(n, r) => b = BoundaryRecord(n, r)
          /\ k.out = ((n.out \o IF IsGap(n, r) THEN <<d>> ELSE <<>>)
                      \o IF IsSnapshot(r.data) THEN <<b>> ELSE <<>>) \o <<e>>
    BY Zenon, <1>6 DEF Accepts
  <2>1. /\ IsEnd(d, Affected(n, f), r) /\ IsBoundary(b, k, r) /\ IsEvent(e, k, r)
        /\ IsSnapshot(f) /\ ~IsGap(n, r) => b = BoundaryRecord(n, r)
        /\ k.out = ((n.out \o IF IsGap(n, r) THEN <<d>> ELSE <<>>)
                      \o IF IsSnapshot(f) THEN <<b>> ELSE <<>>) \o <<e>>
    BY <1>1, <2>0
  <2> DEFINE P == IF IsGap(n, r) THEN <<d>> ELSE <<>>
             Q == IF IsSnapshot(f) THEN <<b>> ELSE <<>>
  <2>2. recs = (P \o Q) \o <<e>>
    <3>1. PICK S : n.out \in Seq(S)
      BY <1>3 DEF Tables
    <3> DEFINE U == S \union {d, b, e}
    <3>2. n.out \in Seq(U) /\ P \in Seq(U) /\ Q \in Seq(U) /\ <<e>> \in Seq(U)
      <4>1. n.out \in Seq(U)
        BY <3>1, SeqMonotonic
      <4>2. <<>> \in Seq(U) /\ <<d>> \in Seq(U) /\ <<b>> \in Seq(U) /\ <<e>> \in Seq(U)
        OBVIOUS
      <4> HIDE DEF U
      <4> QED BY <4>1, <4>2
    <3> HIDE DEF P, Q, U
    <3>3. k.out = Chained(n.out, P, Q, <<e>>)
      BY <2>1 DEF P, Q, Chained
    <3>4. Added(n.out, Chained(n.out, P, Q, <<e>>)) = Joined(P, Q, <<e>>)
      BY Zenon, <3>2, AddedThree
    <3> QED BY <3>3, <3>4 DEF Joined
  <2> DEFINE gap == IF IsGap(n, r) THEN TRUE ELSE FALSE
             snap == IF IsSnapshot(f) THEN TRUE ELSE FALSE
             first == IF gap THEN Following(cursors, d) ELSE cursors
             second == IF snap THEN Following(first, b) ELSE first
  <2>3. FollowAll(((IF gap THEN <<d>> ELSE <<>>) \o (IF snap THEN <<b>> ELSE <<>>)) \o <<e>>)
          = Following(second, e)
    <3>1. gap \in BOOLEAN /\ snap \in BOOLEAN
      OBVIOUS
    <3> HIDE DEF gap, snap
    <3> QED BY <3>1, FollowThree
  <2>4. cursors' = Following(second, e)
    <3>1. P = (IF gap THEN <<d>> ELSE <<>>) /\ Q = (IF snap THEN <<b>> ELSE <<>>)
      OBVIOUS
    <3> HIDE DEF P, Q, gap, snap, second
    <3> QED BY <1>2, <2>2, <2>3, <3>1
  <2>5. second = IF IsSnapshot(f) THEN Following(first, b) ELSE first
    OBVIOUS
  <2>6. /\ d.kind = "discontinuity" /\ b.kind = "segment_boundary" /\ e.kind = "market_event"
        /\ b.ticker = f.ticker /\ e.ticker = f.ticker /\ e.type = f.type /\ e.body = f.body
        /\ d.affected = Affected(n, f) /\ e.segment = k.segment[f.ticker]
    BY <1>1, <2>1 DEF IsEnd, IsBoundary, IsEvent
  <2>7. gap \in BOOLEAN /\ (gap <=> IsGap(n, r))
    OBVIOUS
  <2> HIDE DEF gap, snap, second
  <2>8. ASSUME NEW t \in Tickers
        PROVE  FrameEffect(cursors[t], cursors'[t], t = f.ticker, IsGap(n, r) /\ t \in Affected(n, f), f,
                           k.segment[f.ticker])
    <3> DEFINE y == IF IsSnapshot(f) THEN Following(first, b) ELSE first
    <3>1. FrameEffect(cursors[t], Following(y, e)[t], t = f.ticker, gap /\ t \in d.affected, f, e.segment)
      <4>1. f.type \in EventTypes /\ BodyOK(f.type, f.body)
        BY <1>3 DEF IsFrame
      <4> QED BY <1>3, <2>6, <2>7, <4>1, FrameOnCursor
    <3>2. (gap /\ t \in d.affected) = (IsGap(n, r) /\ t \in Affected(n, f))
      BY <2>6, <2>7
    <3>3. cursors' = Following(y, e)
      BY Zenon, <2>4, <2>5
    <3> HIDE DEF y, first
    <3> QED BY <2>6, <3>1, <3>2, <3>3
  <2>9. DOMAIN cursors' = Tickers
    BY <2>4, FollowingDomain
  <2>10. ASSUME ~IsGap(n, r)
         PROVE  /\ IsSnapshot(f) => b = BoundaryRecord(n, r)
                /\ IsEvent(e, k, r)
                /\ k.out = (n.out \o IF IsSnapshot(f) THEN <<b>> ELSE <<>>) \o <<e>>
                /\ cursors' = Following(IF IsSnapshot(f) THEN Following(cursors, b) ELSE cursors, e)
    <3>1. first = cursors
      BY <2>7, <2>10
    <3>2. cursors' = Following(IF IsSnapshot(f) THEN Following(cursors, b) ELSE cursors, e)
      <4> HIDE DEF first
      <4> QED BY <2>4, <2>5, <3>1
    <3>3. n.out \o (IF IsGap(n, r) THEN <<d>> ELSE <<>>) = n.out
      BY <1>3, <2>10, ConcatEmptySeq DEF Tables
    <3> HIDE DEF first
    <3> QED BY <2>1, <2>10, <3>2, <3>3
  <2>11. Writes(f)
    <3> HIDE DEF first, P, Q
    <3> QED BY <2>10 DEF Writes, r, k
  <2> QED BY <1>6, <2>8, <2>9, <2>11 DEF Delivers, r, k
<1>7. CASE Refused(n, k) \/ Skips(n, k, r)
  <2>1. k.out = n.out
    BY <1>7 DEF Refused, Skips
  <2>2. cursors' = cursors
    BY Zenon, <1>5, <2>1
  <2> QED BY <1>7, <2>2 DEF Delivers, r, k
<1> QED BY <1>4, <1>6, <1>7

\* k comes of m by reading records of subscriptions.
Bound(m, k) ==
  /\ Tables(k) /\ k.out = m.out
  /\ k.error = None =>
       /\ k.ordinal \in Nat /\ k.policy = m.policy /\ k.topology = m.topology /\ k.ids = m.ids
       /\ k.previous = m.previous /\ k.payloads = m.payloads /\ k.reasons = m.reasons
       /\ k.discontinuous = m.discontinuous /\ k.segment = m.segment /\ k.valid = m.valid
       /\ k.snapshots = m.snapshots /\ k.awaiting = m.awaiting /\ k.time = m.time
       /\ m.ordinal \in Nat /\ m.ordinal <= k.ordinal
  /\ k.error # None => k.error # "complete_observed_interval"

LEMMA BoundRead ==
  ASSUME NEW m, NEW k, Bound(m, k), NEW r, r.ordinal \in Nat,
         r.kind \in {"subscription_sent", "subscription_acknowledged"}
  PROVE  Bound(m, Read(k, r))
<1>1. CASE k.error # None
  <2>1. Read(k, r) = k
    BY <1>1 DEF Read
  <2> QED BY <2>1
<1>2. CASE k.error = None
  <2>1. Refused(k, Read(k, r)) \/ Binds(k, Read(k, r), r)
    BY <1>2, ReadBinds DEF Bound
  <2> DEFINE l == Read(k, r)
  <2> HIDE DEF l
  <2>2. Refused(k, l) \/ Binds(k, l, r)
    BY <2>1 DEF l
  <2>3. Bound(m, l)
    BY <1>2, <2>2 DEF Bound, Refused, Binds, Continues
  <2> QED BY <2>3 DEF l
<1> QED BY <1>1, <1>2

LEMMA BindReads ==
  ASSUME Typed, Alive, NEW a, NEW b, NEW c,
         a.kind = "subscription_sent" /\ a.ordinal \in Nat,
         b.kind = "subscription_acknowledged" /\ b.ordinal \in Nat,
         c.kind = "subscription_acknowledged" /\ c.ordinal \in Nat,
         Reads(<<a, b, c>>)
  PROVE  Bound(n, n') /\ cursors' = cursors
<1>1. Tables(n) /\ n.error = None /\ n.ordinal \in Nat
  BY DEF Typed, Alive
<1>2. Bound(n, n)
  BY <1>1 DEF Bound
<1> DEFINE x == Read(n, a)
           y == Read(x, b)
           z == Read(y, c)
<1>3. Bound(n, x)
  BY <1>2, BoundRead
<1> HIDE DEF x
<1>4. Bound(n, y)
  BY <1>3, BoundRead
<1> HIDE DEF y
<1>5. Bound(n, z)
  BY <1>4, BoundRead
<1> HIDE DEF z
<1>6. n' = z /\ cursors' = FollowAll(Added(n.out, z.out))
  <2>1. n' = ReadAll(<<a, b, c>>) /\ cursors' = FollowAll(Added(n.out, n'.out))
    BY DEF Reads, Added
  <2>2. ReadAll(<<a, b, c>>) = z
    BY ReadThree DEF x, y, z
  <2> QED BY <2>1, <2>2
<1>7. z.out = n.out
  BY <1>5 DEF Bound
<1>8. Added(n.out, n.out) = <<>>
  BY <1>1, NothingAdded DEF Tables
<1> QED BY <1>5, <1>6, <1>7, <1>8, FollowNone

\* A gap of the connection empties every cursor that has not raised.
Ends ==
  /\ EndsAll(n, n', Raw("connection_gap", n.ordinal + 1, None))
  /\ DOMAIN cursors' = Tickers
  /\ \A t \in Tickers : IF cursors[t].error = None THEN Emptied(cursors[t], cursors'[t])
                        ELSE cursors'[t] = cursors[t]

LEMMA EndReads ==
  ASSUME Typed, Alive, Reads(<<Raw("connection_gap", n.ordinal + 1, None)>>)
  PROVE  Ends
<1> DEFINE r == Raw("connection_gap", n.ordinal + 1, None)
           k == n'
<1>1. r.kind = "connection_gap" /\ r.ordinal = n.ordinal + 1
  BY DEF Raw
<1>2. k = Read(n, r) /\ cursors' = FollowAll(Added(n.out, k.out))
  <2>1. k = ReadAll(<<r>>) /\ cursors' = FollowAll(Added(n.out, k.out))
    BY DEF Reads, Added
  <2> QED BY <2>1, ReadOne
<1>3. Tables(n) /\ n.error = None /\ IsCursors(cursors)
  BY DEF Typed, Alive
<1> HIDE DEF r, k
<1>4. EndsAll(n, k, r)
  BY <1>1, <1>2, <1>3, ReadEndsAll
<1>5. PICK S, controls :
       /\ controls \in Seq(S) /\ n.out \in Seq(S) /\ k.out = n.out \o controls
       /\ \A i \in 1..Len(controls) : \E t \in Tickers : IsEnd(controls[i], {t}, r)
       /\ \A t \in Tickers : \E i \in 1..Len(controls) : IsEnd(controls[i], {t}, r)
  BY <1>4 DEF EndsAll
<1>6. cursors' = FollowAll(controls)
  <2>1. Added(n.out, n.out \o controls) = controls
    BY <1>5, ConcatAdded
  <2> QED BY <1>2, <1>5, <2>1
<1> DEFINE m == Len(controls)
<1>7. m \in Nat
  BY <1>5
<1>8. PICK h : /\ FollowAll(controls) = h[m]
               /\ h[0] = cursors /\ \A i \in 1..m : h[i] = Following(h[i - 1], controls[i])
  BY <1>7, FollowSteps
<1> HIDE DEF m
<1> DEFINE Sound(i, t) ==
             /\ IF cursors[t].error # None THEN h[i][t] = cursors[t]
                ELSE /\ IsCursor(h[i][t]) /\ h[i][t].error = None /\ h[i][t].seen = cursors[t].seen
                     /\ (\E j \in 1..i : IsEnd(controls[j], {t}, r)) => h[i][t].state # "valid"
           G == {i \in 0..m : DOMAIN h[i] = Tickers /\ \A t \in Tickers : Sound(i, t)}
<1>9. 0 \in G
  <2>1. \A t \in Tickers : Sound(0, t)
    BY <1>3, <1>8 DEF IsCursors
  <2> QED BY <1>3, <1>7, <1>8, <2>1 DEF IsCursors
<1>10. ASSUME NEW i \in 0..(m - 1), i \in G PROVE i + 1 \in G
  <2>1. i + 1 \in 1..m /\ i + 1 \in 0..m /\ (i + 1) - 1 = i /\ i \in Nat
    BY <1>7
  <2> DEFINE d == controls[i + 1]
  <2>2. PICK u \in Tickers : IsEnd(d, {u}, r)
    BY <1>5, <2>1 DEF m
  <2>3. h[i + 1] = Following(h[i], d) /\ DOMAIN h[i] = Tickers
    BY <1>8, <1>10, <2>1
  <2>4. ASSUME NEW t \in Tickers PROVE Sound(i + 1, t)
    <3> DEFINE x == h[i][t]
               y == h[i + 1][t]
    <3>1. y = IF x.error = None /\ t = u THEN InvalidateCursor(x, d) ELSE x
      BY <2>2, <2>3, FollowingEnd DEF IsEnd
    <3>2. Sound(i, t)
      BY <1>10
    <3>3. CASE cursors[t].error # None
      BY <3>1, <3>2, <3>3
    <3>4. CASE cursors[t].error = None
      <4>1. Emptied(x, InvalidateCursor(x, d))
        BY <3>2, <3>4, InvalidateEmpties
      <4>2. (\E j \in 1..(i + 1) : IsEnd(controls[j], {t}, r)) => t = u \/ \E j \in 1..i : IsEnd(controls[j], {t}, r)
        <5> SUFFICES ASSUME NEW j \in 1..(i + 1), IsEnd(controls[j], {t}, r), t # u PROVE j \in 1..i
          OBVIOUS
        <5>1. j # i + 1
          BY <2>2 DEF IsEnd
        <5> QED BY <2>1, <5>1
      <4>3. IsCursor(y) /\ y.error = None /\ y.seen = cursors[t].seen
        BY <3>1, <3>2, <3>4, <4>1 DEF Emptied
      <4>4. t = u => y.state # "valid"
        BY <3>1, <3>2, <3>4, <4>1 DEF Emptied
      <4>5. t # u => y = x
        BY <3>1
      <4> QED BY <3>2, <3>4, <4>2, <4>3, <4>4, <4>5
    <3> QED BY <3>3, <3>4
  <2>5. DOMAIN h[i + 1] = Tickers
    BY <2>3, FollowingDomain
  <2> HIDE DEF Sound
  <2> QED BY <2>1, <2>4, <2>5
<1>11. m \in G
  <2> HIDE DEF G
  <2>1. \A i \in 0..m : i \in G
    BY <1>7, <1>9, <1>10, Climb
  <2> QED BY <1>7, <2>1
<1>12. DOMAIN cursors' = Tickers /\ cursors' = h[m]
  BY <1>6, <1>8, <1>11
<1>13. ASSUME NEW t \in Tickers
       PROVE  IF cursors[t].error = None THEN Emptied(cursors[t], cursors'[t]) ELSE cursors'[t] = cursors[t]
  <2>1. Sound(m, t) /\ \E i \in 1..m : IsEnd(controls[i], {t}, r)
    BY <1>5, <1>11 DEF m
  <2> QED BY <1>12, <2>1 DEF Emptied
<1> QED BY <1>4, <1>12, <1>13 DEF Ends, r, k

-----------------------------------------------------------------------------
(* 9. The types are kept. *)

LEMMA DeliverTyped ==
  ASSUME Typed, Alive, NEW f \in wire, Delivers(f)
  PROVE  Tables(n') /\ (Alive' => n'.ordinal \in Nat) /\ IsCursors(cursors')
<1> DEFINE r == FrameRecord(f)
<1>1. r.ordinal = n.ordinal + 1 /\ n.ordinal \in Nat /\ Tables(n) /\ IsCursors(cursors)
  BY DEF FrameRecord, Raw, Typed
<1> HIDE DEF r
<1>2. CASE Refused(n, n') /\ cursors' = cursors
  BY <1>1, <1>2 DEF Refused, Alive
<1>3. CASE Skips(n, n', r) /\ cursors' = cursors
  BY <1>1, <1>3 DEF Skips, Continues
<1>4. CASE /\ Accepts(n, n', r) /\ DOMAIN cursors' = Tickers
           /\ \A t \in Tickers :
                FrameEffect(cursors[t], cursors'[t], t = f.ticker, IsGap(n, r) /\ t \in Affected(n, f), f,
                            n'.segment[f.ticker])
  BY <1>1, <1>4 DEF Accepts, Continues, FrameEffect, IsCursors
<1> QED BY <1>2, <1>3, <1>4 DEF Delivers, r

LEMMA InitTyped == Init => Typed
<1> SUFFICES ASSUME Init PROVE Typed
  OBVIOUS
<1>1. PICK policy \in Policies, topology \in Declared : n = Start(policy, topology)
  BY DEF Init
<1>2. Tables(n) /\ n.ordinal \in Nat
  <2>1. <<>> \in Seq({})
    OBVIOUS
  <2> QED BY <1>1, <2>1 DEF Start, Tables, IsNorm, Awaited
<1>3. \A t \in Tickers : IsCursor(cursors[t])
  <2>1. EmptyBook \in [Levels -> Nat] /\ IsFiniteSet({})
    BY FS_EmptySet DEF EmptyBook
  <2> QED BY <2>1 DEF Init, IsCursor, CursorFields, NewCursor, NewProjection
<1>4. /\ venue \in [Tickers -> [Levels -> 0..MaxQty]] /\ sent \in Nat
      /\ next \in [Tickers -> Nat] /\ nextTrade \in [Tickers -> Nat]
      /\ up \in BOOLEAN /\ conn \in 0..MaxConns /\ opened \subseteq Tickers /\ wire = {}
  <2>1. MaxConns \in Nat /\ MaxQty \in Nat
    BY ReplayAssumption
  <2>2. EmptyBook \in [Levels -> 0..MaxQty]
    BY <2>1 DEF EmptyBook
  <2>3. venue \in [Tickers -> [Levels -> 0..MaxQty]]
    BY <2>2 DEF Init
  <2>4. /\ next \in [Tickers -> Nat] /\ nextTrade \in [Tickers -> Nat]
        /\ sent \in Nat /\ up \in BOOLEAN /\ opened \subseteq Tickers /\ wire = {}
    BY DEF Init
  <2>5. conn \in 0..MaxConns
    BY <2>1 DEF Init
  <2> QED BY <2>3, <2>4, <2>5
<1>5. DOMAIN cursors = Tickers
  BY DEF Init
<1> QED BY <1>2, <1>3, <1>4, <1>5 DEF Typed, IsCursors

\* The frames that are sent.
NewFrame(t, type, body, book, unsequenced, ts) ==
  [type |-> type, sid |-> BookSid, seq |-> IF unsequenced THEN None ELSE next[t], ticker |-> t,
   market |-> Market(t), ts |-> ts, body |-> body, stamp |-> sent + 1, book |-> book]

LEMMA SendTyped ==
  ASSUME Typed, NEW t \in Tickers, NEW type \in {"orderbook_snapshot", "orderbook_delta"}, NEW body,
         BodyOK(type, body), NEW book, NEW unsequenced \in BOOLEAN, Send(t, type, body, book, unsequenced)
  PROVE  /\ next' \in [Tickers -> Nat] /\ sent' \in Nat
         /\ \A f \in wire' : f \in wire \/ \E ts \in Stamps : f = NewFrame(t, type, body, book, unsequenced, ts)
         /\ \A f \in wire' : IsFrame(f)
<1>1. next' \in [Tickers -> Nat] /\ sent' \in Nat
  BY DEF Typed, Send, NextNumbers
<1>2. \A f \in wire' : f \in wire \/ \E ts \in Stamps : f = NewFrame(t, type, body, book, unsequenced, ts)
  BY DEF Send, NewFrame
<1>3. ASSUME NEW ts PROVE IsFrame(NewFrame(t, type, body, book, unsequenced, ts))
  BY DEF IsFrame, NewFrame, Typed, EventTypes
<1> QED BY <1>1, <1>2, <1>3 DEF Typed

LEMMA VenueBodies ==
  ASSUME Typed, NEW t \in Tickers
  PROVE  /\ BodyOK("orderbook_snapshot", Body(venue[t], None, None, None))
         /\ \A l \in Levels, change \in {-1, 1} : BodyOK("orderbook_delta", Body(None, l, change, None))
<1>1. venue[t] \in [Levels -> Nat]
  BY ReplayAssumption DEF Typed
<1> QED BY <1>1 DEF BodyOK, Body

NewTrade(t, numbered) ==
  [type |-> "trade", sid |-> TradeSid, seq |-> IF numbered THEN nextTrade[t] ELSE None, ticker |-> t,
   market |-> None, ts |-> None, body |-> Body(None, None, None, 1), stamp |-> sent + 1, book |-> EmptyBook]

LEMMA TradeSent ==
  ASSUME NEW t \in Tickers, SendTrade(t)
  PROVE  \E numbered \in BOOLEAN :
           /\ nextTrade' = IF numbered THEN NextNumbers(nextTrade, t) ELSE nextTrade
           /\ wire' = wire \union {NewTrade(t, numbered)}
BY DEF SendTrade, NewTrade

\* What Connect does to the normalization.
LEMMA ConnectBinds ==
  ASSUME Typed, Connect
  PROVE  Bound(n, n') /\ cursors' = cursors
<1> DEFINE raw(i, kind, data) == [Raw(kind, n.ordinal + i, data) EXCEPT !.conn = conn + 1]
           a == raw(1, "subscription_sent", None)
           b == raw(2, "subscription_acknowledged", [channel |-> "orderbook_delta", sid |-> BookSid])
           c == raw(3, "subscription_acknowledged", [channel |-> "trade", sid |-> TradeSid])
<1>1. Alive /\ n.ordinal \in Nat
  BY DEF Connect, Typed
<1>2. /\ a.kind = "subscription_sent" /\ a.ordinal \in Nat
      /\ b.kind = "subscription_acknowledged" /\ b.ordinal \in Nat
      /\ c.kind = "subscription_acknowledged" /\ c.ordinal \in Nat
  BY <1>1 DEF Raw
<1>3. Reads(<<a, b, c>>)
  BY DEF Connect
<1> HIDE DEF a, b, c
<1> QED BY <1>1, <1>2, <1>3, BindReads

LEMMA TypedSteps ==
  ASSUME Typed, [Next]_vars
  PROVE  Typed'
<1>0. MaxConns \in Nat /\ MaxQty \in Nat
  BY ReplayAssumption
<1>1. ASSUME Connect PROVE Typed'
  <2>4. Bound(n, n') /\ cursors' = cursors
    BY <1>1, ConnectBinds
  <2>5. Tables(n') /\ (Alive' => n'.ordinal \in Nat) /\ IsCursors(cursors')
    BY <2>4 DEF Bound, Alive, Typed
  <2>6. /\ up' = TRUE /\ conn' = conn + 1 /\ conn < MaxConns
        /\ next' = [t \in Tickers |-> 1] /\ nextTrade' = [t \in Tickers |-> 1]
        /\ opened' = {} /\ wire' = {} /\ venue' = venue /\ sent' = sent
    BY <1>1 DEF Connect
  <2> QED BY <1>0, <2>5, <2>6 DEF Typed
<1>2. ASSUME Disconnect PROVE Typed'
  <2>1. Ends /\ n.ordinal \in Nat
    BY <1>2, EndReads DEF Disconnect, Typed
  <2>2. Tables(n') /\ (Alive' => n'.ordinal \in Nat) /\ IsCursors(cursors')
    <3>1. n'.ordinal = n.ordinal + 1 /\ Tables(n')
      BY <2>1 DEF Ends, EndsAll, Continues, Raw
    <3>2. IsCursors(cursors')
      BY <2>1 DEF Ends, Emptied, IsCursors, Typed
    <3> QED BY <2>1, <3>1, <3>2
  <2> QED BY <1>2, <2>2 DEF Disconnect, Typed, venueVars
<1>3. ASSUME NEW t \in Tickers, SendSnapshot(t) PROVE Typed'
  <2>1. PICK unsequenced \in BOOLEAN :
          Send(t, "orderbook_snapshot", Body(venue[t], None, None, None), venue[t], unsequenced)
    BY <1>3 DEF SendSnapshot
  <2>2. next' \in [Tickers -> Nat] /\ sent' \in Nat /\ \A f \in wire' : IsFrame(f)
    BY <2>1, SendTyped, VenueBodies
  <2>3. UNCHANGED <<venue, numbering, conn, up, nextTrade, n, cursors, newest>> /\ opened' = opened \union {t}
    BY <1>3 DEF SendSnapshot
  <2> QED BY <2>2, <2>3 DEF Typed, Alive
<1>4. ASSUME NEW t \in Tickers, SendDelta(t) PROVE Typed'
  <2> DEFINE after(l, change) == [venue[t] EXCEPT ![l] = @ + change]
  <2>1. PICK l \in Levels, change \in {-1, 1}, unsequenced \in BOOLEAN :
          /\ after(l, change)[l] \in 0..MaxQty /\ venue' = [venue EXCEPT ![t] = after(l, change)]
          /\ Send(t, "orderbook_delta", Body(None, l, change, None), after(l, change), unsequenced)
    BY <1>4 DEF SendDelta
  <2>2. next' \in [Tickers -> Nat] /\ sent' \in Nat /\ \A f \in wire' : IsFrame(f)
    <3> HIDE DEF after
    <3>1. BodyOK("orderbook_delta", Body(None, l, change, None))
      BY VenueBodies
    <3> QED BY <2>1, <3>1, SendTyped
  <2>3. venue' \in [Tickers -> [Levels -> 0..MaxQty]]
    BY <2>1 DEF Typed
  <2>4. UNCHANGED <<numbering, conn, up, nextTrade, opened, n, cursors, newest>>
    BY <1>4 DEF SendDelta
  <2> QED BY <2>2, <2>3, <2>4 DEF Typed, Alive
<1>5. ASSUME NEW t \in Tickers, SendTrade(t) PROVE Typed'
  <2>1. \A f \in wire' : f \in wire \/ \E numbered \in BOOLEAN : f = NewTrade(t, numbered)
    BY <1>5, TradeSent DEF NewTrade
  <2>2. \A f \in wire' : IsFrame(f)
    BY <2>1 DEF Typed, IsFrame, BodyOK, EventTypes, NewTrade
  <2>3. nextTrade' \in [Tickers -> Nat] /\ sent' = sent + 1
    BY <1>5 DEF SendTrade, NextNumbers, Typed
  <2> QED BY <1>5, <2>2, <2>3 DEF SendTrade, Typed, Alive
<1>6. ASSUME NEW f \in wire, Lose(f) PROVE Typed'
  BY <1>6 DEF Lose, venueVars, Typed, Alive
<1>7. ASSUME NEW f \in wire, NEW again \in BOOLEAN, Deliver(f, again) PROVE Typed'
  <2>1. Alive /\ Delivers(f)
    BY <1>7, FrameReads DEF Deliver, FrameRecord
  <2>2. Tables(n') /\ (Alive' => n'.ordinal \in Nat) /\ IsCursors(cursors')
    BY <2>1, DeliverTyped
  <2>3. wire' \subseteq wire /\ UNCHANGED <<venueVars, conn, up>>
    BY <1>7 DEF Deliver
  <2> QED BY <2>2, <2>3 DEF venueVars, Typed
<1>8. ASSUME UNCHANGED vars PROVE Typed'
  BY <1>8 DEF vars, Typed, Alive
<1> QED BY <1>1, <1>2, <1>3, <1>4, <1>5, <1>6, <1>7, <1>8 DEF Next

\* The variables keep their types, a cursor has a segment it has not seen.
THEOREM ReplayTyped == Spec => []Typed
<1>1. Init => Typed
  BY InitTyped
<1>2. Typed /\ [Next]_vars => Typed'
  BY TypedSteps
<1> QED BY <1>1, <1>2, PTL DEF Spec

-----------------------------------------------------------------------------
(* 10. The cursors implement SegmentedBooks. *)

Shows(c) == IF c.error = None /\ c.state = "valid" THEN c.projection.book ELSE None
Count(c) == Cardinality(c.seen)

Hid(c, d) == Shows(d) = None /\ Count(d) = Count(c)
Kept(c, d) == Shows(d) = Shows(c) /\ Count(d) = Count(c)
Opened(c, d) == Count(d) = Count(c) + 1 /\ Shows(d) \in [Levels -> Nat]
Moved(c, d) ==
  /\ Shows(c) # None /\ Count(d) = Count(c) /\ Shows(d) \in [Levels -> Nat]
  /\ \E l \in Levels : Shows(d) = [Shows(c) EXCEPT ![l] = Shows(d)[l]]

LEMMA FrameShows ==
  ASSUME NEW c, NEW d, NEW own, NEW ends, NEW f, NEW segment, IsCursor(c),
         f.type \in EventTypes, BodyOK(f.type, f.body), FrameEffect(c, d, own, ends, f, segment)
  PROVE  Hid(c, d) \/ Kept(c, d) \/ (own /\ (Opened(c, d) \/ Moved(c, d)))
<1>0. IsCursor(d)
  BY DEF FrameEffect
<1>1. CASE c.error # None
  BY <1>1 DEF FrameEffect, Kept
<1>2. CASE d.error # None
  BY <1>2 DEF FrameEffect, Hid, Shows, Count
<1>3. CASE c.error = None /\ d.error = None /\ (~own \/ f.type = "trade")
  <2>1. IF ends THEN d.state # "valid" /\ d.seen = c.seen ELSE Trades(c, d)
    BY <1>3 DEF FrameEffect
  <2>2. CASE ends
    BY <2>1, <2>2 DEF Hid, Shows, Count
  <2>3. CASE ~ends
    BY <1>3, <2>1, <2>3 DEF Trades, Kept, Shows, Count
  <2> QED BY <2>2, <2>3
<1>4. CASE c.error = None /\ d.error = None /\ own /\ f.type = "orderbook_snapshot"
  <2>1. Seeds(c, d, segment, f.body) /\ f.body.book \in [Levels -> Nat]
    BY <1>4 DEF FrameEffect, BodyOK
  <2>2. Count(d) = Count(c) + 1
    BY <2>1, FS_AddElement DEF Seeds, Count, IsCursor
  <2> QED BY <1>4, <2>1, <2>2 DEF Opened, Shows, Seeds
<1>5. CASE c.error = None /\ d.error = None /\ own /\ f.type = "orderbook_delta"
  <2>1. Moves(c, d, f.body) /\ f.body.level \in Levels
    BY <1>5 DEF FrameEffect, BodyOK
  <2>2. Shows(c) = c.projection.book /\ Shows(d) = d.projection.book /\ Count(d) = Count(c)
    BY <1>5, <2>1 DEF Moves, Shows, Count
  <2>3. Shows(c) \in [Levels -> Nat] /\ Shows(d) \in [Levels -> Nat] /\ None \notin [Levels -> Nat]
    BY <1>0, <2>2, ReplayAssumption DEF IsCursor
  <2>4. Shows(d) = [Shows(c) EXCEPT ![f.body.level] = Shows(d)[f.body.level]]
    BY <2>1, <2>2, <2>3 DEF Moves
  <2> QED BY <1>5, <2>1, <2>2, <2>3, <2>4 DEF Moved
<1> QED BY <1>1, <1>2, <1>3, <1>4, <1>5 DEF EventTypes

\* One record's effects, ticker by ticker: t's own book may open or move.
LEMMA CursorsPromise ==
  ASSUME Typed, IsCursors(cursors'), NEW u \in Tickers,
         \A t \in Tickers : \/ Hid(cursors[t], cursors'[t]) \/ Kept(cursors[t], cursors'[t])
                            \/ (t = u /\ (Opened(cursors[t], cursors'[t]) \/ Moved(cursors[t], cursors'[t])))
  PROVE  Promise!Next
<1> DEFINE book == [t \in Tickers |-> IF Shown(t) THEN cursors[t].projection.book ELSE None]
           segment == [t \in Tickers |-> Cardinality(cursors[t].seen)]
<1>1. \A t \in Tickers : /\ book[t] = Shows(cursors[t]) /\ (book[t])' = Shows(cursors'[t])
                         /\ segment[t] = Count(cursors[t]) /\ (segment[t])' = Count(cursors'[t])
  BY DEF Shown, Shows, Count
<1>2. \A t \in Tickers : Count(cursors[t]) \in Nat
  BY FS_CardinalityType DEF Typed, IsCursors, IsCursor, Count
<1>3. \A t \in Tickers : /\ Promise!Hidden(t) <=> Hid(cursors[t], cursors'[t])
                         /\ Promise!Kept(t) <=> Kept(cursors[t], cursors'[t])
                         /\ Promise!Opened(t) <=> Opened(cursors[t], cursors'[t])
                         /\ Promise!Moved(t) <=> Moved(cursors[t], cursors'[t])
  <2> TAKE t \in Tickers
  <2>1. /\ Promise!Hidden(t) <=> (book[t])' = None /\ (segment[t])' = segment[t]
        /\ Promise!Kept(t) <=> (book[t])' = book[t] /\ (segment[t])' = segment[t]
        /\ Promise!Opened(t) <=> (segment[t])' = segment[t] + 1 /\ (book[t])' \in [Levels -> Nat]
    BY Zenon DEF Promise!Hidden, Promise!Kept, Promise!Opened
  <2>2. Promise!Moved(t) <=> /\ book[t] # None /\ (segment[t])' = segment[t] /\ (book[t])' \in [Levels -> Nat]
                             /\ \E l \in Levels : (book[t])' = [book[t] EXCEPT ![l] = (book[t])'[l]]
    BY Zenon DEF Promise!Moved
  <2>3. /\ book[t] = Shows(cursors[t]) /\ (book[t])' = Shows(cursors'[t])
        /\ segment[t] = Count(cursors[t]) /\ (segment[t])' = Count(cursors'[t])
    BY <1>1
  <2> HIDE DEF book, segment
  <2>4. Promise!Moved(t) <=> Moved(cursors[t], cursors'[t])
    BY <2>2, <2>3 DEF Moved
  <2> QED BY <2>1, <2>3, <2>4 DEF Hid, Kept, Opened
<1>4. DOMAIN book' = Tickers /\ DOMAIN segment' = Tickers
  OBVIOUS
<1>5. \A t \in Tickers : Promise!Hidden(t) \/ Promise!Opened(t) \/ Promise!Moved(t) \/ Promise!Kept(t)
  BY <1>3
<1>6. ASSUME NEW t \in Tickers, Promise!Opened(t) \/ Promise!Moved(t), ~Promise!Kept(t) PROVE t = u
  <2>1. Hid(cursors[t], cursors'[t]) => ~Opened(cursors[t], cursors'[t]) /\ ~Moved(cursors[t], cursors'[t])
    BY <1>2, ReplayAssumption DEF Hid, Opened, Moved
  <2> QED BY <1>3, <1>6, <2>1
<1> QED BY <1>4, <1>5, <1>6 DEF Promise!Next

LEMMA PromiseSteps ==
  ASSUME Typed, Typed', [Next]_vars
  PROVE  Promise!Next \/ cursors' = cursors
<1>1. ASSUME Disconnect PROVE Promise!Next \/ cursors' = cursors
  <2>1. Ends
    BY <1>1, EndReads DEF Disconnect
  <2>2. \A t \in Tickers : Hid(cursors[t], cursors'[t]) \/ Kept(cursors[t], cursors'[t])
    BY <2>1 DEF Ends, Emptied, Hid, Kept, Shows, Count
  <2>3. CASE Tickers = {}
    <3>1. DOMAIN cursors = Tickers /\ DOMAIN cursors' = Tickers
      BY DEF Typed, IsCursors
    <3> QED BY <2>1, <2>3, <3>1 DEF Ends
  <2>4. CASE Tickers # {}
    BY <2>2, <2>4, CursorsPromise DEF Typed
  <2> QED BY <2>3, <2>4
<1>2. ASSUME NEW f \in wire, NEW again \in BOOLEAN, Deliver(f, again) PROVE Promise!Next \/ cursors' = cursors
  <2>1. Alive /\ Delivers(f)
    BY <1>2, FrameReads DEF Deliver, FrameRecord
  <2>2. IsFrame(f)
    BY DEF Typed
  <2>3. ASSUME cursors' # cursors
        PROVE  \A t \in Tickers : \/ Hid(cursors[t], cursors'[t]) \/ Kept(cursors[t], cursors'[t])
                 \/ (t = f.ticker /\ (Opened(cursors[t], cursors'[t]) \/ Moved(cursors[t], cursors'[t])))
    BY <2>1, <2>2, <2>3, FrameShows DEF Delivers, IsFrame, Typed, IsCursors
  <2>4. f.ticker \in Tickers
    BY <2>2 DEF IsFrame
  <2> QED BY <2>3, <2>4, CursorsPromise DEF Typed
<1>3. ASSUME Connect PROVE cursors' = cursors
  BY <1>3, ConnectBinds
<1>4. ASSUME NEW t \in Tickers, SendSnapshot(t) \/ SendDelta(t) \/ SendTrade(t) PROVE cursors' = cursors
  BY <1>4 DEF SendSnapshot, SendDelta, SendTrade
<1>5. ASSUME NEW f \in wire, Lose(f) PROVE cursors' = cursors
  BY <1>5 DEF Lose
<1>6. ASSUME UNCHANGED vars PROVE cursors' = cursors
  BY <1>6 DEF vars
<1> QED BY <1>1, <1>2, <1>3, <1>4, <1>5, <1>6 DEF Next

\* NeverCrossesASegment: whatever the network does to the frames and the venue
\* to its numbers, a shown book moves one level at a time inside its segment, a
\* hidden one comes back only with the snapshot of a new segment, and a record
\* opens or moves one ticker's book.
THEOREM CursorsNeverCrossASegment == Spec => NeverCrossesASegment
<1> DEFINE book == [t \in Tickers |-> IF Shown(t) THEN cursors[t].projection.book ELSE None]
           segment == [t \in Tickers |-> Cardinality(cursors[t].seen)]
<1>1. Init => Promise!Init
  <2> SUFFICES ASSUME Init PROVE Promise!Init
    OBVIOUS
  <2>1. \A t \in Tickers : cursors[t] = NewCursor(t, Market(t))
    BY DEF Init
  <2>2. \A t \in Tickers : ~Shown(t) /\ Cardinality(cursors[t].seen) = 0
    <3> TAKE t \in Tickers
    <3>1. cursors[t].state = "awaiting_initial_snapshot" /\ cursors[t].seen = {}
      <4>1. \A u, m : NewCursor(u, m).state = "awaiting_initial_snapshot" /\ NewCursor(u, m).seen = {}
        BY DEF NewCursor
      <4> QED BY <2>1, <4>1
    <3> QED BY <3>1, FS_EmptySet DEF Shown
  <2> QED BY <2>2 DEF Promise!Init
<1>2. Typed /\ Typed' /\ [Next]_vars => [Promise!Next]_<<book, segment>>
  <2> SUFFICES ASSUME Typed, Typed', [Next]_vars PROVE [Promise!Next]_<<book, segment>>
    OBVIOUS
  <2>1. Promise!Next \/ cursors' = cursors
    BY PromiseSteps
  <2>2. cursors' = cursors => UNCHANGED <<book, segment>>
    BY DEF Shown
  <2> QED BY <2>1, <2>2
<1> QED BY <1>1, <1>2, ReplayTyped, PTL DEF Spec, NeverCrossesASegment, Promise!Spec

-----------------------------------------------------------------------------
(* 11. The cursors and the normalizer agree. *)

Agree ==
  \A t \in Tickers :
    cursors[t].error = None =>
      /\ cursors[t].state = "valid" <=> n.valid[t] /\ ~Gapped(n.out, t)
      /\ cursors[t].state = "valid" => cursors[t].segment = n.segment[t]

\* A gap counts until the ticker's next segment opens.
LEMMA GappedAppend ==
  ASSUME NEW S, NEW out \in Seq(S), NEW rec, NEW t
  PROVE  Gapped(out \o <<rec>>, t) <=>
           /\ ~(rec.kind = "segment_boundary" /\ rec.ticker = t)
           /\ Gapped(out, t) \/ (rec.kind = "discontinuity" /\ t \in rec.affected)
<1> DEFINE all == out \o <<rec>>
           m == Len(out)
           Closes(i, r) == r[i].kind = "discontinuity" /\ t \in r[i].affected
           Opens(j, r) == r[j].kind = "segment_boundary" /\ r[j].ticker = t
<1>1. /\ m \in Nat /\ DOMAIN out = 1..m /\ DOMAIN all = 1..(m + 1)
      /\ \A i \in 1..m : all[i] = out[i] /\ all[m + 1] = rec
  OBVIOUS
<1> HIDE DEF m, all
<1>2. all[m + 1] = rec
  <2>1. (out \o <<rec>>)[Len(out) + 1] = rec
    OBVIOUS
  <2> QED BY <2>1 DEF all, m
<1>3. ASSUME Gapped(all, t)
      PROVE  ~Opens(m + 1, all) /\ (Gapped(out, t) \/ Closes(m + 1, all))
  <2>1. PICK i \in 1..(m + 1) : Closes(i, all) /\ \A j \in 1..(m + 1) : j > i => ~Opens(j, all)
    BY <1>1, <1>3 DEF Gapped
  <2>2. CASE i = m + 1
    BY <2>1, <2>2
  <2>3. CASE i # m + 1
    <3>1. i \in 1..m /\ m + 1 > i /\ m + 1 \in 1..(m + 1)
      BY <1>1, <2>3
    <3>2. ~Opens(m + 1, all)
      BY <2>1, <3>1
    <3>3. Closes(i, out) /\ \A j \in 1..m : j > i => ~Opens(j, out)
      BY <1>1, <2>1, <3>1
    <3>4. Gapped(out, t)
      BY <1>1, <3>1, <3>3 DEF Gapped
    <3> QED BY <3>2, <3>4
  <2> QED BY <2>2, <2>3
<1>4. ASSUME ~Opens(m + 1, all), Gapped(out, t) PROVE Gapped(all, t)
  <2>1. PICK i \in 1..m : Closes(i, out) /\ \A j \in 1..m : j > i => ~Opens(j, out)
    BY <1>1, <1>4 DEF Gapped
  <2>2. i \in 1..(m + 1) /\ Closes(i, all)
    BY <1>1, <2>1
  <2>3. ASSUME NEW j \in 1..(m + 1), j > i PROVE ~Opens(j, all)
    <3>1. CASE j = m + 1
      BY <1>4, <3>1
    <3>2. CASE j # m + 1
      <4>1. j \in 1..m
        BY <1>1, <3>2
      <4> QED BY <1>1, <2>1, <2>3, <4>1
    <3> QED BY <3>1, <3>2
  <2> QED BY <1>1, <2>2, <2>3 DEF Gapped
<1>5. ASSUME ~Opens(m + 1, all), Closes(m + 1, all) PROVE Gapped(all, t)
  <2>1. m + 1 \in 1..(m + 1) /\ \A j \in 1..(m + 1) : ~(j > m + 1)
    BY <1>1
  <2> QED BY <1>1, <1>5, <2>1 DEF Gapped
<1>6. /\ Opens(m + 1, all) <=> (rec.kind = "segment_boundary" /\ rec.ticker = t)
      /\ Closes(m + 1, all) <=> (rec.kind = "discontinuity" /\ t \in rec.affected)
  BY <1>2
<1>7. Gapped(all, t) <=> ~Opens(m + 1, all) /\ (Gapped(out, t) \/ Closes(m + 1, all))
  <2> HIDE DEF Opens, Closes
  <2> QED BY <1>3, <1>4, <1>5
<1> HIDE DEF Opens, Closes
<1>8. Gapped(all, t) <=>
        /\ ~(rec.kind = "segment_boundary" /\ rec.ticker = t)
        /\ Gapped(out, t) \/ (rec.kind = "discontinuity" /\ t \in rec.affected)
  BY <1>6, <1>7
<1> QED BY <1>8 DEF all

\* What an accepted frame leaves of a ticker's gaps.
LEMMA AcceptedGap ==
  ASSUME Typed, NEW f \in wire, Accepts(n, n', FrameRecord(f)), NEW t \in Tickers
  PROVE  Gapped(n'.out, t) <=>
           /\ ~(IsSnapshot(f) /\ f.ticker = t)
           /\ Gapped(n.out, t) \/ (IsGap(n, FrameRecord(f)) /\ t \in Affected(n, f))
<1> DEFINE r == FrameRecord(f)
<1>1. r.data = f /\ Tables(n)
  BY DEF FrameRecord, Raw, Typed
<1> HIDE DEF r
<1>0. PICK d, b, e :
        /\ IsEnd(d, Affected(n, r.data), r) /\ IsBoundary(b, n', r) /\ IsEvent(e, n', r)
        /\ n'.out = ((n.out \o IF IsGap(n, r) THEN <<d>> ELSE <<>>)
                      \o IF IsSnapshot(r.data) THEN <<b>> ELSE <<>>) \o <<e>>
  BY Zenon DEF Accepts, r
<1>2. /\ IsEnd(d, Affected(n, f), r) /\ IsBoundary(b, n', r) /\ IsEvent(e, n', r)
      /\ n'.out = ((n.out \o IF IsGap(n, r) THEN <<d>> ELSE <<>>)
                    \o IF IsSnapshot(f) THEN <<b>> ELSE <<>>) \o <<e>>
  BY <1>0, <1>1
<1> DEFINE first == n.out \o IF IsGap(n, r) THEN <<d>> ELSE <<>>
           second == first \o IF IsSnapshot(f) THEN <<b>> ELSE <<>>
<1>3. PICK S : n.out \in Seq(S)
  BY <1>1 DEF Tables
<1> DEFINE U == S \union {d, b, e}
<1>4. n.out \in Seq(U) /\ <<>> \in Seq(U) /\ <<d>> \in Seq(U) /\ <<b>> \in Seq(U)
  <2>1. n.out \in Seq(U)
    BY <1>3, SeqMonotonic
  <2> QED BY <2>1
<1> HIDE DEF U
<1>5. first \in Seq(U) /\ (Gapped(first, t) <=> Gapped(n.out, t) \/ (IsGap(n, r) /\ t \in Affected(n, f)))
  <2>1. CASE IsGap(n, r)
    <3>1. first = n.out \o <<d>> /\ first \in Seq(U)
      BY <1>4, <2>1
    <3>2. Gapped(n.out \o <<d>>, t) <=> Gapped(n.out, t) \/ t \in Affected(n, f)
      BY <1>2, <1>4, GappedAppend DEF IsEnd
    <3> HIDE DEF first
    <3> QED BY <2>1, <3>1, <3>2
  <2>2. CASE ~IsGap(n, r)
    <3>1. first = n.out
      BY <1>1, <2>2, ConcatEmptySeq DEF Tables
    <3> HIDE DEF first
    <3> QED BY <1>4, <2>2, <3>1
  <2> HIDE DEF first
  <2> QED BY <2>1, <2>2
<1> HIDE DEF first
<1>6. second \in Seq(U) /\ (Gapped(second, t) <=> Gapped(first, t) /\ ~(IsSnapshot(f) /\ f.ticker = t))
  <2>1. CASE IsSnapshot(f)
    <3>1. second = first \o <<b>> /\ second \in Seq(U)
      BY <1>4, <1>5, <2>1
    <3>2. Gapped(first \o <<b>>, t) <=> Gapped(first, t) /\ f.ticker # t
      BY <1>1, <1>2, <1>5, GappedAppend DEF IsBoundary
    <3> HIDE DEF second
    <3> QED BY <2>1, <3>1, <3>2
  <2>2. CASE ~IsSnapshot(f)
    <3>1. second = first
      BY <1>5, <2>2, ConcatEmptySeq
    <3> HIDE DEF second
    <3> QED BY <1>5, <2>2, <3>1
  <2> HIDE DEF second
  <2> QED BY <2>1, <2>2
<1>7. n'.out = second \o <<e>>
  BY <1>2 DEF first, second
<1> HIDE DEF second
<1>8. Gapped(second \o <<e>>, t) <=> Gapped(second, t)
  BY <1>2, <1>6, GappedAppend DEF IsEvent
<1> QED BY <1>5, <1>6, <1>7, <1>8 DEF r

\* A frame hides the books of the tickers its gap affects, unless it is a trade.
LEMMA HidesIsGap ==
  ASSUME NEW f, NEW t
  PROVE  Hides(n, FrameRecord(f), t) <=> IsGap(n, FrameRecord(f)) /\ t \in Affected(n, f) /\ f.type # "trade"
<1>1. FrameRecord(f).data = f
  BY DEF FrameRecord, Raw
<1>2. ExpectedChannel(f) # "trade" <=> f.type # "trade"
  BY DEF ExpectedChannel
<1> QED BY <1>1, <1>2 DEF Hides

\* What an accepted frame does to a ticker's book, in the normalizer.
LEMMA AcceptedBook ==
  ASSUME Typed, NEW f \in wire, Accepts(n, n', FrameRecord(f)), NEW t \in Tickers
  PROVE  LET ends == IsGap(n, FrameRecord(f)) /\ t \in Affected(n, f)
         IN /\ f.type = "orderbook_snapshot" /\ t = f.ticker => n'.valid[t] /\ ~ (n.valid[t] /\ ~ends)
            /\ ~ (f.type = "orderbook_snapshot" /\ t = f.ticker) =>
                  /\ n'.valid[t] = (n.valid[t] /\ ~ (ends /\ f.type # "trade"))
                  /\ n'.segment[t] = n.segment[t]
<1> DEFINE r == FrameRecord(f)
           ends == IsGap(n, r) /\ t \in Affected(n, f)
<1>1. r.data = f /\ IsFrame(f) /\ Tables(n)
  BY DEF FrameRecord, Raw, Typed
<1>2. Hides(n, r, t) <=> ends /\ f.type # "trade"
  BY <1>1, HidesIsGap
<1> HIDE DEF r, ends
<1>3. n'.valid[t] = IF IsSnapshot(f) /\ t = f.ticker THEN TRUE ELSE Still(n, r, t)
  BY <1>1 DEF Accepts, r
<1>4. IsSnapshot(f) => ~Still(n, r, f.ticker)
  BY <1>1 DEF Accepts, r
<1>5. n'.segment = IF IsSnapshot(f) THEN [n.segment EXCEPT ![f.ticker] = @ + 1] ELSE n.segment
  BY <1>1 DEF Accepts, r
<1>6. Still(n, r, t) = (n.valid[t] /\ ~ (ends /\ f.type # "trade"))
  BY <1>2 DEF Still
<1>7. ~ (IsSnapshot(f) /\ t = f.ticker) => n'.segment[t] = n.segment[t]
  BY <1>1, <1>5 DEF Tables
<1> QED BY <1>3, <1>4, <1>6, <1>7 DEF ends, r, IsSnapshot

LEMMA DeliverAgrees ==
  ASSUME Typed, Alive, Agree, NEW f \in wire, Delivers(f), Alive'
  PROVE  Agree'
<1> DEFINE r == FrameRecord(f)
<1>1. ~Refused(n, n')
  BY DEF Refused, Alive
<1>2. CASE Skips(n, n', r) /\ cursors' = cursors
  <2>1. n'.valid = n.valid /\ n'.segment = n.segment /\ n'.out = n.out
    BY <1>2 DEF Skips
  <2> QED BY <1>2, <2>1 DEF Agree
<1>3. CASE /\ Accepts(n, n', r) /\ DOMAIN cursors' = Tickers
           /\ \A t \in Tickers :
                FrameEffect(cursors[t], cursors'[t], t = f.ticker, IsGap(n, r) /\ t \in Affected(n, f), f,
                            n'.segment[f.ticker])
  <2> SUFFICES ASSUME NEW t \in Tickers, cursors'[t].error = None
               PROVE  /\ cursors'[t].state = "valid" <=> n'.valid[t] /\ ~Gapped(n'.out, t)
                      /\ cursors'[t].state = "valid" => cursors'[t].segment = n'.segment[t]
    BY DEF Agree
  <2> DEFINE ends == IsGap(n, r) /\ t \in Affected(n, f)
             c == cursors[t]
             d == cursors'[t]
  <2>1. /\ f.type = "orderbook_snapshot" /\ t = f.ticker => n'.valid[t]
        /\ ~ (f.type = "orderbook_snapshot" /\ t = f.ticker) =>
              /\ n'.valid[t] = (n.valid[t] /\ ~ (ends /\ f.type # "trade"))
              /\ n'.segment[t] = n.segment[t]
    BY <1>3, AcceptedBook
  <2>2. FrameEffect(c, d, t = f.ticker, ends, f, n'.segment[f.ticker])
    BY <1>3
  <2>3. f.type \in EventTypes /\ n.valid[t] \in BOOLEAN
    BY DEF Typed, IsFrame, Tables
  <2>9. Gapped(n'.out, t) <=> ~(f.type = "orderbook_snapshot" /\ f.ticker = t) /\ (Gapped(n.out, t) \/ ends)
    <3>1. Accepts(n, n', FrameRecord(f))
      BY <1>3
    <3>2. Gapped(n'.out, t) <=> ~(IsSnapshot(f) /\ f.ticker = t) /\ (Gapped(n.out, t) \/ ends)
      BY <3>1, AcceptedGap
    <3> QED BY <3>2 DEF IsSnapshot
  <2> HIDE DEF ends, r
  <2>4. c.error = None
    BY <2>2 DEF FrameEffect
  <2>5. /\ c.state = "valid" <=> n.valid[t] /\ ~Gapped(n.out, t)
        /\ c.state = "valid" => c.segment = n.segment[t]
    BY <2>4 DEF Agree
  <2>6. CASE t = f.ticker /\ f.type = "orderbook_snapshot"
    BY <2>1, <2>2, <2>4, <2>6, <2>9 DEF FrameEffect, Seeds
  <2>7. CASE t = f.ticker /\ f.type = "orderbook_delta"
    BY <2>1, <2>2, <2>4, <2>5, <2>7, <2>9 DEF FrameEffect, Moves
  <2>8. CASE t # f.ticker \/ f.type = "trade"
    BY <2>1, <2>2, <2>3, <2>4, <2>5, <2>8, <2>9 DEF FrameEffect, Trades
  <2> QED BY <2>3, <2>6, <2>7, <2>8 DEF EventTypes
<1> QED BY <1>1, <1>2, <1>3 DEF Delivers

LEMMA AgreeSteps ==
  ASSUME Typed, Alive => Agree, [Next]_vars, Alive'
  PROVE  Agree'
<1>1. ASSUME Connect PROVE Agree'
  <2>1. n'.valid = n.valid /\ n'.segment = n.segment /\ n'.out = n.out /\ cursors' = cursors /\ Alive
    BY <1>1, ConnectBinds DEF Bound, Connect, Alive
  <2> QED BY <2>1 DEF Agree
<1>2. ASSUME Disconnect PROVE Agree'
  <2>1. Ends
    BY <1>2, EndReads DEF Disconnect
  <2>2. ASSUME NEW t \in Tickers, cursors'[t].error = None
        PROVE  cursors'[t].state # "valid" /\ ~n'.valid[t]
    BY <2>1, <2>2 DEF Ends, EndsAll, Emptied
  <2> QED BY <2>2 DEF Agree
<1>3. ASSUME NEW t \in Tickers, SendSnapshot(t) \/ SendDelta(t) \/ SendTrade(t) PROVE Agree'
  BY <1>3 DEF SendSnapshot, SendDelta, SendTrade, Agree
<1>4. ASSUME NEW f \in wire, Lose(f) PROVE Agree'
  BY <1>4 DEF Lose, Agree
<1>5. ASSUME NEW f \in wire, NEW again \in BOOLEAN, Deliver(f, again) PROVE Agree'
  <2>1. Alive /\ Delivers(f)
    BY <1>5, FrameReads DEF Deliver, FrameRecord
  <2> QED BY <2>1, DeliverAgrees
<1>6. ASSUME UNCHANGED vars PROVE Agree'
  BY <1>6 DEF vars, Agree, Alive
<1> QED BY <1>1, <1>2, <1>3, <1>4, <1>5, <1>6 DEF Next

-----------------------------------------------------------------------------
(* 12. A chronicle of the frames sent: L[s] is the ticker, the connection, the *)
(* number and the book of the s-th one.  A trade is of no ticker.              *)

Sends(L, s, t) == s \in 1..sent /\ L[s].ticker = t /\ L[s].conn = conn

\* Its numbers and connections.
Dated(L) ==
  /\ \A s \in 1..sent : L[s].conn \in 0..conn /\ L[s].number \in Nat
  /\ \A s, r \in 1..sent : s < r => L[s].conn <= L[r].conn

\* The numbers of a ticker increase, and those of all tickers when they are shared.
Increasing(L) ==
  \A t, u \in Tickers, s, r \in 1..sent :
    s < r /\ Sends(L, s, t) /\ Sends(L, r, u) /\ (t = u \/ numbering = "shared") => L[s].number < L[r].number

\* The next number is above those sent.
Below(L) ==
  /\ \A t \in Tickers, s \in 1..sent : Sends(L, s, t) => t \in opened /\ L[s].number < next[t]
  /\ IF numbering = "shared" THEN \A t, u \in Tickers : next[t] = next[u]
     ELSE \A t \in Tickers \ opened : next[t] = 1

\* The last book sent is the venue's.
LastSent(L) ==
  \A t \in opened : \E s \in 1..sent :
    Sends(L, s, t) /\ L[s].book = venue[t] /\ \A r \in 1..sent : Sends(L, r, t) => r <= s

\* A delta changes the book sent before it; a snapshot is the first one.
Predecessor(L, f, p) ==
  /\ Sends(L, p, f.ticker) /\ p < f.stamp
  /\ \A r \in 1..sent : Sends(L, r, f.ticker) => r <= p \/ r >= f.stamp
  /\ f.book = [L[p].book EXCEPT ![f.body.level] = @ + f.body.change]
First(L, f) ==
  /\ \A r \in 1..sent : Sends(L, r, f.ticker) => r >= f.stamp
  /\ numbering = "perTicker" => L[f.stamp].number = 1
  /\ f.body.book = f.book
InFlight(L, f) ==
  /\ Sends(L, f.stamp, f.ticker) /\ L[f.stamp].book = f.book /\ f.seq \in {None, L[f.stamp].number}
  /\ f.type = "orderbook_delta" => \E p \in 1..sent : Predecessor(L, f, p)
  /\ f.type = "orderbook_snapshot" => First(L, f)

\* The newest frame delivered was sent.
NewestSent(L) ==
  \A t \in Tickers :
    /\ newest[t].stamp \in 0..sent
    /\ newest[t].stamp # 0 => L[newest[t].stamp].ticker = t /\ L[newest[t].stamp].book = newest[t].book

Chron(L) ==
  /\ Dated(L) /\ Increasing(L) /\ Below(L) /\ LastSent(L)
  /\ \A f \in wire : f.type # "trade" => InFlight(L, f)
  /\ NewestSent(L) /\ DOMAIN newest = Tickers
  /\ numbering \in {"shared", "perTicker"}

\* The chronicle with one frame more.
Chronicle(L, t, number, book) ==
  [s \in 1..(sent + 1) |-> IF s <= sent THEN L[s]
                           ELSE [ticker |-> t, conn |-> conn, number |-> number, book |-> book]]

LEMMA ChronicleSends ==
  ASSUME Typed, NEW L, NEW t, NEW number, NEW book, NEW M, M = Chronicle(L, t, number, book),
         sent' = sent + 1, conn' = conn
  PROVE  /\ \A s \in 1..sent : M[s] = L[s]
         /\ M[sent + 1] = [ticker |-> t, conn |-> conn, number |-> number, book |-> book]
         /\ \A s, u : Sends(M, s, u)' <=> Sends(L, s, u) \/ (s = sent + 1 /\ u = t)
<1>0. sent \in Nat
  BY DEF Typed
<1>1. \A s \in 1..sent : M[s] = L[s]
  BY <1>0 DEF Chronicle
<1>2. M[sent + 1] = [ticker |-> t, conn |-> conn, number |-> number, book |-> book]
  BY <1>0 DEF Chronicle
<1>3. ASSUME NEW s, NEW u PROVE Sends(M, s, u)' <=> Sends(L, s, u) \/ (s = sent + 1 /\ u = t)
  <2>1. s \in 1..sent' <=> s \in 1..sent \/ s = sent + 1
    BY <1>0
  <2>2. Sends(M, s, u)' <=> s \in 1..sent' /\ M[s].ticker = u /\ M[s].conn = conn
    BY DEF Sends
  <2>3. CASE s \in 1..sent
    BY <1>0, <1>1, <2>1, <2>2, <2>3 DEF Sends
  <2>4. CASE s = sent + 1
    BY <1>0, <1>2, <2>1, <2>2, <2>4 DEF Sends
  <2>5. CASE ~ (s \in 1..sent) /\ s # sent + 1
    BY <2>1, <2>2, <2>5 DEF Sends
  <2> QED BY <2>3, <2>4, <2>5
<1> QED BY <1>1, <1>2, <1>3

\* A frame of t's book is sent.
LEMMA ChronSend ==
  ASSUME Typed, NEW L, Chron(L), NEW t \in Tickers, NEW type \in {"orderbook_snapshot", "orderbook_delta"},
         NEW body, NEW book, NEW unsequenced \in BOOLEAN, Send(t, type, body, book, unsequenced),
         BodyOK(type, body), UNCHANGED <<numbering, conn, newest>>, opened' = opened \union {t},
         venue'[t] = book, \A u \in Tickers : u # t => venue'[u] = venue[u],
         type = "orderbook_delta" => t \in opened /\ book = [venue[t] EXCEPT ![body.level] = @ + body.change],
         type = "orderbook_snapshot" => t \notin opened /\ body.book = book,
         NEW number, number = next[t], NEW M, M = Chronicle(L, t, number, book)
  PROVE  Chron(M)'
<1>next. PICK z : z = sent + 1
  OBVIOUS
<1>0. /\ sent' = z /\ conn' = conn /\ sent \in Nat /\ next \in [Tickers -> Nat] /\ opened \subseteq Tickers
      /\ conn \in Nat /\ numbering' = numbering /\ newest' = newest
  BY <1>next, ReplayAssumption DEF Send, Typed
<1>1. /\ \A s \in 1..sent : M[s] = L[s]
      /\ M[z] = [ticker |-> t, conn |-> conn, number |-> next[t], book |-> book]
      /\ \A s, u : Sends(M, s, u)' <=> Sends(L, s, u) \/ (s = z /\ u = t)
  BY <1>0, <1>next, ChronicleSends
<1>2. M[z].ticker = t /\ M[z].conn = conn /\ M[z].number = next[t] /\ M[z].book = book
  BY <1>1
<1>3. /\ \A s \in 1..sent' : s \in 1..sent \/ s = z
      /\ \A s \in 1..sent : s \in 1..sent' /\ s < z
      /\ z \in 1..sent' /\ z \notin 1..sent
  BY <1>0, <1>next
<1>4. \A s, u : Sends(L, s, u) => s \in 1..sent
  BY DEF Sends
<1>5. Dated(M)'
  <2>1. Dated(L)
    BY DEF Chron
  <2> QED BY <1>0, <1>1, <1>2, <1>3, <2>1 DEF Dated
<1>6. /\ \A u \in Tickers : next'[u] \in Nat /\ next[u] <= next'[u]
      /\ next'[t] = next[t] + 1
      /\ numbering = "shared" => \A u \in Tickers : next'[u] = next[u] + 1
      /\ numbering # "shared" => \A u \in Tickers : u # t => next'[u] = next[u]
  BY <1>0 DEF Send, NextNumbers
<1>7. Increasing(M)'
  <2> SUFFICES ASSUME NEW u \in Tickers, NEW v \in Tickers, NEW s \in 1..sent', NEW r \in 1..sent',
                      s < r, Sends(M, s, u)', Sends(M, r, v)', u = v \/ numbering' = "shared"
               PROVE  M[s].number < M[r].number
    BY DEF Increasing
  <2>1. s \in 1..sent /\ Sends(L, s, u) /\ M[s] = L[s]
    <3>1. s # z
      BY <1>0, <1>3, <1>next
    <3> QED BY <1>1, <1>3, <3>1
  <2>2. CASE r \in 1..sent
    <3>1. Sends(L, r, v) /\ M[r] = L[r]
      BY <1>1, <1>3, <2>2
    <3> QED BY <1>0, <2>1, <2>2, <3>1 DEF Chron, Increasing
  <2>3. CASE r = z
    <3>1. v = t
      BY <1>1, <1>4, <1>3, <2>3
    <3>2. L[s].number < next[u]
      BY <2>1 DEF Chron, Below
    <3>3. next[u] = next[t]
      BY <1>0, <3>1 DEF Chron, Below
    <3> QED BY <1>2, <2>1, <2>3, <3>2, <3>3
  <2> QED BY <1>3, <2>2, <2>3
<1>8. Below(M)'
  <2>1. ASSUME NEW u \in Tickers, NEW s \in 1..sent', Sends(M, s, u)'
        PROVE  u \in opened' /\ M[s].number < next'[u]
    <3>1. CASE s \in 1..sent
      <4>1. Sends(L, s, u) /\ M[s] = L[s]
        BY <1>1, <1>3, <2>1, <3>1
      <4>2. u \in opened /\ L[s].number < next[u] /\ L[s].number \in Nat
        BY <3>1, <4>1 DEF Chron, Below, Dated
      <4> QED BY <1>0, <1>6, <4>1, <4>2
    <3>2. CASE s = z
      <4>1. u = t
        BY <1>1, <1>3, <1>4, <2>1, <3>2
      <4> QED BY <1>0, <1>2, <1>6, <3>2, <4>1
    <3> QED BY <1>3, <3>1, <3>2
  <2>2. IF numbering' = "shared" THEN \A u, v \in Tickers : next'[u] = next'[v]
        ELSE \A u \in Tickers \ opened' : next'[u] = 1
    BY <1>0, <1>6 DEF Chron, Below
  <2> QED BY <2>1, <2>2 DEF Below
<1>9. LastSent(M)'
  <2> SUFFICES ASSUME NEW u \in opened'
               PROVE  \E s \in 1..sent' : /\ Sends(M, s, u)' /\ M[s].book = venue'[u]
                                          /\ \A r \in 1..sent' : Sends(M, r, u)' => r <= s
    BY DEF LastSent
  <2>1. CASE u = t
    <3>1. Sends(M, z, u)' /\ M[z].book = venue'[u]
      BY <1>1, <1>2, <2>1
    <3>2. \A r \in 1..sent' : r <= z
      BY <1>0
    <3> QED BY <1>3, <3>1, <3>2
  <2>2. CASE u # t
    <3>1. u \in opened /\ u \in Tickers
      BY <1>0, <2>2
    <3>2. PICK s \in 1..sent : Sends(L, s, u) /\ L[s].book = venue[u] /\ \A r \in 1..sent : Sends(L, r, u) => r <= s
      BY <3>1 DEF Chron, LastSent
    <3>3. \A r \in 1..sent' : Sends(M, r, u)' => r <= s
      BY <1>1, <1>4, <2>2, <3>2
    <3> QED BY <1>1, <1>3, <2>2, <3>1, <3>2, <3>3
  <2> QED BY <2>1, <2>2
<1>10. \A f \in wire' : f.type # "trade" => InFlight(M, f)'
  <2>0. \A f \in wire' : f \in wire \/ \E ts \in Stamps : f = NewFrame(t, type, body, book, unsequenced, ts)
    BY SendTyped
  <2>1. ASSUME NEW f \in wire, f.type # "trade" PROVE InFlight(M, f)'
    <3>1. InFlight(L, f) /\ f.stamp \in 1..sent
      BY <2>1, <1>4 DEF Chron, InFlight
    <3>2. Sends(M, f.stamp, f.ticker)' /\ M[f.stamp] = L[f.stamp]
      BY <1>1, <3>1 DEF InFlight
    <3>3. ASSUME f.type = "orderbook_delta" PROVE \E p \in 1..sent' : Predecessor(M, f, p)'
      <4>1. PICK p \in 1..sent : Predecessor(L, f, p)
        BY <3>1, <3>3 DEF InFlight
      <4>2. \A r \in 1..sent' : Sends(M, r, f.ticker)' => r <= p \/ r >= f.stamp
        <5> SUFFICES ASSUME NEW r \in 1..sent', Sends(M, r, f.ticker)' PROVE r <= p \/ r >= f.stamp
          OBVIOUS
        <5>1. CASE r = z
          BY <1>3, <3>1, <5>1, <1>0
        <5>2. CASE r \in 1..sent
          <6>1. Sends(L, r, f.ticker)
            BY <1>1, <1>3, <5>2
          <6> QED BY <4>1, <5>2, <6>1 DEF Predecessor
        <5> QED BY <1>3, <5>1, <5>2
      <4>3. Predecessor(M, f, p)'
        BY <1>1, <4>1, <4>2 DEF Predecessor
      <4> QED BY <1>3, <4>3
    <3>4. ASSUME f.type = "orderbook_snapshot" PROVE First(M, f)'
      <4>1. First(L, f)
        BY <3>1, <3>4 DEF InFlight
      <4>2. \A r \in 1..sent' : Sends(M, r, f.ticker)' => r >= f.stamp
        <5> SUFFICES ASSUME NEW r \in 1..sent', Sends(M, r, f.ticker)' PROVE r >= f.stamp
          OBVIOUS
        <5>1. CASE r = z
          BY <1>3, <3>1, <5>1, <1>0
        <5>2. CASE r \in 1..sent
          <6>1. Sends(L, r, f.ticker)
            BY <1>1, <1>3, <5>2
          <6> QED BY <4>1, <5>2, <6>1 DEF First
        <5> QED BY <1>3, <5>1, <5>2
      <4> QED BY <1>0, <3>2, <4>1, <4>2 DEF First
    <3> QED BY <3>1, <3>2, <3>3, <3>4 DEF InFlight
  <2>2. ASSUME NEW ts, NEW f, f = NewFrame(t, type, body, book, unsequenced, ts) PROVE InFlight(M, f)'
    <3>1. /\ f.type = type /\ f.ticker = t /\ f.body = body /\ f.stamp = z /\ f.book = book
          /\ f.seq \in {None, next[t]}
      BY <1>next, <2>2 DEF NewFrame
    <3>2. Sends(M, z, t)' /\ M[z].book = book /\ M[z].number = next[t]
      BY <1>1, <1>2
    <3>3. ASSUME type = "orderbook_delta" PROVE \E p \in 1..sent' : Predecessor(M, f, p)'
      <4>1. PICK s \in 1..sent : Sends(L, s, t) /\ L[s].book = venue[t] /\ \A r \in 1..sent : Sends(L, r, t) => r <= s
        BY <3>3 DEF Chron, LastSent
      <4>2. \A r \in 1..sent' : Sends(M, r, t)' => r <= s \/ r >= z
        BY <1>0, <1>1, <1>3, <1>4, <4>1
      <4>3. Sends(M, s, t)' /\ s < z /\ M[s].book = venue[t]
        BY <1>1, <1>3, <4>1
      <4>4. Predecessor(M, f, s)'
        BY <3>1, <3>3, <4>2, <4>3 DEF Predecessor
      <4> QED BY <1>3, <4>4
    <3>4. ASSUME type = "orderbook_snapshot" PROVE First(M, f)'
      <4>1. \A r \in 1..sent' : Sends(M, r, t)' => r >= z
        <5>1. \A r \in 1..sent : ~Sends(L, r, t)
          BY <3>4 DEF Chron, Below
        <5> QED BY <1>0, <1>1, <1>3, <1>4, <5>1
      <4>2. numbering = "perTicker" => next[t] = 1
        BY <3>4 DEF Chron, Below
      <4> QED BY <1>0, <3>1, <3>2, <3>4, <4>1, <4>2 DEF First
    <3> QED BY <3>1, <3>2, <3>3, <3>4 DEF InFlight
  <2> QED BY <2>0, <2>1, <2>2
<1>11. NewestSent(M)'
  <2> SUFFICES ASSUME NEW u \in Tickers
               PROVE  /\ newest[u].stamp \in 0..sent'
                      /\ newest[u].stamp # 0 => M[newest[u].stamp].ticker = u /\ M[newest[u].stamp].book = newest[u].book
    BY <1>0 DEF NewestSent
  <2>1. /\ newest[u].stamp \in 0..sent
        /\ newest[u].stamp # 0 => L[newest[u].stamp].ticker = u /\ L[newest[u].stamp].book = newest[u].book
    BY DEF Chron, NewestSent
  <2>2. newest[u].stamp # 0 => M[newest[u].stamp] = L[newest[u].stamp]
    BY <1>0, <1>1, <2>1
  <2> QED BY <1>0, <1>next, <2>1, <2>2
<1> QED BY <1>0, <1>5, <1>7, <1>8, <1>9, <1>10, <1>11 DEF Chron

\* A trade is sent: the chronicle of the books is the same.
LEMMA ChronTrade ==
  ASSUME Typed, NEW L, Chron(L), NEW t \in Tickers, SendTrade(t),
         NEW M, M = Chronicle(L, None, 0, EmptyBook)
  PROVE  Chron(M)'
<1>0. /\ sent' = sent + 1 /\ conn' = conn /\ sent \in Nat /\ None \notin Tickers /\ opened \subseteq Tickers
      /\ conn \in Nat /\ numbering' = numbering /\ newest' = newest /\ next' = next /\ opened' = opened
      /\ venue' = venue
  BY ReplayAssumption DEF SendTrade, Typed
<1>1. /\ \A s \in 1..sent : M[s] = L[s]
      /\ M[sent + 1] = [ticker |-> None, conn |-> conn, number |-> 0, book |-> EmptyBook]
      /\ \A s, u : Sends(M, s, u)' <=> Sends(L, s, u) \/ (s = sent + 1 /\ u = None)
  BY <1>0, ChronicleSends
<1>2. /\ \A s \in 1..sent' : s \in 1..sent \/ s = sent + 1
      /\ \A s \in 1..sent : s \in 1..sent' /\ s < sent + 1
  BY <1>0
<1>3. \A s, u : u \in Tickers => (Sends(M, s, u)' <=> Sends(L, s, u))
  BY <1>0, <1>1
<1>4. \A s, u : Sends(L, s, u) => s \in 1..sent /\ M[s] = L[s]
  BY <1>1 DEF Sends
<1>5. Dated(M)'
  <2>1. Dated(L)
    BY DEF Chron
  <2>2. M[sent + 1].conn = conn /\ M[sent + 1].number = 0
    BY <1>1
  <2> QED BY <1>0, <1>1, <1>2, <2>1, <2>2 DEF Dated
<1>6. Increasing(M)'
  <2>1. Increasing(L)
    BY DEF Chron
  <2> QED BY <1>0, <1>3, <1>4, <2>1 DEF Increasing
<1>7. Below(M)'
  <2>1. Below(L)
    BY DEF Chron
  <2> QED BY <1>0, <1>3, <1>4, <2>1 DEF Below
<1>8. LastSent(M)'
  <2>1. LastSent(L)
    BY DEF Chron
  <2> QED BY <1>0, <1>2, <1>3, <1>4, <2>1 DEF LastSent
<1>9. ASSUME NEW f \in wire', f.type # "trade" PROVE InFlight(M, f)'
  <2>1. f \in wire
    BY <1>9 DEF SendTrade
  <2>2. InFlight(L, f) /\ f.ticker \in Tickers
    BY <1>9, <2>1 DEF Chron, Typed, IsFrame
  <2>3. Sends(M, f.stamp, f.ticker)' /\ M[f.stamp] = L[f.stamp]
    BY <1>3, <1>4, <2>2 DEF InFlight
  <2>4. f.type = "orderbook_delta" => \E p \in 1..sent' : Predecessor(M, f, p)'
    BY <1>2, <1>3, <1>4, <2>2 DEF InFlight, Predecessor
  <2>5. f.type = "orderbook_snapshot" => First(M, f)'
    BY <1>0, <1>3, <1>4, <2>2, <2>3 DEF InFlight, First
  <2> QED BY <2>2, <2>3, <2>4, <2>5 DEF InFlight
<1>10. NewestSent(M)'
  <2> SUFFICES ASSUME NEW u \in Tickers
               PROVE  /\ newest[u].stamp \in 0..sent'
                      /\ newest[u].stamp # 0 => M[newest[u].stamp].ticker = u /\ M[newest[u].stamp].book = newest[u].book
    BY <1>0 DEF NewestSent
  <2>1. /\ newest[u].stamp \in 0..sent
        /\ newest[u].stamp # 0 => L[newest[u].stamp].ticker = u /\ L[newest[u].stamp].book = newest[u].book
    BY DEF Chron, NewestSent
  <2>2. newest[u].stamp # 0 => M[newest[u].stamp] = L[newest[u].stamp]
    BY <1>0, <1>1, <2>1
  <2> QED BY <1>0, <2>1, <2>2
<1> QED BY <1>0, <1>5, <1>6, <1>7, <1>8, <1>9, <1>10 DEF Chron

\* A connection opens: nothing is sent on it yet.
LEMMA ChronConnect ==
  ASSUME Typed, NEW L, Chron(L), Connect
  PROVE  Chron(L)' /\ \A s, t : ~Sends(L, s, t)'
<1>0. /\ sent' = sent /\ conn' = conn + 1 /\ sent \in Nat /\ opened' = {} /\ wire' = {}
      /\ conn \in Nat /\ numbering' = numbering /\ newest' = newest /\ next' = [t \in Tickers |-> 1]
  BY ReplayAssumption DEF Connect, Typed
<1>1. \A s, t : ~Sends(L, s, t)'
  <2>1. \A s \in 1..sent : L[s].conn \in 0..conn
    BY DEF Chron, Dated
  <2> QED BY <1>0, <2>1 DEF Sends
<1>2. Dated(L)'
  <2>1. Dated(L)
    BY DEF Chron
  <2> QED BY <1>0, <2>1 DEF Dated
<1>3. Increasing(L)' /\ Below(L)' /\ LastSent(L)' /\ \A f \in wire' : f.type # "trade" => InFlight(L, f)'
  BY <1>0, <1>1 DEF Increasing, Below, LastSent
<1>4. NewestSent(L)' /\ DOMAIN newest' = Tickers /\ numbering' \in {"shared", "perTicker"}
  BY <1>0 DEF Chron, NewestSent
<1> QED BY <1>1, <1>2, <1>3, <1>4 DEF Chron

\* Nothing is sent, and no frame is added.
LEMMA ChronKept ==
  ASSUME Typed, NEW L, Chron(L), UNCHANGED <<venue, numbering, next, opened, sent, conn>>, wire' \subseteq wire,
         NewestSent(L)', DOMAIN newest' = Tickers
  PROVE  Chron(L)' /\ \A s, t : Sends(L, s, t)' <=> Sends(L, s, t)
<1>1. \A s, t : Sends(L, s, t)' <=> Sends(L, s, t)
  BY DEF Sends
<1>2. Dated(L)' /\ Increasing(L)' /\ Below(L)' /\ LastSent(L)'
  BY <1>1 DEF Chron, Dated, Increasing, Below, LastSent
<1>3. \A f \in wire' : f.type # "trade" => InFlight(L, f)'
  <2> SUFFICES ASSUME NEW f \in wire, f.type # "trade" PROVE InFlight(L, f)'
    OBVIOUS
  <2>1. InFlight(L, f)
    BY DEF Chron
  <2> QED BY <1>1, <2>1 DEF InFlight, Predecessor, First
<1> QED BY <1>1, <1>2, <1>3 DEF Chron

LEMMA ChronDeliver ==
  ASSUME Typed, NEW L, Chron(L), NEW f \in wire, NEW again \in BOOLEAN, Deliver(f, again)
  PROVE  /\ Chron(L)' /\ \A s, t : Sends(L, s, t)' <=> Sends(L, s, t)
         /\ \A t \in Tickers : newest'[t] =
              IF f.type # "trade" /\ t = f.ticker /\ f.stamp > newest[t].stamp
                THEN [stamp |-> f.stamp, book |-> f.book] ELSE newest[t]
<1>1. UNCHANGED <<venue, numbering, next, opened, sent, conn>> /\ wire' \subseteq wire
  BY DEF Deliver, venueVars
<1>2. DOMAIN newest = Tickers /\ DOMAIN newest' = Tickers
  BY DEF Deliver, Chron
<1>3. \A t \in Tickers : newest'[t] =
        IF f.type # "trade" /\ t = f.ticker /\ f.stamp > newest[t].stamp
          THEN [stamp |-> f.stamp, book |-> f.book] ELSE newest[t]
  BY <1>2 DEF Deliver
<1>4. NewestSent(L)'
  <2> SUFFICES ASSUME NEW t \in Tickers
               PROVE  /\ newest'[t].stamp \in 0..sent
                      /\ newest'[t].stamp # 0 => L[newest'[t].stamp].ticker = t /\ L[newest'[t].stamp].book = newest'[t].book
    BY <1>1 DEF NewestSent
  <2>1. CASE newest'[t] = newest[t]
    BY <2>1 DEF Chron, NewestSent
  <2>2. CASE f.type # "trade" /\ t = f.ticker /\ newest'[t] = [stamp |-> f.stamp, book |-> f.book]
    <3>1. Sends(L, f.stamp, t) /\ L[f.stamp].book = f.book
      BY <2>2 DEF Chron, InFlight
    <3>2. sent \in Nat
      BY DEF Typed
    <3> QED BY <2>2, <3>1, <3>2 DEF Sends
  <2> QED BY <1>3, <2>1, <2>2
<1> QED BY <1>1, <1>2, <1>3, <1>4, ChronKept

-----------------------------------------------------------------------------
(* 13. What the normalizer knows of the chronicle. *)

\* The scope of a subscription's numbers that a ticker is in, and the latest of
\* them; the book's; and the scope of a frame.
Sids == {BookSid, TradeSid}
Scope(sid, t) == <<conn, sid, IF n.topology = "independent" THEN t ELSE None>>
LatestIn(sid, t) == Lookup(n.previous, Scope(sid, t))
BookScope(t) == Scope(BookSid, t)
Latest(t) == Lookup(n.previous, BookScope(t))
FrameScope(f) == Scope(f.sid, f.ticker)

\* Where a visible book is promised to be the venue's.
Trusted ==
  \/ n.reasons = {}
  \/ numbering = "shared" /\ "RequiredSourceSequenceMissing" \notin n.reasons

\* Nothing is known of a connection that has not opened.
ScopesPast ==
  /\ \A p \in n.previous : p.key[1] \in 0..conn
  /\ \A p \in n.payloads : p.key[1][1] \in 0..conn

\* The latest sequence of a scope was read in a frame.
LatestSeen ==
  \A sid \in Sids, t \in Tickers :
    LatestIn(sid, t) # None => \E p \in n.payloads : p.key = <<Scope(sid, t), LatestIn(sid, t)>>

\* A numbered frame is kept under its scope and its number.
Scoped ==
  \A p \in n.payloads :
    /\ p.value.ticker \in Tickers /\ p.key[2] \in Nat
    /\ p.value.sid = (IF p.value.type = "trade" THEN TradeSid ELSE BookSid)
    /\ p.key[1][1] = conn => p.key[1] = FrameScope(p.value)

\* A book frame read is no newer than the newest delivered, and this connection's
\* were sent.
PayloadsSent(L) ==
  \A p \in n.payloads : p.value.type # "trade" =>
    /\ p.value.ticker \in Tickers /\ p.value.stamp \in Nat /\ p.value.stamp <= newest[p.value.ticker].stamp
    /\ p.key[1][1] = conn =>
         /\ Sends(L, p.value.stamp, p.value.ticker)
         /\ p.key = <<BookScope(p.value.ticker), L[p.value.stamp].number>>

\* Numbers per ticker, read as one sequence, are of one ticker while no reason is found.
Joint == {p \in n.payloads : p.key[1] = <<conn, BookSid, None>>}
OneTicker ==
  numbering = "perTicker" /\ n.topology # "independent" /\ n.reasons = {} =>
    /\ \A p, q \in Joint : p.value.ticker = q.value.ticker
    /\ Joint # {} => \E p \in Joint : p.key[2] = 1
    /\ \A t \in Tickers : n.valid[t] => \E p \in Joint : p.value.ticker = t

\* The newest frame of a ticker is of this connection.
Current(L, t) == newest[t].stamp # 0 /\ L[newest[t].stamp].conn = conn
Covered(L) ==
  \A t \in Tickers : Current(L, t) => Latest(t) # None /\ L[newest[t].stamp].number <= Latest(t)

\* A valid book has every frame up to the latest sequence.
UpToDate(L, t) ==
  /\ up /\ Current(L, t) /\ Latest(t) # None
  /\ \A s \in 1..sent : Sends(L, s, t) /\ L[s].number <= Latest(t) => s <= newest[t].stamp
  /\ cursors[t].error = None /\ cursors[t].state = "valid" => cursors[t].projection.book = newest[t].book

Norm(L) ==
  /\ ScopesPast /\ LatestSeen /\ Scoped /\ PayloadsSent(L) /\ OneTicker
  /\ Trusted => Covered(L) /\ \A t \in Tickers : n.valid[t] => UpToDate(L, t)
  /\ ~up => \A t \in Tickers : ~n.valid[t]

LEMMA LatestInBook == \A t : LatestIn(BookSid, t) = Latest(t)
BY DEF LatestIn, Latest, BookScope

\* A frame kept under a book's scope is the book's.
LEMMA BookPayload ==
  ASSUME Scoped, NEW p \in n.payloads, NEW t, p.key[1] = BookScope(t)
  PROVE  p.value.type # "trade" /\ p.key[1][1] = conn
<1>1. p.key[1] = <<conn, BookSid, IF n.topology = "independent" THEN t ELSE None>>
  BY DEF BookScope, Scope
<1>2. p.key[1][1] = conn /\ p.key[1][2] = BookSid
  BY <1>1
<1>3. p.key[1] = FrameScope(p.value)
  BY <1>2 DEF Scoped
<1>4. p.key[1][2] = p.value.sid
  BY <1>3 DEF FrameScope, Scope
<1>5. p.value.type = "trade" => p.value.sid = TradeSid
  BY DEF Scoped
<1>6. BookSid # TradeSid
  BY DEF BookSid, TradeSid
<1> QED BY <1>2, <1>4, <1>5, <1>6

LEMMA LatestSent ==
  ASSUME Typed, NEW L, Chron(L), Norm(L), NEW t \in Tickers, Latest(t) # None
  PROVE  \E p \in n.payloads :
           /\ p.key = <<BookScope(t), Latest(t)>> /\ p.value.ticker \in Tickers
           /\ Sends(L, p.value.stamp, p.value.ticker) /\ Latest(t) = L[p.value.stamp].number
           /\ Latest(t) \in Nat /\ BookScope(p.value.ticker) = BookScope(t)
<1>1. PICK p \in n.payloads : p.key = <<BookScope(t), Latest(t)>>
  BY LatestInBook DEF Norm, LatestSeen, Sids, BookScope
<1>2. p.key[1] = BookScope(t) /\ p.key[1][1] = conn /\ p.value.type # "trade"
  BY <1>1, BookPayload DEF Norm
<1>3. /\ p.value.ticker \in Tickers /\ Sends(L, p.value.stamp, p.value.ticker)
      /\ p.key = <<BookScope(p.value.ticker), L[p.value.stamp].number>>
  BY <1>2 DEF Norm, PayloadsSent
<1>4. Latest(t) = L[p.value.stamp].number /\ BookScope(p.value.ticker) = BookScope(t)
  BY <1>1, <1>3
<1>5. L[p.value.stamp].number \in Nat
  BY <1>3 DEF Sends, Chron, Dated
<1> QED BY <1>1, <1>3, <1>4, <1>5

\* Two tickers share a scope, unless the topology is independent.
LEMMA SameScope ==
  ASSUME NEW t \in Tickers, NEW u \in Tickers
  PROVE  BookScope(t) = BookScope(u) <=> t = u \/ n.topology # "independent"
<1>1. None \notin Tickers
  BY ReplayAssumption
<1> QED BY <1>1 DEF BookScope, Scope

\* The latest sequence of a valid book is below the next number of its ticker.
LEMMA LatestBelow ==
  ASSUME Typed, NEW L, Chron(L), Norm(L), Trusted, NEW t \in Tickers, n.valid[t]
  PROVE  Latest(t) \in Nat /\ Latest(t) < next[t]
<1>0. UpToDate(L, t)
  BY DEF Norm
<1>1. PICK p \in n.payloads :
           /\ p.key = <<BookScope(t), Latest(t)>> /\ p.value.ticker \in Tickers
           /\ Sends(L, p.value.stamp, p.value.ticker) /\ Latest(t) = L[p.value.stamp].number
           /\ Latest(t) \in Nat /\ BookScope(p.value.ticker) = BookScope(t)
  BY <1>0, LatestSent DEF UpToDate
<1>2. Latest(t) < next[p.value.ticker]
  BY <1>1 DEF Sends, Chron, Below
<1>3. next[p.value.ticker] = next[t]
  <2>1. CASE numbering = "shared"
    BY <1>1, <2>1 DEF Chron, Below
  <2>2. CASE numbering # "shared"
    <3>1. n.reasons = {} /\ numbering = "perTicker"
      BY <2>2 DEF Trusted, Chron
    <3>2. CASE n.topology = "independent"
      BY <1>1, <3>2, SameScope
    <3>3. CASE n.topology # "independent"
      <4>1. p \in Joint
        BY <1>1, <3>3 DEF Joint, BookScope, Scope
      <4>2. p.value.ticker = t
        BY <3>1, <3>3, <4>1 DEF Norm, OneTicker
      <4> QED BY <4>2
    <3> QED BY <3>2, <3>3
  <2> QED BY <2>1, <2>2
<1> QED BY <1>1, <1>2, <1>3

-----------------------------------------------------------------------------
(* 14. Sending and losing a frame, and opening and closing a connection.       *)

\* What is read is as it was.
LEMMA UnreadKept ==
  ASSUME UNCHANGED <<conn, up, n, cursors, newest, numbering>>
  PROVE  /\ ScopesPast' = ScopesPast /\ LatestSeen' = LatestSeen /\ Scoped' = Scoped /\ OneTicker' = OneTicker
         /\ Trusted' = Trusted
         /\ \A t : Latest(t)' = Latest(t) /\ BookScope(t)' = BookScope(t)
<1>1. /\ \A t : Latest(t)' = Latest(t) /\ BookScope(t)' = BookScope(t)
      /\ \A sid, t : LatestIn(sid, t)' = LatestIn(sid, t) /\ Scope(sid, t)' = Scope(sid, t)
  BY DEF Latest, BookScope, Scope, LatestIn
<1>2. Joint' = Joint
  BY DEF Joint
<1>3. OneTicker' = OneTicker
  BY <1>2, Zenon DEF OneTicker
<1>4. ScopesPast' = ScopesPast
  BY Zenon DEF ScopesPast
<1>5. LatestSeen' = LatestSeen
  BY <1>1, Zenon DEF LatestSeen
<1>6. Trusted' = Trusted
  BY Zenon DEF Trusted
<1>7. Scoped' = Scoped
  BY <1>1, Zenon DEF Scoped, FrameScope
<1> QED BY <1>1, <1>3, <1>4, <1>5, <1>6, <1>7

\* A frame is sent: its number is above the latest one read in its scope.
LEMMA NormSend ==
  ASSUME Typed, NEW L, Chron(L), Norm(L), NEW t, NEW number \in Nat, NEW book,
         NEW M, M = Chronicle(L, t, number, book),
         sent' = sent + 1, UNCHANGED <<conn, up, n, cursors, newest, numbering>>,
         Trusted /\ t \in Tickers /\ n.valid[t] => Latest(t) \in Nat /\ Latest(t) < number
  PROVE  Norm(M)'
<1>0. sent \in Nat /\ conn' = conn /\ newest' = newest /\ n' = n /\ up' = up /\ cursors' = cursors
  BY DEF Typed
<1>1. /\ \A s \in 1..sent : M[s] = L[s]
      /\ M[sent + 1] = [ticker |-> t, conn |-> conn, number |-> number, book |-> book]
      /\ \A s, u : Sends(M, s, u)' <=> Sends(L, s, u) \/ (s = sent + 1 /\ u = t)
  BY <1>0, ChronicleSends
<1>2. \A s, u : Sends(L, s, u) => s \in 1..sent /\ M[s] = L[s] /\ Sends(M, s, u)'
  BY <1>1 DEF Sends
<1>3. M[sent + 1].number = number
  BY <1>1
<1>4. /\ ScopesPast' = ScopesPast /\ LatestSeen' = LatestSeen /\ Scoped' = Scoped /\ OneTicker' = OneTicker
      /\ Trusted' = Trusted
      /\ \A u : Latest(u)' = Latest(u) /\ BookScope(u)' = BookScope(u)
  BY UnreadKept
<1>5. ASSUME NEW u \in Tickers
      PROVE  /\ Current(M, u)' <=> Current(L, u)
             /\ newest[u].stamp # 0 => M[newest[u].stamp] = L[newest[u].stamp]
  <2>1. newest[u].stamp \in 0..sent
    BY DEF Chron, NewestSent
  <2>2. newest[u].stamp # 0 => M[newest[u].stamp] = L[newest[u].stamp]
    BY <1>0, <1>1, <2>1
  <2> QED BY <1>0, <2>2 DEF Current
<1>6. PayloadsSent(M)'
  <2> SUFFICES ASSUME NEW p \in n.payloads, p.value.type # "trade"
               PROVE  /\ p.value.ticker \in Tickers /\ p.value.stamp \in Nat /\ p.value.stamp <= newest[p.value.ticker].stamp
                      /\ p.key[1][1] = conn =>
                           /\ Sends(M, p.value.stamp, p.value.ticker)'
                           /\ p.key = <<BookScope(p.value.ticker)', M[p.value.stamp].number>>
    BY <1>0 DEF PayloadsSent
  <2>1. /\ p.value.ticker \in Tickers /\ p.value.stamp \in Nat /\ p.value.stamp <= newest[p.value.ticker].stamp
        /\ p.key[1][1] = conn =>
             /\ Sends(L, p.value.stamp, p.value.ticker)
             /\ p.key = <<BookScope(p.value.ticker), L[p.value.stamp].number>>
    BY DEF Norm, PayloadsSent
  <2> QED BY <1>2, <1>4, <2>1
<1>7. ASSUME Trusted PROVE Covered(M)'
  <2>1. Covered(L)
    BY <1>7 DEF Norm
  <2> SUFFICES ASSUME NEW u \in Tickers, Current(L, u)
               PROVE  Latest(u) # None /\ M[newest[u].stamp].number <= Latest(u)
    BY <1>0, <1>4, <1>5 DEF Covered
  <2>2. Latest(u) # None /\ L[newest[u].stamp].number <= Latest(u) /\ newest[u].stamp # 0
    BY <2>1 DEF Covered, Current
  <2> QED BY <1>5, <2>2
<1>8. ASSUME Trusted, NEW u \in Tickers, n.valid[u] PROVE UpToDate(M, u)'
  <2>1. UpToDate(L, u)
    BY <1>8 DEF Norm
  <2>2. ASSUME NEW s \in 1..sent', Sends(M, s, u)', M[s].number <= Latest(u) PROVE s <= newest[u].stamp
    <3>1. CASE Sends(L, s, u)
      <4>1. s \in 1..sent /\ L[s].number <= Latest(u)
        BY <1>2, <2>2, <3>1
      <4> QED BY <2>1, <3>1, <4>1 DEF UpToDate
    <3>2. CASE s = sent + 1 /\ u = t
      BY <1>3, <1>8, <2>2, <3>2
    <3> QED BY <1>1, <2>2, <3>1, <3>2
  <2> QED BY <1>0, <1>4, <1>5, <2>1, <2>2 DEF UpToDate
<1> QED BY <1>0, <1>4, <1>6, <1>7, <1>8 DEF Norm

\* Nothing of the ticker t is sent, or what is read of it is too old.
LEMMA NormSendFrame ==
  ASSUME Typed, NEW L, Chron(L), Norm(L), NEW t \in Tickers, NEW number, number = next[t], NEW book,
         NEW M, M = Chronicle(L, t, number, book),
         sent' = sent + 1, UNCHANGED <<conn, up, n, cursors, newest, numbering>>
  PROVE  Norm(M)'
<1>1. number \in Nat
  BY DEF Typed
<1>2. Trusted /\ n.valid[t] => Latest(t) \in Nat /\ Latest(t) < number
  BY LatestBelow
<1> QED BY <1>1, <1>2, NormSend

LEMMA NormLose ==
  ASSUME Typed, NEW L, Chron(L), Norm(L),
         UNCHANGED <<conn, up, n, cursors, newest, numbering, sent>>
  PROVE  Norm(L)'
<1>1. /\ ScopesPast' = ScopesPast /\ LatestSeen' = LatestSeen /\ Scoped' = Scoped /\ OneTicker' = OneTicker
      /\ Trusted' = Trusted
      /\ \A u : Latest(u)' = Latest(u) /\ BookScope(u)' = BookScope(u)
  BY UnreadKept
<1>2. \A s, u : Sends(L, s, u)' <=> Sends(L, s, u)
  BY DEF Sends
<1>3. PayloadsSent(L)' <=> PayloadsSent(L)
  BY <1>1, <1>2 DEF PayloadsSent
<1>4. \A u : Current(L, u)' <=> Current(L, u)
  BY DEF Current
<1>5. Covered(L)' <=> Covered(L)
  BY <1>1, <1>4 DEF Covered
<1>6. \A u : UpToDate(L, u)' <=> UpToDate(L, u)
  BY <1>1, <1>2, <1>4 DEF UpToDate
<1> QED BY <1>1, <1>3, <1>5, <1>6 DEF Norm

\* A connection opens: nothing is known of it.
LEMMA NormConnect ==
  ASSUME Typed, NEW L, Chron(L), Norm(L), Connect, Alive'
  PROVE  Norm(L)'
<1>0. conn' = conn + 1 /\ conn \in Nat /\ up' = TRUE /\ ~up /\ sent' = sent /\ newest' = newest
  BY ReplayAssumption DEF Connect, Typed
<1>1. /\ n'.previous = n.previous /\ n'.payloads = n.payloads /\ n'.valid = n.valid
      /\ n'.reasons = n.reasons /\ n'.topology = n.topology
  BY ConnectBinds DEF Bound, Alive
<1>2. \A t \in Tickers : ~n'.valid[t]
  BY <1>0, <1>1 DEF Norm
<1>3. /\ \A p \in n.previous : p.key[1] \in 0..conn
      /\ \A p \in n.payloads : p.key[1][1] \in 0..conn
  BY DEF Norm, ScopesPast
<1>4. ScopesPast'
  <2>1. \A x : x \in 0..conn => x \in 0..(conn + 1)
    BY <1>0
  <2> QED BY <1>0, <1>1, <1>3 DEF ScopesPast
<1>11. ASSUME NEW sid, NEW t \in Tickers PROVE LatestIn(sid, t)' = None
  <2>1. Scope(sid, t)'[1] = conn + 1
    BY <1>0 DEF Scope
  <2>2. {p \in n.previous : p.key = Scope(sid, t)'} = {}
    BY <1>0, <1>3, <2>1
  <2>3. LatestIn(sid, t)' = Lookup(n.previous, Scope(sid, t)')
    BY <1>1 DEF LatestIn
  <2> QED BY <2>2, <2>3 DEF Lookup
<1>5. \A t \in Tickers : Latest(t)' = None
  BY <1>11 DEF LatestIn, Latest, BookScope
<1>6. Joint' = {}
  BY <1>0, <1>1, <1>3 DEF Joint
<1>7. OneTicker' /\ LatestSeen'
  BY <1>2, <1>6, <1>11 DEF OneTicker, LatestSeen
<1>12. Scoped'
  <2>1. \A p \in n.payloads : p.key[1][1] # conn + 1
    BY <1>0, <1>3
  <2> QED BY <1>0, <1>1, <2>1 DEF Norm, Scoped
<1>8. \A t \in Tickers : ~Current(L, t)'
  <2> SUFFICES ASSUME NEW t \in Tickers, newest[t].stamp # 0 PROVE L[newest[t].stamp].conn # conn + 1
    BY <1>0 DEF Current
  <2>1. newest[t].stamp \in 1..sent
    BY DEF Chron, NewestSent, Typed
  <2>2. L[newest[t].stamp].conn \in 0..conn
    BY <2>1 DEF Chron, Dated
  <2> QED BY <1>0, <2>2
<1>9. Covered(L)'
  BY <1>8 DEF Covered
<1>10. PayloadsSent(L)'
  <2>1. \A p \in n.payloads : p.value.type # "trade" =>
          p.value.ticker \in Tickers /\ p.value.stamp \in Nat /\ p.value.stamp <= newest[p.value.ticker].stamp
    BY DEF Norm, PayloadsSent
  <2>2. \A p \in n.payloads : p.key[1][1] # conn + 1
    BY <1>0, <1>3
  <2> QED BY <1>0, <1>1, <2>1, <2>2 DEF PayloadsSent
<1> QED BY <1>0, <1>2, <1>4, <1>7, <1>9, <1>10, <1>12 DEF Norm

\* A connection ends: no book is valid.
LEMMA NormDisconnect ==
  ASSUME Typed, NEW L, Chron(L), Norm(L), Disconnect
  PROVE  Norm(L)'
<1>0. /\ conn' = conn /\ up' = FALSE /\ sent' = sent /\ newest' = newest /\ numbering' = numbering
  BY DEF Disconnect, venueVars
<1>1. /\ n'.previous = n.previous /\ n'.payloads = n.payloads /\ n.reasons \subseteq n'.reasons
      /\ n'.topology = n.topology /\ \A t \in Tickers : ~n'.valid[t]
  <2>1. Ends
    BY EndReads DEF Disconnect
  <2> QED BY <2>1 DEF Ends, EndsAll, Continues
<1>2. /\ \A t : BookScope(t)' = BookScope(t) /\ Latest(t)' = Latest(t)
      /\ \A sid, t : LatestIn(sid, t)' = LatestIn(sid, t) /\ Scope(sid, t)' = Scope(sid, t)
  BY <1>0, <1>1 DEF Latest, BookScope, Scope, LatestIn
<1>3. ScopesPast' /\ LatestSeen' /\ Scoped'
  BY <1>0, <1>1, <1>2 DEF Norm, ScopesPast, LatestSeen, Scoped, FrameScope
<1>4. PayloadsSent(L)'
  <2>1. \A s, u : Sends(L, s, u)' <=> Sends(L, s, u)
    BY <1>0 DEF Sends
  <2> QED BY <1>0, <1>1, <1>2, <2>1 DEF Norm, PayloadsSent
<1>5. Joint' = Joint
  BY <1>0, <1>1 DEF Joint
<1>6. n'.reasons = {} => n.reasons = {}
  BY <1>1
<1>7. OneTicker'
  <2>1. OneTicker
    BY DEF Norm
  <2> QED BY <1>0, <1>1, <1>5, <1>6, <2>1 DEF OneTicker
<1>8. Trusted' => Trusted
  BY <1>0, <1>1, <1>6 DEF Trusted
<1>9. Trusted' => Covered(L)'
  <2>1. \A u : Current(L, u)' <=> Current(L, u)
    BY <1>0 DEF Current
  <2> QED BY <1>0, <1>2, <1>8, <2>1 DEF Norm, Covered
<1> QED BY <1>0, <1>1, <1>3, <1>4, <1>7, <1>9 DEF Norm

-----------------------------------------------------------------------------
(* 15. Delivering a frame.                                                     *)

\* Trust is only lost, and a book frame without a number loses it.
LEMMA TrustShrinks ==
  ASSUME NEW f, Accepts(n, n', FrameRecord(f)), numbering' = numbering, Trusted'
  PROVE  Trusted /\ (f.type \in {"orderbook_snapshot", "orderbook_delta"} => f.seq # None)
<1>1. FrameRecord(f).data = f
  BY DEF FrameRecord, Raw
<1>2. /\ n.reasons \subseteq n'.reasons
      /\ Unsequenced(f) => "RequiredSourceSequenceMissing" \in n'.reasons
  BY <1>1 DEF Accepts
<1>3. ~Unsequenced(f)
  BY <1>2 DEF Trusted
<1> QED BY <1>2, <1>3 DEF Trusted, Unsequenced, SequenceRequired

\* What an accepted frame adds to the sequences, and a book frame to the book's.
Keyed(f) == [key |-> <<FrameScope(f), f.seq>>, value |-> f]
Advances(L, f) ==
  /\ \A sid \in Sids, u \in Tickers :
       /\ Scope(sid, u)' = Scope(sid, u)
       /\ LatestIn(sid, u)' = IF f.seq # None /\ Scope(sid, u) = FrameScope(f) THEN f.seq ELSE LatestIn(sid, u)
  /\ \A u \in Tickers : BookScope(u)' = BookScope(u)
  /\ f.sid \in Sids /\ f.ticker \in Tickers
  /\ f.seq = None => n'.payloads = n.payloads /\ n'.previous = n.previous
  /\ f.seq # None =>
       /\ f.seq \in Nat
       /\ n'.payloads = n.payloads \union {Keyed(f)}
       /\ \A p \in n.payloads : p.key # <<FrameScope(f), f.seq>>
       /\ n'.previous = Assign(n.previous, FrameScope(f), f.seq)
       /\ LatestIn(f.sid, f.ticker) # None =>
            LatestIn(f.sid, f.ticker) \in Nat /\ LatestIn(f.sid, f.ticker) < f.seq
  /\ IsGap(n, FrameRecord(f)) <=>
       f.seq # None /\ LatestIn(f.sid, f.ticker) # None /\ f.seq > LatestIn(f.sid, f.ticker) + 1
AdvancesBook(L, f) ==
  /\ \A u \in Tickers :
       Latest(u)' = IF f.type # "trade" /\ f.seq # None /\ BookScope(u) = BookScope(f.ticker)
                      THEN f.seq ELSE Latest(u)
  /\ f.type # "trade" =>
       /\ FrameScope(f) = BookScope(f.ticker)
       /\ f.seq # None =>
            /\ Sends(L, f.stamp, f.ticker) /\ f.seq = L[f.stamp].number
            /\ Latest(f.ticker) # None => Latest(f.ticker) \in Nat /\ Latest(f.ticker) < f.seq
       /\ IsGap(n, FrameRecord(f)) <=> f.seq # None /\ Latest(f.ticker) # None /\ f.seq > Latest(f.ticker) + 1

LEMMA AcceptedAdvances ==
  ASSUME Typed, NEW L, Norm(L), NEW f \in wire, Accepts(n, n', FrameRecord(f)), conn' = conn
  PROVE  Advances(L, f)
<1> DEFINE r == FrameRecord(f)
<1>1. r.data = f /\ r.conn = conn /\ IsFrame(f) /\ n'.topology = n.topology
  BY DEF FrameRecord, Raw, Typed, Accepts, Continues
<1>2. /\ Prior(n, r) = {} /\ ~IsRegression(n, r)
      /\ n'.previous = IF f.seq = None THEN n.previous ELSE Assign(n.previous, SequenceScope(n, r), f.seq)
      /\ n'.payloads = IF f.seq = None THEN n.payloads ELSE Assign(n.payloads, <<SequenceScope(n, r), f.seq>>, f)
  BY <1>1 DEF Accepts
<1> HIDE DEF r
<1>3. SequenceScope(n, r) = FrameScope(f) /\ f.sid \in Sids /\ f.ticker \in Tickers /\ f.seq \in Nat \union {None}
  BY <1>1 DEF IsFrame, SequenceScope, FrameScope, Scope, Sids
<1>4. \A sid, u : Scope(sid, u)' = Scope(sid, u)
  BY <1>1 DEF Scope
<1>5. ASSUME NEW sid \in Sids, NEW u \in Tickers
      PROVE  LatestIn(sid, u)' = IF f.seq # None /\ Scope(sid, u) = FrameScope(f) THEN f.seq ELSE LatestIn(sid, u)
  <2>1. LatestIn(sid, u)' = Lookup(n'.previous, Scope(sid, u))
    BY <1>4 DEF LatestIn
  <2>2. CASE f.seq = None
    BY <1>2, <2>1, <2>2 DEF LatestIn
  <2>3. CASE f.seq # None
    <3>1. n'.previous = Assign(n.previous, FrameScope(f), f.seq)
      BY <1>2, <1>3, <2>3
    <3>2. Lookup(n'.previous, Scope(sid, u))
            = IF Scope(sid, u) = FrameScope(f) THEN f.seq ELSE Lookup(n.previous, Scope(sid, u))
      BY <3>1, LookupAssigned
    <3> QED BY <2>1, <2>3, <3>2 DEF LatestIn
  <2> QED BY <2>2, <2>3
<1>6. IsGap(n, r) <=> f.seq # None /\ LatestIn(f.sid, f.ticker) # None /\ f.seq > LatestIn(f.sid, f.ticker) + 1
  BY <1>1, <1>3 DEF IsGap, LatestIn, FrameScope
<1>7. ASSUME f.seq # None
      PROVE  /\ f.seq \in Nat
             /\ \A p \in n.payloads : p.key # <<FrameScope(f), f.seq>>
             /\ n'.payloads = n.payloads \union {Keyed(f)}
             /\ LatestIn(f.sid, f.ticker) # None =>
                  LatestIn(f.sid, f.ticker) \in Nat /\ LatestIn(f.sid, f.ticker) < f.seq
  <2>2. f.seq \in Nat
    BY <1>3, <1>7
  <2>3. \A p \in n.payloads : p.key # <<FrameScope(f), f.seq>>
    BY <1>1, <1>2, <1>3, <1>7 DEF Prior
  <2>4. n'.payloads = n.payloads \union {Keyed(f)}
    <3> DEFINE key == <<FrameScope(f), f.seq>>
    <3>1. \A p \in n.payloads : p.key # key
      BY <2>3
    <3>2. n'.payloads = Assign(n.payloads, key, f)
      BY <1>2, <1>3, <1>7
    <3> HIDE DEF key
    <3>3. n'.payloads = n.payloads \union {[key |-> key, value |-> f]}
      BY <3>1, <3>2 DEF Assign
    <3> QED BY <3>3 DEF key, Keyed
  <2>5. ASSUME LatestIn(f.sid, f.ticker) # None
        PROVE  LatestIn(f.sid, f.ticker) \in Nat /\ LatestIn(f.sid, f.ticker) < f.seq
    <3>1. LatestSeen /\ Scoped
      BY DEF Norm
    <3>2. PICK p \in n.payloads : p.key = <<FrameScope(f), LatestIn(f.sid, f.ticker)>>
      BY <1>3, <2>5, <3>1 DEF LatestSeen, FrameScope
    <3>3. LatestIn(f.sid, f.ticker) \in Nat
      <4>1. p.key[2] \in Nat /\ p.key[2] = LatestIn(f.sid, f.ticker)
        BY <3>1, <3>2 DEF Scoped
      <4> QED BY <4>1
    <3>4. LatestIn(f.sid, f.ticker) # f.seq
      BY <2>3, <3>2
    <3>5. ~ (f.seq < LatestIn(f.sid, f.ticker))
      BY <1>1, <1>2, <1>3, <1>7, <2>5 DEF IsRegression, LatestIn, FrameScope
    <3> QED BY <2>2, <3>3, <3>4, <3>5
  <2> QED BY <2>2, <2>3, <2>4, <2>5
<1>8. f.seq = None => n'.payloads = n.payloads /\ n'.previous = n.previous
  BY <1>2
<1>9. f.seq # None => n'.previous = Assign(n.previous, FrameScope(f), f.seq)
  BY <1>2, <1>3
<1>10. r = FrameRecord(f)
  BY DEF r
<1>11. \A u : BookScope(u)' = BookScope(u)
  BY <1>4 DEF BookScope
<1> HIDE DEF r
<1> QED BY <1>3, <1>4, <1>5, <1>6, <1>7, <1>8, <1>9, <1>10, <1>11 DEF Advances

LEMMA AcceptedAdvancesBook ==
  ASSUME Typed, NEW L, Chron(L), NEW f \in wire, Advances(L, f)
  PROVE  AdvancesBook(L, f)
<1>1. IsFrame(f) /\ f.ticker \in Tickers
  BY DEF Typed, IsFrame
<1>2. BookSid # TradeSid
  BY DEF BookSid, TradeSid
<1>3. f.type # "trade" => FrameScope(f) = BookScope(f.ticker) /\ LatestIn(f.sid, f.ticker) = Latest(f.ticker)
  BY <1>1 DEF IsFrame, FrameScope, BookScope, LatestIn, Latest
<1>4. f.type = "trade" => \A u : BookScope(u) # FrameScope(f)
  BY <1>1, <1>2 DEF IsFrame, FrameScope, BookScope, Scope
<1>5. ASSUME NEW u \in Tickers
      PROVE  Latest(u)' = IF f.type # "trade" /\ f.seq # None /\ BookScope(u) = BookScope(f.ticker)
                            THEN f.seq ELSE Latest(u)
  <2>1. Latest(u)' = IF f.seq # None /\ BookScope(u) = FrameScope(f) THEN f.seq ELSE Latest(u)
    <3>1. Latest(u)' = LatestIn(BookSid, u)' /\ Latest(u) = LatestIn(BookSid, u)
      BY DEF Latest, LatestIn, BookScope
    <3> QED BY <3>1 DEF Advances, Sids, BookScope
  <2> QED BY <1>3, <1>4, <2>1
<1>6. ASSUME f.type # "trade", f.seq # None PROVE Sends(L, f.stamp, f.ticker) /\ f.seq = L[f.stamp].number
  BY <1>6 DEF Chron, InFlight
<1> QED BY <1>3, <1>5, <1>6 DEF Advances, AdvancesBook

\* Numbers order the frames of a ticker as their stamps do.
LEMMA NumbersOrder ==
  ASSUME Typed, NEW L, Chron(L), NEW t \in Tickers, NEW u \in Tickers, t = u \/ numbering = "shared",
         NEW s, Sends(L, s, t), NEW r, Sends(L, r, u), L[s].number <= L[r].number
  PROVE  s <= r
<1>1. s \in 1..sent /\ r \in 1..sent /\ sent \in Nat
  BY DEF Sends, Typed
<1>2. L[s].number \in Nat /\ L[r].number \in Nat
  BY <1>1 DEF Chron, Dated
<1>3. r < s => L[r].number < L[s].number
  BY <1>1 DEF Chron, Increasing
<1> QED BY <1>1, <1>2, <1>3

\* An accepted book frame is the newest of its ticker.
LEMMA AcceptedIsNewest ==
  ASSUME Typed, NEW L, Chron(L), Norm(L), Trusted, NEW f \in wire, AdvancesBook(L, f), f.seq # None,
         f.type # "trade"
  PROVE  newest[f.ticker].stamp \in Nat /\ newest[f.ticker].stamp < f.stamp
<1> DEFINE t == f.ticker
           s == newest[t].stamp
<1>0. t \in Tickers /\ f.stamp \in 1..sent /\ sent \in Nat /\ Sends(L, f.stamp, t) /\ conn \in Nat
      /\ f.seq = L[f.stamp].number
  BY ReplayAssumption DEF Typed, IsFrame, AdvancesBook, Sends
<1>1. s \in 0..sent /\ (s # 0 => L[s].ticker = t)
  BY <1>0 DEF Chron, NewestSent
<1>2. SUFFICES ASSUME f.stamp <= s PROVE FALSE
  BY <1>0, <1>1
<1> HIDE DEF s, t
<1>3. s \in 1..sent
  BY <1>0, <1>1, <1>2
<1>4. L[s].conn = conn
  <2>1. L[f.stamp].conn = conn
    BY <1>0 DEF Sends
  <2>2. f.stamp < s => L[f.stamp].conn <= L[s].conn
    BY <1>0, <1>3 DEF Chron, Dated
  <2>3. L[s].conn \in 0..conn
    BY <1>3 DEF Chron, Dated
  <2> QED BY <1>0, <1>2, <1>3, <2>1, <2>2, <2>3
<1>5. Sends(L, s, t) /\ Current(L, t)
  BY <1>0, <1>1, <1>3, <1>4 DEF Sends, Current, s
<1>6. Latest(t) # None /\ L[s].number <= Latest(t)
  BY <1>0, <1>5 DEF Norm, Covered, s
<1>7. Latest(t) \in Nat /\ Latest(t) < L[f.stamp].number
  BY <1>0, <1>6 DEF AdvancesBook, t
<1>8. L[s].number \in Nat /\ L[f.stamp].number \in Nat
  BY <1>0, <1>3 DEF Chron, Dated
<1>9. s <= f.stamp
  BY <1>0, <1>5, <1>6, <1>7, <1>8, NumbersOrder
<1>10. s = f.stamp
  BY <1>0, <1>2, <1>3, <1>9
<1> QED BY <1>6, <1>7, <1>8, <1>10

LEMMA AcceptedOneTicker ==
  ASSUME Typed, NEW L, Chron(L), Norm(L), NEW f \in wire, Accepts(n, n', FrameRecord(f)), Advances(L, f),
         conn' = conn, numbering' = numbering
  PROVE  OneTicker'
<1> SUFFICES ASSUME numbering = "perTicker", n'.topology # "independent", n'.reasons = {}
             PROVE  /\ \A p, q \in Joint' : p.value.ticker = q.value.ticker
                    /\ Joint' # {} => \E p \in Joint' : p.key[2] = 1
                    /\ \A t \in Tickers : n'.valid[t] => \E p \in Joint' : p.value.ticker = t
  BY DEF OneTicker
<1> DEFINE r == FrameRecord(f)
           t == f.ticker
           q == [key |-> <<BookScope(t), f.seq>>, value |-> f]
<1>10. f.type # "trade" => FrameScope(f) = BookScope(t)
  BY AcceptedAdvancesBook DEF AdvancesBook
<1>0. r.data = f /\ IsFrame(f) /\ n.topology # "independent" /\ t \in Tickers
  BY DEF FrameRecord, Raw, Typed, IsFrame, Accepts, Continues
<1>1. /\ n.reasons = {} /\ ~Unsequenced(f)
      /\ f.type = "orderbook_delta" => Still(n, r, t)
  <2>1. n'.reasons = n.reasons \union (IF Unsequenced(f) THEN {"RequiredSourceSequenceMissing"} ELSE {})
                               \union (IF IsDelta(f) /\ ~Still(n, r, t) THEN {"DeltaBeforeRecovery"} ELSE {})
    BY <1>0 DEF Accepts
  <2> HIDE DEF r
  <2> QED BY <2>1 DEF IsDelta
<1>2. /\ \A p, s \in Joint : p.value.ticker = s.value.ticker
      /\ Joint # {} => \E p \in Joint : p.key[2] = 1
      /\ \A u \in Tickers : n.valid[u] => \E p \in Joint : p.value.ticker = u
  BY <1>0, <1>1 DEF Norm, OneTicker
<1>3. \A u \in Tickers :
        LET ends == IsGap(n, r) /\ u \in Affected(n, f)
        IN ~ (f.type = "orderbook_snapshot" /\ u = t) => n'.valid[u] = (n.valid[u] /\ ~ (ends /\ f.type # "trade"))
  BY AcceptedBook
<1>4. f.type = "orderbook_delta" => n.valid[t]
  BY <1>1 DEF Still
<1> HIDE DEF r
<1>5. \A u \in Tickers : n'.valid[u] => n.valid[u] \/ (f.type = "orderbook_snapshot" /\ u = t)
  BY <1>3
<1>6. CASE f.type = "trade"
  <2>1. <<conn, BookSid, None>> # FrameScope(f)
    BY <1>0, <1>6 DEF FrameScope, Scope, IsFrame, BookSid, TradeSid
  <2>2. Joint' = Joint
    <3>1. CASE f.seq = None
      BY <3>1 DEF Advances, Joint
    <3>2. CASE f.seq # None
      <4>1. n'.payloads = n.payloads \union {Keyed(f)} /\ Keyed(f).key[1] = FrameScope(f)
        BY <3>2 DEF Advances, Keyed
      <4> QED BY <2>1, <4>1 DEF Joint
    <3> QED BY <3>1, <3>2
  <2> QED BY <1>2, <1>5, <1>6, <2>2
<1>7. ASSUME f.type # "trade"
      PROVE  /\ f.seq # None /\ Joint' = Joint \union {q} /\ q.value.ticker = t /\ q.key[2] = f.seq
             /\ \A p \in n.payloads : p.key # q.key
  <2>1. f.seq # None
    BY <1>1, <1>7 DEF Unsequenced, SequenceRequired, IsFrame, Typed, EventTypes
  <2>2. n'.payloads = n.payloads \union {q} /\ \A p \in n.payloads : p.key # q.key
    BY <1>7, <1>10, <2>1 DEF Advances, Keyed
  <2>3. q.key[1] = <<conn, BookSid, None>>
    BY <1>0 DEF BookScope, Scope
  <2> QED BY <2>1, <2>2, <2>3 DEF Joint
<1>8. CASE f.type = "orderbook_delta"
  <2>1. PICK p \in Joint : p.value.ticker = t
    BY <1>0, <1>2, <1>4, <1>8
  <2>2. /\ Joint' = Joint \union {q} /\ q.value.ticker = t
    BY <1>7, <1>8
  <2> HIDE DEF q, t
  <2> QED BY <1>2, <1>5, <1>8, <2>1, <2>2
<1>9. CASE f.type = "orderbook_snapshot"
  <2>1. /\ f.seq # None /\ Joint' = Joint \union {q} /\ q.value.ticker = t /\ q.key[2] = f.seq
        /\ \A p \in n.payloads : p.key # q.key
    BY <1>7, <1>9
  <2>2. f.seq = 1
    <3>1. First(L, f)
      BY <1>9 DEF Chron, InFlight
    <3> QED BY <1>9, <2>1, <3>1, AcceptedAdvancesBook DEF First, AdvancesBook
  <2>3. Joint = {}
    <3> SUFFICES ASSUME NEW x \in Joint PROVE FALSE
      OBVIOUS
    <3>1. PICK p \in Joint : p.key[2] = 1
      BY <1>2
    <3>2. p \in n.payloads /\ p.key[1] = <<conn, BookSid, None>>
      BY <3>1 DEF Joint
    <3>3. p.key[1][1] = conn /\ p.value.type # "trade"
      <4>1. p.key[1] = BookScope(t)
        BY <1>0, <3>2 DEF BookScope, Scope
      <4> QED BY <3>2, <4>1, BookPayload DEF Norm
    <3>4. p.key = <<BookScope(p.value.ticker), L[p.value.stamp].number>>
      BY <3>2, <3>3 DEF Norm, PayloadsSent
    <3>5. p.key = <<<<conn, BookSid, None>>, 1>>
      BY <3>1, <3>2, <3>4
    <3>6. q.key = <<<<conn, BookSid, None>>, 1>>
      BY <1>0, <2>2 DEF BookScope, Scope
    <3> QED BY <2>1, <3>2, <3>5, <3>6
  <2>4. \A u \in Tickers : n'.valid[u] => u = t
    BY <1>2, <1>5, <2>3
  <2> HIDE DEF q, t
  <2> QED BY <2>1, <2>2, <2>3, <2>4
<1> QED BY <1>0, <1>6, <1>8, <1>9 DEF IsFrame, EventTypes

\* The newest frames after a delivery.
Newer(f) ==
  \A t \in Tickers : newest'[t] =
    IF f.type # "trade" /\ t = f.ticker /\ f.stamp > newest[t].stamp
      THEN [stamp |-> f.stamp, book |-> f.book] ELSE newest[t]

LEMMA PayloadsDelivered ==
  ASSUME Typed, NEW L, Chron(L), Norm(L), NEW f \in wire, Newer(f), Advances(L, f),
         conn' = conn, \A s, t : Sends(L, s, t)' <=> Sends(L, s, t)
  PROVE  PayloadsSent(L)'
<1>0. \A t \in Tickers : BookScope(t)' = BookScope(t)
  BY DEF Advances
<1>1. ASSUME NEW t \in Tickers
      PROVE  newest[t].stamp \in Nat /\ newest'[t].stamp \in Nat /\ newest[t].stamp <= newest'[t].stamp
  <2>1. newest[t].stamp \in Nat /\ f.stamp \in Nat
    BY DEF Chron, NewestSent, Typed, IsFrame
  <2> QED BY <2>1 DEF Newer
<1>2. ASSUME NEW p \in n.payloads, p.value.type # "trade"
      PROVE  /\ p.value.ticker \in Tickers /\ p.value.stamp \in Nat /\ p.value.stamp <= newest'[p.value.ticker].stamp
             /\ p.key[1][1] = conn =>
                  /\ Sends(L, p.value.stamp, p.value.ticker)
                  /\ p.key = <<BookScope(p.value.ticker), L[p.value.stamp].number>>
  <2>1. /\ p.value.ticker \in Tickers /\ p.value.stamp \in Nat /\ p.value.stamp <= newest[p.value.ticker].stamp
        /\ p.key[1][1] = conn =>
             /\ Sends(L, p.value.stamp, p.value.ticker)
             /\ p.key = <<BookScope(p.value.ticker), L[p.value.stamp].number>>
    BY <1>2 DEF Norm, PayloadsSent
  <2> QED BY <1>1, <2>1
<1>3. ASSUME f.seq # None, f.type # "trade"
      PROVE  /\ FrameScope(f) = BookScope(f.ticker)
             /\ f.ticker \in Tickers /\ f.stamp \in Nat /\ f.stamp <= newest'[f.ticker].stamp /\ Sends(L, f.stamp, f.ticker)
             /\ f.seq = L[f.stamp].number
  <2>1. f.ticker \in Tickers /\ f.stamp \in Nat
    BY DEF Typed, IsFrame
  <2>2. Sends(L, f.stamp, f.ticker) /\ f.seq = L[f.stamp].number /\ FrameScope(f) = BookScope(f.ticker)
    BY <1>3, AcceptedAdvancesBook DEF AdvancesBook
  <2>3. newest[f.ticker].stamp \in Nat
    BY <1>1, <2>1
  <2> QED BY <1>3, <2>1, <2>2, <2>3 DEF Newer
<1>4. CASE f.seq = None
  BY <1>0, <1>2, <1>4 DEF Advances, PayloadsSent
<1>5. CASE f.seq # None
  <2>1. n'.payloads = n.payloads \union {Keyed(f)}
        /\ Keyed(f).value = f /\ Keyed(f).key = <<FrameScope(f), f.seq>>
    BY <1>5 DEF Advances, Keyed
  <2> SUFFICES ASSUME NEW p \in n'.payloads, p.value.type # "trade"
               PROVE  /\ p.value.ticker \in Tickers /\ p.value.stamp \in Nat
                      /\ p.value.stamp <= newest'[p.value.ticker].stamp
                      /\ p.key[1][1] = conn =>
                           /\ Sends(L, p.value.stamp, p.value.ticker)
                           /\ p.key = <<BookScope(p.value.ticker)', L[p.value.stamp].number>>
    BY DEF PayloadsSent
  <2>2. CASE p \in n.payloads
    BY <1>0, <1>2, <2>2
  <2>3. CASE p = Keyed(f)
    BY <1>0, <1>3, <1>5, <2>1, <2>3
  <2> QED BY <2>1, <2>2, <2>3
<1> QED BY <1>4, <1>5

LEMMA CoveredAfter ==
  ASSUME Typed, NEW L, Chron(L), Norm(L), NEW f \in wire, Accepts(n, n', FrameRecord(f)), Newer(f), Advances(L, f),
         conn' = conn, numbering' = numbering, Trusted'
  PROVE  Covered(L)'
<1>1. Trusted /\ (f.type # "trade" => f.seq # None)
  BY TrustShrinks DEF Typed, IsFrame, EventTypes
<1> SUFFICES ASSUME NEW t \in Tickers, Current(L, t)'
             PROVE  Latest(t)' # None /\ L[newest'[t].stamp].number <= Latest(t)'
  BY DEF Covered
<1>0. f.ticker \in Tickers
  BY DEF Typed, IsFrame
<1>2. CASE newest'[t] = newest[t]
  <2>1. Current(L, t)
    BY <1>2 DEF Current
  <2>2. Latest(t) # None /\ L[newest[t].stamp].number <= Latest(t) /\ L[newest[t].stamp].number \in Nat
    <3>1. newest[t].stamp \in 1..sent
      BY <2>1 DEF Current, Chron, NewestSent, Typed
    <3> QED BY <1>1, <2>1, <3>1 DEF Norm, Covered, Chron, Dated
  <2>3. CASE Latest(t)' = Latest(t)
    BY <1>2, <2>2, <2>3
  <2>4. CASE f.type # "trade" /\ f.seq # None /\ BookScope(t) = BookScope(f.ticker) /\ Latest(t)' = f.seq
    <3>1. Latest(f.ticker) = Latest(t)
      BY <2>4 DEF Latest
    <3>2. Latest(t) \in Nat /\ Latest(t) < f.seq /\ f.seq \in Nat
      BY <2>2, <2>4, <3>1, AcceptedAdvancesBook DEF Advances, AdvancesBook
    <3>3. f.seq # None
      BY <2>4
    <3> HIDE DEF Latest, BookScope, Scope
    <3>4. L[newest[t].stamp].number <= f.seq
      BY <2>2, <3>2
    <3> QED BY <1>2, <2>4, <3>3, <3>4
  <2> QED BY <2>3, <2>4, AcceptedAdvancesBook DEF AdvancesBook
<1>3. CASE newest'[t] # newest[t]
  <2>1. f.type # "trade" /\ t = f.ticker /\ newest'[t] = [stamp |-> f.stamp, book |-> f.book]
    BY <1>3 DEF Newer
  <2>2. Latest(t)' = f.seq /\ f.seq # None /\ f.seq = L[f.stamp].number /\ f.seq \in Nat
    BY <1>1, <2>1, AcceptedAdvancesBook DEF Advances, AdvancesBook
  <2> QED BY <2>1, <2>2
<1> QED BY <1>2, <1>3

\* A delta that follows no gap changes the newest book of its ticker.
LEMMA DeltaContinues ==
  ASSUME Typed, NEW L, Chron(L), Norm(L), Trusted, NEW f \in wire, Advances(L, f), f.seq # None,
         AdvancesBook(L, f), IsDelta(f), ~IsGap(n, FrameRecord(f)), n.valid[f.ticker]
  PROVE  f.book = [newest[f.ticker].book EXCEPT ![f.body.level] = @ + f.body.change]
<1> DEFINE t == f.ticker
           r == FrameRecord(f)
           s == newest[t].stamp
<1>0. t \in Tickers /\ f.stamp \in Nat
  BY DEF Typed, IsFrame
<1>1. /\ Sends(L, f.stamp, t) /\ f.seq = L[f.stamp].number /\ f.seq \in Nat
      /\ Latest(t) # None => Latest(t) \in Nat /\ Latest(t) < f.seq
      /\ IsGap(n, r) <=> Latest(t) # None /\ f.seq > Latest(t) + 1
  BY DEF Advances, AdvancesBook, IsDelta
<1>2. s \in Nat /\ s < f.stamp
  BY AcceptedIsNewest DEF IsDelta
<1>3. UpToDate(L, t)
  BY <1>0 DEF Norm
<1>4. f.seq = Latest(t) + 1 /\ Latest(t) \in Nat
  <2>1. Latest(t) # None /\ ~IsGap(n, r)
    BY <1>3 DEF UpToDate
  <2> HIDE DEF r, t
  <2> QED BY <1>1, <2>1
<1>5. PICK p \in 1..sent : Predecessor(L, f, p)
  <2>1. f.type # "trade"
    BY DEF IsDelta
  <2> QED BY <2>1 DEF Chron, InFlight, IsDelta
<1>6. Sends(L, s, t)
  <2>1. s # 0 /\ L[s].conn = conn
    BY <1>3 DEF UpToDate, Current
  <2>2. s \in 0..sent /\ L[s].ticker = t
    BY <1>0, <2>1 DEF Chron, NewestSent
  <2> HIDE DEF s, t
  <2>3. s \in 1..sent
    BY <2>1, <2>2
  <2> QED BY <2>1, <2>2, <2>3 DEF Sends
<1>7. s <= p
  <2>1. s \in 1..sent
    BY <1>6 DEF Sends
  <2>2. s <= p \/ s >= f.stamp
    BY <1>5, <1>6, <2>1 DEF Predecessor
  <2> QED BY <1>0, <1>2, <2>2
<1>8. p <= s
  <2>1. Sends(L, p, t) /\ p < f.stamp
    BY <1>5 DEF Predecessor
  <2>2. L[p].number \in Nat
    BY <1>5 DEF Chron, Dated
  <2>3. L[p].number < L[f.stamp].number
    BY <1>0, <1>1, <2>1 DEF Chron, Increasing, Sends
  <2>4. L[p].number <= Latest(t)
    BY <1>1, <1>4, <2>2, <2>3
  <2> QED BY <1>3, <1>5, <2>1, <2>4 DEF UpToDate
<1>9. L[p].book = newest[t].book
  <2>1. p = s
    BY <1>2, <1>5, <1>7, <1>8
  <2>2. s # 0
    BY <1>5, <2>1
  <2> QED BY <1>0, <2>1, <2>2 DEF Chron, NewestSent
<1> QED BY <1>5, <1>9 DEF Predecessor

\* The frame's own book, when the frame is a snapshot or a delta of it.
LEMMA OwnBook ==
  ASSUME Typed, NEW L, Chron(L), Norm(L), Agree, NEW f \in wire, Accepts(n, n', FrameRecord(f)), Newer(f),
         Advances(L, f), UNCHANGED <<conn, numbering, up, sent>>, up, Trusted', f.type # "trade",
         \A s, t : Sends(L, s, t)' <=> Sends(L, s, t),
         n'.valid[f.ticker],
         FrameEffect(cursors[f.ticker], cursors'[f.ticker], TRUE,
                     IsGap(n, FrameRecord(f)) /\ f.ticker \in Affected(n, f), f, n'.segment[f.ticker])
  PROVE  UpToDate(L, f.ticker)'
<1> DEFINE t == f.ticker
           r == FrameRecord(f)
           c == cursors[t]
           d == cursors'[t]
           s == newest[t].stamp
<1>0. IsFrame(f) /\ t \in Tickers /\ f.stamp \in Nat /\ r.data = f /\ sent' = sent /\ conn' = conn
  BY DEF Typed, IsFrame, FrameRecord, Raw
<1>1. Trusted /\ f.seq # None
  BY <1>0, TrustShrinks DEF IsFrame, EventTypes
<1>12. AdvancesBook(L, f)
  BY AcceptedAdvancesBook
<1>2. s \in Nat /\ s < f.stamp
  BY <1>1, <1>12, AcceptedIsNewest
<1>3. newest'[t] = [stamp |-> f.stamp, book |-> f.book]
  BY <1>0, <1>2 DEF Newer
<1>4. /\ Sends(L, f.stamp, t) /\ f.seq = L[f.stamp].number /\ f.seq \in Nat /\ Latest(t)' = f.seq
      /\ Latest(t) # None => Latest(t) \in Nat /\ Latest(t) < f.seq
      /\ IsGap(n, r) <=> Latest(t) # None /\ f.seq > Latest(t) + 1
  BY <1>0, <1>1, <1>12 DEF Advances, AdvancesBook
<1>5. InFlight(L, f)
  BY DEF Chron
<1>6. Current(L, t)'
  <2>1. f.stamp # 0
    BY <1>0, <1>2
  <2> QED BY <1>0, <1>3, <1>4, <2>1 DEF Current, Sends
<1>7. ASSUME NEW x \in 1..sent, Sends(L, x, t), L[x].number <= f.seq PROVE x <= f.stamp
  BY <1>0, <1>4, <1>7, NumbersOrder
<1>8. ASSUME d.error = None PROVE d.projection.book = f.book
  <2>1. FrameEffect(c, d, TRUE, IsGap(n, r) /\ t \in Affected(n, f), f, n'.segment[t])
    OBVIOUS
  <2>2. c.error = None
    <3> HIDE DEF c, d
    <3> QED BY <1>8, <2>1 DEF FrameEffect
  <2>3. CASE f.type = "orderbook_snapshot"
    <3>1. Seeds(c, d, n'.segment[t], f.body)
      BY <1>8, <2>1, <2>2, <2>3 DEF FrameEffect
    <3>2. f.body.book = f.book
      BY <1>5, <2>3 DEF InFlight, First
    <3> QED BY <3>1, <3>2 DEF Seeds
  <2>4. CASE f.type = "orderbook_delta"
    <3>1. ~IsGap(n, r) \/ ~ (t \in Affected(n, f))
      BY <1>8, <2>1, <2>2, <2>4 DEF FrameEffect
    <3>2. Moves(c, d, f.body)
      BY <1>8, <2>1, <2>2, <2>4 DEF FrameEffect
    <3>3. t \in Affected(n, f)
      BY <1>0 DEF Affected
    <3>4. n.valid[t]
      <4>1. c.state = "valid"
        BY <3>2 DEF Moves
      <4> QED BY <1>0, <2>2, <4>1 DEF Agree
    <3>5. f.book = [newest[t].book EXCEPT ![f.body.level] = @ + f.body.change]
      BY <1>1, <1>12, <2>4, <3>1, <3>3, <3>4, DeltaContinues DEF IsDelta
    <3>6. c.projection.book = newest[t].book
      <4>1. c.state = "valid"
        BY <3>2 DEF Moves
      <4> QED BY <1>0, <1>1, <2>2, <3>4, <4>1 DEF Norm, UpToDate
    <3> QED BY <3>2, <3>5, <3>6 DEF Moves
  <2> QED BY <1>0, <2>3, <2>4 DEF IsFrame, EventTypes
<1>9. Latest(t)' # None /\ newest'[t].stamp = f.stamp /\ newest'[t].book = f.book
  BY <1>1, <1>3, <1>4
<1>10. \A x \in 1..sent : Sends(L, x, t)' /\ L[x].number <= Latest(t)' => x <= newest'[t].stamp
  BY <1>4, <1>7, <1>9
<1>11. d.error = None => d.projection.book = newest'[t].book
  BY <1>8, <1>9
<1> QED BY <1>0, <1>6, <1>9, <1>10, <1>11 DEF UpToDate

\* Any other book, and every book when the frame is a trade.
LEMMA OtherBook ==
  ASSUME Typed, NEW L, Chron(L), Norm(L), NEW f \in wire, Accepts(n, n', FrameRecord(f)), Newer(f),
         Advances(L, f), UNCHANGED <<conn, numbering, up, sent>>, Trusted', OneTicker',
         \A s, u : Sends(L, s, u)' <=> Sends(L, s, u),
         NEW t \in Tickers, t # f.ticker \/ f.type = "trade", n'.valid[t],
         FrameEffect(cursors[t], cursors'[t], t = f.ticker,
                     IsGap(n, FrameRecord(f)) /\ t \in Affected(n, f), f, n'.segment[f.ticker])
  PROVE  UpToDate(L, t)'
<1> DEFINE r == FrameRecord(f)
           ends == IsGap(n, r) /\ t \in Affected(n, f)
           c == cursors[t]
           d == cursors'[t]
<1>0. IsFrame(f) /\ f.ticker \in Tickers /\ r.data = f /\ UNCHANGED <<conn, numbering, up, sent>>
      /\ n'.topology = n.topology
  BY DEF Typed, IsFrame, FrameRecord, Raw, Accepts, Continues
<1>1. Trusted /\ (f.type # "trade" => f.seq # None)
  BY <1>0, TrustShrinks DEF IsFrame, EventTypes
<1>2. n.valid[t] /\ ~ (ends /\ f.type # "trade")
  <2>1. ~ (f.type = "orderbook_snapshot" /\ t = f.ticker) =>
          n'.valid[t] = (n.valid[t] /\ ~ (ends /\ f.type # "trade"))
    BY AcceptedBook
  <2> HIDE DEF ends
  <2> QED BY <2>1
<1>3. UpToDate(L, t)
  BY <1>1, <1>2 DEF Norm
<1>4. newest'[t] = newest[t]
  BY DEF Newer
<1>5. ASSUME d.error = None, d.state = "valid" PROVE d.projection.book = newest[t].book
  <2>1. FrameEffect(c, d, t = f.ticker, ends, f, n'.segment[f.ticker])
    OBVIOUS
  <2> HIDE DEF c, d, ends
  <2>2. c.error = None
    BY <1>5, <2>1 DEF FrameEffect
  <2>3. Trades(c, d)
    BY <1>2, <1>5, <2>1, <2>2 DEF FrameEffect
  <2>4. c.state = "valid"
    BY <1>5, <2>3 DEF Trades
  <2> QED BY <1>3, <2>2, <2>3, <2>4 DEF UpToDate, Trades, c
<1>6. Current(L, t)'
  BY <1>0, <1>3, <1>4 DEF UpToDate, Current
<1>7. CASE Latest(t)' = Latest(t)
  <2>1. \A s \in 1..sent : Sends(L, s, t)' /\ L[s].number <= Latest(t)' => s <= newest'[t].stamp
    BY <1>3, <1>4, <1>7 DEF UpToDate
  <2> QED BY <1>0, <1>3, <1>4, <1>5, <1>6, <1>7, <2>1 DEF UpToDate
<1>8. CASE f.type # "trade" /\ f.seq # None /\ BookScope(t) = BookScope(f.ticker) /\ Latest(t)' = f.seq
  <2>1. Latest(f.ticker) = Latest(t) /\ Latest(t) # None
    BY <1>3, <1>8 DEF Latest, UpToDate
  <2>2. /\ Sends(L, f.stamp, f.ticker) /\ f.seq = L[f.stamp].number /\ f.seq \in Nat /\ f.type # "trade"
        /\ Latest(t) \in Nat /\ Latest(t) < f.seq
        /\ IsGap(n, r) <=> f.seq > Latest(t) + 1
    BY <1>8, <2>1, AcceptedAdvancesBook DEF Advances, AdvancesBook
  <2>3. t # f.ticker /\ n.topology # "independent"
    BY <1>0, <1>8, <2>2, SameScope
  <2>4. f.seq = Latest(t) + 1
    <3>1. t \in Affected(n, f)
      BY <2>3 DEF Affected
    <3>2. ~IsGap(n, r)
      BY <1>2, <1>8, <3>1
    <3> HIDE DEF r, Latest
    <3> QED BY <2>2, <3>2
  <2>5. ASSUME NEW s \in 1..sent, Sends(L, s, t), L[s].number <= f.seq PROVE s <= newest[t].stamp
    <3>1. CASE numbering = "shared"
      <4>1. s <= f.stamp
        BY <1>0, <2>2, <2>5, <3>1, NumbersOrder
      <4>2. s # f.stamp
        BY <2>2, <2>3, <2>5 DEF Sends
      <4>3. f.stamp \in 1..sent /\ sent \in Nat
        BY <2>2 DEF Sends, Typed
      <4>4. L[s].number < L[f.stamp].number
        BY <1>0, <2>2, <2>5, <3>1, <4>1, <4>2, <4>3 DEF Chron, Increasing
      <4>5. L[s].number \in Nat
        BY <2>5 DEF Chron, Dated
      <4> HIDE DEF Latest
      <4>6. L[s].number <= Latest(t)
        BY <2>2, <2>4, <4>4, <4>5
      <4> QED BY <1>3, <2>5, <4>6 DEF UpToDate
    <3>2. CASE numbering # "shared"
      <4>1. n'.reasons = {} /\ numbering = "perTicker"
        BY <1>0, <3>2 DEF Trusted, Chron
      <4>2. /\ \A p, q \in Joint' : p.value.ticker = q.value.ticker
            /\ \A u \in Tickers : n'.valid[u] => \E p \in Joint' : p.value.ticker = u
        BY <1>0, <2>3, <4>1 DEF OneTicker
      <4>3. [key |-> <<BookScope(f.ticker), f.seq>>, value |-> f] \in Joint'
        <5>1. BookScope(f.ticker) = <<conn, BookSid, None>>
          BY <2>3 DEF BookScope, Scope
        <5>2. [key |-> <<BookScope(f.ticker), f.seq>>, value |-> f] \in n'.payloads
          BY <1>8, AcceptedAdvancesBook DEF Advances, AdvancesBook, Keyed
        <5> QED BY <1>0, <5>1, <5>2 DEF Joint
      <4>4. PICK p \in Joint' : p.value.ticker = t
        BY <4>2
      <4>5. p.value.ticker = f.ticker
        <5> DEFINE q == [key |-> <<BookScope(f.ticker), f.seq>>, value |-> f]
        <5>1. q \in Joint' /\ q.value.ticker = f.ticker
          BY <4>3
        <5> HIDE DEF q
        <5> QED BY <4>2, <4>4, <5>1
      <4> QED BY <2>3, <4>4, <4>5
    <3> QED BY <3>1, <3>2
  <2>6. Latest(t)' # None
    BY <1>8
  <2>7. \A s \in 1..sent : Sends(L, s, t)' /\ L[s].number <= Latest(t)' => s <= newest'[t].stamp
    BY <1>4, <1>8, <2>5
  <2> QED BY <1>0, <1>3, <1>4, <1>5, <1>6, <2>6, <2>7 DEF UpToDate
<1> QED BY <1>7, <1>8, AcceptedAdvancesBook DEF AdvancesBook

LEMMA NormDeliver ==
  ASSUME Typed, Alive, Agree, NEW L, Chron(L), Norm(L), NEW f \in wire, NEW again \in BOOLEAN,
         Deliver(f, again), Alive'
  PROVE  Norm(L)'
<1> DEFINE r == FrameRecord(f)
<1>0. UNCHANGED <<conn, numbering, up, sent>> /\ up
  BY DEF Deliver, venueVars
<1>1. Delivers(f)
  BY FrameReads DEF Deliver, FrameRecord
<1>2. (\A s, t : Sends(L, s, t)' <=> Sends(L, s, t)) /\ Newer(f)
  BY ChronDeliver DEF Newer
<1>3. ~Refused(n, n')
  BY DEF Refused, Alive
<1>4. CASE Skips(n, n', r) /\ cursors' = cursors
  <2>1. /\ n'.previous = n.previous /\ n'.payloads = n.payloads /\ n'.reasons = n.reasons
        /\ n'.valid = n.valid /\ n'.topology = n.topology
    BY <1>4 DEF Skips, Continues
  <2>2. \E p \in n.payloads : p.value = f
    <3>1. f \in Prior(n, r)
      BY <1>4 DEF Skips, FrameRecord, Raw
    <3> HIDE DEF r
    <3> QED BY <3>1 DEF Prior
  <2>3. f.type # "trade" => f.stamp \in Nat /\ f.stamp <= newest[f.ticker].stamp
    BY <2>2 DEF Norm, PayloadsSent
  <2>4. \A t \in Tickers : newest'[t] = newest[t]
    <3>1. \A t \in Tickers : newest[t].stamp \in 0..sent /\ sent \in Nat
      BY DEF Chron, NewestSent, Typed
    <3> QED BY <1>2, <2>3, <3>1 DEF Newer
  <2>5. /\ \A t : BookScope(t)' = BookScope(t) /\ Latest(t)' = Latest(t)
        /\ \A sid, t : Scope(sid, t)' = Scope(sid, t) /\ LatestIn(sid, t)' = LatestIn(sid, t)
    BY <1>0, <2>1 DEF BookScope, Scope, Latest, LatestIn
  <2>6. Joint' = Joint
    BY <1>0, <2>1 DEF Joint
  <2>7. ScopesPast' /\ LatestSeen' /\ Scoped'
    BY <1>0, <2>1, <2>5 DEF Norm, ScopesPast, LatestSeen, Scoped, FrameScope
  <2>8. OneTicker'
    <3>1. OneTicker
      BY DEF Norm
    <3> QED BY <1>0, <2>1, <2>6, <3>1 DEF OneTicker
  <2>9. PayloadsSent(L)'
    BY <1>0, <1>2, <2>1, <2>4, <2>5 DEF Norm, PayloadsSent
  <2>10. Trusted' <=> Trusted
    BY <1>0, <2>1 DEF Trusted
  <2>11. \A t \in Tickers : Current(L, t)' <=> Current(L, t)
    BY <1>0, <2>4 DEF Current
  <2>12. Trusted => Covered(L)'
    BY <2>4, <2>5, <2>11 DEF Norm, Covered
  <2>13. ASSUME NEW t \in Tickers, UpToDate(L, t) PROVE UpToDate(L, t)'
    BY <1>0, <1>2, <1>4, <2>4, <2>5, <2>11, <2>13 DEF UpToDate
  <2> QED BY <1>0, <2>1, <2>7, <2>8, <2>9, <2>10, <2>12, <2>13 DEF Norm
<1>5. CASE /\ Accepts(n, n', r) /\ DOMAIN cursors' = Tickers
           /\ \A t \in Tickers :
                FrameEffect(cursors[t], cursors'[t], t = f.ticker, IsGap(n, r) /\ t \in Affected(n, f), f,
                            n'.segment[f.ticker])
  <2>0. f.ticker \in Tickers /\ conn \in Nat
    BY ReplayAssumption DEF Typed, IsFrame
  <2>1. Advances(L, f)
    BY <1>0, <1>5, AcceptedAdvances
  <2>2. OneTicker'
    BY <1>0, <1>5, <2>1, AcceptedOneTicker
  <2>3. PayloadsSent(L)'
    BY <1>0, <1>2, <2>1, PayloadsDelivered
  <2>4. Trusted' => Covered(L)'
    BY <1>0, <1>2, <1>5, <2>1, CoveredAfter
  <2>5. ASSUME Trusted', NEW t \in Tickers, n'.valid[t] PROVE UpToDate(L, t)'
    <3>1. FrameEffect(cursors[t], cursors'[t], t = f.ticker, IsGap(n, r) /\ t \in Affected(n, f), f,
                      n'.segment[f.ticker])
      BY <1>5
    <3>2. CASE t = f.ticker /\ f.type # "trade"
      <4>1. FrameEffect(cursors[f.ticker], cursors'[f.ticker], TRUE,
                        IsGap(n, r) /\ f.ticker \in Affected(n, f), f, n'.segment[f.ticker])
        BY <3>1, <3>2
      <4>2. n'.valid[f.ticker]
        BY <2>5, <3>2
      <4> HIDE DEF r
      <4>3. UpToDate(L, f.ticker)'
        BY <1>0, <1>2, <1>5, <2>1, <2>5, <3>2, <4>1, <4>2, OwnBook DEF r
      <4> QED BY <3>2, <4>3
    <3>3. CASE t # f.ticker \/ f.type = "trade"
      BY <1>0, <1>2, <1>5, <2>1, <2>2, <2>5, <3>1, <3>3, OtherBook
    <3> QED BY <3>2, <3>3
  <2>6. ScopesPast'
    <3>1. FrameScope(f)[1] = conn
      BY DEF FrameScope, Scope
    <3>2. CASE f.seq = None
      BY <1>0, <2>1, <3>2 DEF Advances, Norm, ScopesPast
    <3>3. CASE f.seq # None
      <4>1. /\ n'.previous = Assign(n.previous, FrameScope(f), f.seq)
            /\ n'.payloads = n.payloads \union {Keyed(f)} /\ Keyed(f).key[1] = FrameScope(f)
        BY <2>1, <3>3 DEF Advances, Keyed
      <4>2. conn \in 0..conn
        BY <2>0
      <4>3. /\ \A p \in n.previous : p.key[1] \in 0..conn
            /\ \A p \in n.payloads : p.key[1][1] \in 0..conn
        BY DEF Norm, ScopesPast
      <4>4. \A p \in n'.previous : p.key[1] \in 0..conn
        BY <3>1, <4>1, <4>2, <4>3 DEF Assign
      <4>5. \A p \in n'.payloads : p.key[1][1] \in 0..conn
        BY <3>1, <4>1, <4>2, <4>3
      <4> QED BY <1>0, <4>4, <4>5 DEF ScopesPast
    <3> QED BY <3>2, <3>3
  <2>7. LatestSeen'
    <3> SUFFICES ASSUME NEW sid \in Sids, NEW t \in Tickers, LatestIn(sid, t)' # None
                 PROVE  \E p \in n'.payloads : p.key = <<Scope(sid, t), LatestIn(sid, t)'>>
      <4>1. \A sid \in Sids, t \in Tickers : Scope(sid, t)' = Scope(sid, t)
        BY <2>1 DEF Advances
      <4> QED BY <4>1, Zenon DEF LatestSeen
    <3>1. CASE LatestIn(sid, t)' = LatestIn(sid, t)
      <4>1. PICK p \in n.payloads : p.key = <<Scope(sid, t), LatestIn(sid, t)>>
        BY <3>1 DEF Norm, LatestSeen
      <4>2. p \in n'.payloads
        BY <2>1 DEF Advances
      <4> QED BY <3>1, <4>1, <4>2
    <3>2. CASE f.seq # None /\ Scope(sid, t) = FrameScope(f) /\ LatestIn(sid, t)' = f.seq
      <4>1. Keyed(f) \in n'.payloads
        BY <2>1, <3>2 DEF Advances
      <4>2. Keyed(f).key = <<Scope(sid, t), LatestIn(sid, t)'>>
        BY <3>2 DEF Keyed
      <4> QED BY <4>1, <4>2
    <3> QED BY <2>1, <3>1, <3>2 DEF Advances
  <2>8. Scoped'
    <3>1. /\ f.sid = (IF f.type = "trade" THEN TradeSid ELSE BookSid)
          /\ \A u \in Tickers : \A sid \in Sids : Scope(sid, u)' = Scope(sid, u)
      BY <2>1 DEF Typed, IsFrame, Advances
    <3>2. ASSUME NEW p \in n.payloads
          PROVE  /\ p.value.ticker \in Tickers /\ p.key[2] \in Nat
                 /\ p.value.sid = (IF p.value.type = "trade" THEN TradeSid ELSE BookSid)
                 /\ p.key[1][1] = conn' => p.key[1] = FrameScope(p.value)'
      <4>1. /\ p.value.ticker \in Tickers /\ p.key[2] \in Nat
            /\ p.value.sid = (IF p.value.type = "trade" THEN TradeSid ELSE BookSid)
            /\ p.key[1][1] = conn => p.key[1] = FrameScope(p.value)
        BY DEF Norm, Scoped
      <4>2. FrameScope(p.value)' = FrameScope(p.value)
        BY <3>1, <4>1 DEF FrameScope, Sids
      <4> QED BY <1>0, <4>1, <4>2
    <3>3. CASE f.seq = None
      <4>1. n'.payloads = n.payloads
        BY <2>1, <3>3 DEF Advances
      <4> QED BY <3>2, <4>1 DEF Scoped
    <3>4. CASE f.seq # None
      <4>1. /\ n'.payloads = n.payloads \union {Keyed(f)} /\ f.seq \in Nat
            /\ Keyed(f).key[1] = FrameScope(f) /\ Keyed(f).key[2] = f.seq /\ Keyed(f).value = f
        BY <2>1, <3>4 DEF Advances, Keyed
      <4>2. FrameScope(f)' = FrameScope(f)
        BY <2>0, <2>1 DEF FrameScope, Advances
      <4> HIDE DEF Keyed
      <4> QED BY <2>0, <3>1, <3>2, <4>1, <4>2 DEF Scoped
    <3> QED BY <3>3, <3>4
  <2> QED BY <1>0, <2>2, <2>3, <2>4, <2>5, <2>6, <2>7, <2>8 DEF Norm
<1> QED BY <1>1, <1>3, <1>4, <1>5 DEF Delivers

-----------------------------------------------------------------------------
(* 16. A shown book is true.                                                   *)

\* Some chronicle explains what the network carries, the normalizer knows and
\* the cursors show.
Told == \E L : Chron(L) /\ (Alive => Norm(L))
IInv == Typed /\ (Alive => Agree) /\ Told

LEMMA InitInv == Init => IInv
<1> SUFFICES ASSUME Init PROVE IInv
  OBVIOUS
<1>1. Typed
  BY InitTyped
<1>2. PICK policy \in Policies, topology \in Declared : n = Start(policy, topology)
  BY DEF Init
<1>3. /\ \A t \in Tickers : n.valid[t] = FALSE
      /\ n.previous = {} /\ n.payloads = {}
  BY <1>2 DEF Start
<1>4. \A t \in Tickers : cursors[t].state # "valid"
  <2>1. \A t, m : NewCursor(t, m).state = "awaiting_initial_snapshot"
    BY DEF NewCursor
  <2> QED BY <2>1 DEF Init
<1>5. Agree
  BY <1>3, <1>4 DEF Agree
<1>6. /\ sent = 0 /\ conn = 0 /\ opened = {} /\ wire = {} /\ numbering \in {"shared", "perTicker"}
      /\ next = [t \in Tickers |-> 1] /\ newest = [t \in Tickers |-> Nothing]
  BY DEF Init
<1>7. Chron(<<>>)
  <2>1. \A s : s \notin 1..sent
    BY <1>6
  <2>2. \A s, t : ~Sends(<<>>, s, t)
    BY <2>1 DEF Sends
  <2>3. \A t \in Tickers : newest[t].stamp = 0
    BY <1>6 DEF Nothing
  <2> QED BY <1>6, <2>1, <2>2, <2>3 DEF Chron, Dated, Increasing, Below, LastSent, NewestSent
<1>8. Norm(<<>>)
  <2>1. Joint = {} /\ (\A t : Latest(t) = None) /\ \A sid, t : LatestIn(sid, t) = None
    BY <1>3 DEF Joint, Latest, LatestIn, Lookup
  <2>2. \A t \in Tickers : newest[t].stamp = 0
    BY <1>6 DEF Nothing
  <2>3. ScopesPast /\ LatestSeen /\ Scoped /\ PayloadsSent(<<>>)
    BY <1>3, <2>1 DEF ScopesPast, LatestSeen, Scoped, PayloadsSent
  <2> QED BY <1>3, <2>1, <2>2, <2>3 DEF Norm, OneTicker, Covered, Current
<1> QED BY <1>1, <1>5, <1>7, <1>8 DEF IInv, Told

LEMMA SendTold ==
  ASSUME Typed, Alive, NEW L, Chron(L), Norm(L), NEW t \in Tickers,
         NEW type \in {"orderbook_snapshot", "orderbook_delta"}, NEW body, NEW book, NEW unsequenced \in BOOLEAN,
         Send(t, type, body, book, unsequenced), BodyOK(type, body),
         UNCHANGED <<numbering, conn, up, n, cursors, newest>>, opened' = opened \union {t},
         venue'[t] = book, \A u \in Tickers : u # t => venue'[u] = venue[u],
         type = "orderbook_delta" => t \in opened /\ book = [venue[t] EXCEPT ![body.level] = @ + body.change],
         type = "orderbook_snapshot" => t \notin opened /\ body.book = book
  PROVE  Told'
<1>1. PICK number : number = next[t]
  OBVIOUS
<1>2. PICK M : M = Chronicle(L, t, number, book)
  OBVIOUS
<1>3. Chron(M)'
  BY <1>1, <1>2, ChronSend
<1>4. sent' = sent + 1
  BY DEF Send
<1>5. Norm(M)'
  BY <1>1, <1>2, <1>4, NormSendFrame
<1> QED BY <1>3, <1>5 DEF Told

LEMMA ToldSteps ==
  ASSUME IInv, [Next]_vars
  PROVE  Told'
<1>0. Typed /\ (Alive => Agree)
  BY DEF IInv
<1>1. PICK L : Chron(L) /\ (Alive => Norm(L))
  BY DEF IInv, Told
<1>2. ASSUME Connect PROVE Told'
  <2>1. Norm(L)
    BY <1>1, <1>2 DEF Connect
  <2>2. Chron(L)'
    BY <1>0, <1>1, <1>2, ChronConnect
  <2>3. Alive' => Norm(L)'
    BY <1>0, <1>1, <1>2, <2>1, NormConnect
  <2> QED BY <2>2, <2>3 DEF Told
<1>3. ASSUME Disconnect PROVE Told'
  <2>1. Norm(L)
    BY <1>1, <1>3 DEF Disconnect
  <2>2. UNCHANGED <<venue, numbering, next, opened, sent, conn, newest>> /\ wire' = {}
    BY <1>3 DEF Disconnect, venueVars
  <2>3. NewestSent(L)' /\ DOMAIN newest' = Tickers
    BY <1>1, <2>2 DEF Chron, NewestSent
  <2>4. wire' \subseteq wire
    BY <2>2
  <2>5. Chron(L)'
    BY <1>0, <1>1, <2>2, <2>3, <2>4, ChronKept
  <2>6. Norm(L)'
    BY <1>0, <1>1, <1>3, <2>1, NormDisconnect
  <2> QED BY <2>5, <2>6 DEF Told
<1>4. ASSUME NEW t \in Tickers, SendSnapshot(t) PROVE Told'
  <2>1. Alive /\ Norm(L) /\ t \notin opened /\ opened' = opened \union {t} /\ venue' = venue
        /\ UNCHANGED <<numbering, conn, up, n, cursors, newest>>
    BY <1>1, <1>4 DEF SendSnapshot
  <2>2. PICK book : book = venue[t]
    OBVIOUS
  <2>3. PICK body : body = Body(book, None, None, None)
    OBVIOUS
  <2>4. PICK unsequenced \in BOOLEAN : Send(t, "orderbook_snapshot", body, book, unsequenced)
    BY <1>4, <2>2, <2>3 DEF SendSnapshot
  <2>5. BodyOK("orderbook_snapshot", body) /\ body.book = book
    BY <1>0, <2>2, <2>3, VenueBodies DEF Body
  <2> QED BY <1>0, <1>1, <2>1, <2>2, <2>4, <2>5, SendTold
<1>5. ASSUME NEW t \in Tickers, SendDelta(t) PROVE Told'
  <2>1. Alive /\ Norm(L) /\ t \in opened /\ opened' = opened \union {t}
        /\ UNCHANGED <<numbering, conn, up, n, cursors, newest>>
    BY <1>1, <1>5 DEF SendDelta
  <2>2. PICK l \in Levels, change \in {-1, 1}, unsequenced \in BOOLEAN :
          LET after == [venue[t] EXCEPT ![l] = @ + change]
          IN /\ venue' = [venue EXCEPT ![t] = after]
             /\ Send(t, "orderbook_delta", Body(None, l, change, None), after, unsequenced)
    BY <1>5 DEF SendDelta
  <2>3. PICK book : book = [venue[t] EXCEPT ![l] = @ + change]
    OBVIOUS
  <2>4. PICK body : body = Body(None, l, change, None)
    OBVIOUS
  <2>5. Send(t, "orderbook_delta", body, book, unsequenced) /\ venue' = [venue EXCEPT ![t] = book]
    BY <2>2, <2>3, <2>4
  <2>6. BodyOK("orderbook_delta", body)
    BY <1>0, <2>4, VenueBodies
  <2>7. book = [venue[t] EXCEPT ![body.level] = @ + body.change]
    BY <2>3, <2>4 DEF Body
  <2>8. venue'[t] = book /\ \A u \in Tickers : u # t => venue'[u] = venue[u]
    BY <1>0, <2>5 DEF Typed
  <2> QED BY <1>0, <1>1, <2>1, <2>5, <2>6, <2>7, <2>8, SendTold
<1>6. ASSUME NEW t \in Tickers, SendTrade(t) PROVE Told'
  <2>1. Norm(L) /\ sent' = sent + 1 /\ UNCHANGED <<conn, up, n, cursors, newest, numbering>>
    BY <1>1, <1>6 DEF SendTrade
  <2>2. PICK M : M = Chronicle(L, None, 0, EmptyBook)
    OBVIOUS
  <2>3. Chron(M)'
    BY <1>0, <1>1, <1>6, <2>2, ChronTrade
  <2>4. None \notin Tickers
    BY ReplayAssumption
  <2>5. Norm(M)'
    BY <1>0, <1>1, <2>1, <2>2, <2>4, NormSend
  <2> QED BY <2>3, <2>5 DEF Told
<1>7. ASSUME NEW f \in wire, Lose(f) PROVE Told'
  <2>1. Norm(L)
    BY <1>1, <1>7 DEF Lose
  <2>2. UNCHANGED <<venue, numbering, next, opened, sent, conn, up, n, cursors, newest>> /\ wire' \subseteq wire
    BY <1>7 DEF Lose, venueVars
  <2>3. NewestSent(L)' /\ DOMAIN newest' = Tickers
    BY <1>1, <2>2 DEF Chron, NewestSent
  <2>4. Chron(L)'
    BY <1>0, <1>1, <2>2, <2>3, ChronKept
  <2>5. Norm(L)'
    BY <1>0, <1>1, <2>1, <2>2, NormLose
  <2> QED BY <2>4, <2>5 DEF Told
<1>8. ASSUME NEW f \in wire, NEW again \in BOOLEAN, Deliver(f, again) PROVE Told'
  <2>1. Alive /\ Agree /\ Norm(L)
    BY <1>0, <1>1, <1>8 DEF Deliver
  <2>2. Chron(L)'
    BY <1>0, <1>1, <1>8, ChronDeliver
  <2>3. Alive' => Norm(L)'
    BY <1>0, <1>1, <1>8, <2>1, NormDeliver
  <2> QED BY <2>2, <2>3 DEF Told
<1>9. ASSUME UNCHANGED vars PROVE Told'
  <2>1. UNCHANGED <<venue, numbering, next, opened, sent, conn, up, n, cursors, newest>> /\ wire' \subseteq wire
    BY <1>9 DEF vars
  <2>2. NewestSent(L)' /\ DOMAIN newest' = Tickers
    BY <1>1, <2>1 DEF Chron, NewestSent
  <2>3. Chron(L)'
    BY <1>0, <1>1, <2>1, <2>2, ChronKept
  <2>4. Alive' => Norm(L)'
    BY <1>0, <1>1, <2>1, NormLose DEF Alive
  <2> QED BY <2>3, <2>4 DEF Told
<1> QED BY <1>2, <1>3, <1>4, <1>5, <1>6, <1>7, <1>8, <1>9 DEF Next

LEMMA InvSteps == IInv /\ [Next]_vars => IInv'
<1> SUFFICES ASSUME IInv, [Next]_vars PROVE IInv'
  OBVIOUS
<1>1. Typed'
  BY TypedSteps DEF IInv
<1>2. Alive' => Agree'
  BY AgreeSteps DEF IInv
<1>3. Told'
  BY ToldSteps
<1> QED BY <1>1, <1>2, <1>3 DEF IInv

LEMMA InvShows == IInv => ShownBookIsTrue
<1> SUFFICES ASSUME IInv PROVE ShownBookIsTrue
  OBVIOUS
<1>1. TypeOK
  BY DEF IInv, Typed, Tables, Awaited, TypeOK
<1>2. VisibleBookIsTheVenues
  <2> SUFFICES ASSUME NEW t \in Tickers, Alive, Shown(t), Trusted
               PROVE  cursors[t].projection.book = newest[t].book
    BY DEF VisibleBookIsTheVenues, Trusted
  <2>1. PICK L : Chron(L) /\ Norm(L)
    BY DEF IInv, Told
  <2>2. cursors[t].error = None /\ cursors[t].state = "valid" /\ n.valid[t]
    BY DEF IInv, Agree, Shown
  <2> QED BY <2>1, <2>2 DEF Norm, UpToDate
<1>3. CursorFollowsNormalizer
  BY DEF IInv, Agree, CursorFollowsNormalizer, Shown
<1> QED BY <1>1, <1>2, <1>3 DEF ShownBookIsTrue

\* ShownBookIsTrue: whatever frames are lost, repeated, reordered or sent
\* without a number, and however often connections fail, a book that a product
\* cursor shows is the venue's as of the newest frame delivered for its ticker,
\* under the two conditions VisibleBookIsTheVenues names, and the cursor shows
\* exactly the books the normalizer holds valid, in the same segment, but for
\* those a gap in the trades' numbers has ended.
THEOREM ShownBookIsAlwaysTrue == Spec => []ShownBookIsTrue
<1>1. Init => IInv
  BY InitInv
<1>2. IInv /\ [Next]_vars => IInv'
  BY InvSteps
<1>3. IInv => ShownBookIsTrue
  BY InvShows
<1> QED BY <1>1, <1>2, <1>3, PTL DEF Spec
-----------------------------------------------------------------------------
(* 17. What a normalization without a reason or a discontinuity has read.      *)

Clean == n.reasons = {} /\ ~n.discontinuous

\* The frames in flight, as the venue makes them.
Wired ==
  /\ \A t \in Tickers : next[t] >= 1 /\ nextTrade[t] >= 1
  /\ \A f \in wire :
       /\ f.seq # None => f.seq >= 1
       /\ IF f.type = "trade" THEN f.market = None /\ f.ts = None /\ f.body.price = 1
          ELSE f.market = Market(f.ticker) /\ f.ts \in Stamps /\ f.book \in [Levels -> Nat]

\* A ticker has the market its frames name.
Identified ==
  n.ids = [t \in Tickers |-> n.ids[t]] /\ \A t \in Tickers : n.ids[t] \in {None, Market(t)}

\* A refusal has a code of its own.
Coded == ~Alive => n.error # "complete_observed_interval"

\* The first number of a ticker's scope is read before its book is valid.
FirstIs(t) ==
  /\ \A f \in wire : f.type = "orderbook_snapshot" /\ f.ticker = t => f.seq \in {None, 1}
  /\ Alive /\ Clean /\ n.valid[t] => \E p \in n.payloads : p.key = <<BookScope(t), 1>>
Opening ==
  IF numbering = "shared"
    THEN IF opened = {} THEN \A t \in Tickers : next[t] = 1 ELSE \E t \in opened : FirstIs(t)
    ELSE \A t \in Tickers : FirstIs(t)

\* The numbers read in a scope leave none out up to the latest.
Run(sid, t) ==
  \A p \in n.payloads : p.key[1] = Scope(sid, t) =>
    /\ p.key[2] \in Nat /\ p.key[2] >= 1 /\ LatestIn(sid, t) \in Nat /\ p.key[2] <= LatestIn(sid, t)
    /\ \A i \in p.key[2]..LatestIn(sid, t) : \E q \in n.payloads : q.key = <<Scope(sid, t), i>>
Runs ==
  /\ ~up => n.payloads = {}
  /\ \A p \in n.payloads : p.key[1][1] = conn
  /\ \A sid \in Sids, t \in Tickers : Run(sid, t)

LEMMA SendWired ==
  ASSUME Typed, Wired, NEW t \in Tickers, NEW type \in {"orderbook_snapshot", "orderbook_delta"}, NEW body,
         BodyOK(type, body), NEW book \in [Levels -> Nat], NEW unsequenced \in BOOLEAN,
         Send(t, type, body, book, unsequenced), nextTrade' = nextTrade
  PROVE  Wired'
<1>1. \A f \in wire' : f \in wire \/ \E ts \in Stamps : f = NewFrame(t, type, body, book, unsequenced, ts)
  BY SendTyped
<1>2. \A u \in Tickers : next[u] \in Nat /\ next[u] >= 1 /\ next'[u] >= 1
  BY DEF Typed, Wired, Send, NextNumbers
<1>3. ASSUME NEW ts \in Stamps, NEW f, f = NewFrame(t, type, body, book, unsequenced, ts)
      PROVE  /\ f.type # "trade" /\ f.market = Market(f.ticker) /\ f.ts \in Stamps /\ f.book \in [Levels -> Nat]
             /\ f.seq # None => f.seq >= 1
  BY <1>2, <1>3 DEF NewFrame
<1> QED BY <1>1, <1>2, <1>3 DEF Wired

LEMMA WiredSteps ==
  ASSUME Typed, Wired, [Next]_vars
  PROVE  Wired'
<1>1. ASSUME Connect PROVE Wired'
  <2>1. wire' = {} /\ next' = [t \in Tickers |-> 1] /\ nextTrade' = [t \in Tickers |-> 1]
    BY <1>1 DEF Connect
  <2> QED BY <2>1 DEF Wired
<1>2. ASSUME NEW t \in Tickers, SendSnapshot(t) PROVE Wired'
  <2>1. PICK unsequenced \in BOOLEAN :
          /\ Send(t, "orderbook_snapshot", Body(venue[t], None, None, None), venue[t], unsequenced)
          /\ nextTrade' = nextTrade
    BY <1>2 DEF SendSnapshot
  <2>2. venue[t] \in [Levels -> Nat]
    BY ReplayAssumption DEF Typed
  <2> QED BY <2>1, <2>2, SendWired, VenueBodies
<1>3. ASSUME NEW t \in Tickers, SendDelta(t) PROVE Wired'
  <2> DEFINE after(l, change) == [venue[t] EXCEPT ![l] = @ + change]
  <2>1. PICK l \in Levels, change \in {-1, 1}, unsequenced \in BOOLEAN :
          /\ after(l, change)[l] \in 0..MaxQty
          /\ Send(t, "orderbook_delta", Body(None, l, change, None), after(l, change), unsequenced)
          /\ nextTrade' = nextTrade
    BY <1>3 DEF SendDelta
  <2>2. after(l, change) \in [Levels -> Nat]
    <3>1. MaxQty \in Nat /\ venue[t] \in [Levels -> Nat]
      BY ReplayAssumption DEF Typed
    <3>2. after(l, change)[l] \in Nat
      BY <2>1, <3>1
    <3> QED BY <3>1, <3>2
  <2>3. BodyOK("orderbook_delta", Body(None, l, change, None))
    BY VenueBodies
  <2> HIDE DEF after
  <2> QED BY <2>1, <2>2, <2>3, SendWired
<1>4. ASSUME NEW t \in Tickers, SendTrade(t) PROVE Wired'
  <2>1. PICK numbered \in BOOLEAN :
          /\ nextTrade' = IF numbered THEN NextNumbers(nextTrade, t) ELSE nextTrade
          /\ wire' = wire \union {NewTrade(t, numbered)}
    BY <1>4, TradeSent
  <2>2. Body(None, None, None, 1).price = 1
    BY DEF Body
  <2>3. next' = next
    BY <1>4 DEF SendTrade
  <2>4. \A u \in Tickers : nextTrade[u] \in Nat /\ nextTrade[u] >= 1 /\ nextTrade'[u] >= 1
    BY <2>1 DEF Typed, Wired, NextNumbers
  <2>5. PICK f : f = NewTrade(t, numbered)
    OBVIOUS
  <2>6. /\ f.type = "trade" /\ f.market = None /\ f.ts = None /\ f.body.price = 1
        /\ f.seq # None => f.seq >= 1
    BY <2>2, <2>4, <2>5 DEF NewTrade
  <2> QED BY <2>1, <2>3, <2>4, <2>5, <2>6 DEF Wired
<1>5. ASSUME wire' \subseteq wire, next' = next, nextTrade' = nextTrade PROVE Wired'
  BY <1>5 DEF Wired
<1>6. ASSUME Disconnect \/ (\E f \in wire : Lose(f) \/ \E again \in BOOLEAN : Deliver(f, again)) \/ UNCHANGED vars
      PROVE  wire' \subseteq wire /\ next' = next /\ nextTrade' = nextTrade
  BY <1>6 DEF Disconnect, Lose, Deliver, venueVars, vars
<1> QED BY <1>1, <1>2, <1>3, <1>4, <1>5, <1>6 DEF Next

LEMMA IdentifiedSteps ==
  ASSUME Typed, Wired, Identified, Alive', [Next]_vars
  PROVE  Identified'
<1>1. ASSUME Connect PROVE n'.ids = n.ids
  BY <1>1, ConnectBinds DEF Bound, Alive
<1>2. ASSUME Disconnect PROVE n'.ids = n.ids
  BY <1>2, EndReads DEF Disconnect, Ends, EndsAll
<1>3. ASSUME NEW f \in wire, NEW again \in BOOLEAN, Deliver(f, again) PROVE Identified'
  <2>1. Delivers(f)
    BY <1>3, FrameReads DEF Deliver, FrameRecord
  <2>2. n'.ids = NamedIds(n, f)
    <3>1. ~Refused(n, n')
      BY DEF Refused, Alive
    <3>2. FrameRecord(f).data = f
      BY DEF FrameRecord, Raw
    <3> QED BY <2>1, <3>1, <3>2 DEF Delivers, Skips, Accepts
  <2>3. f.ticker \in Tickers /\ f.market \in {None, Market(f.ticker)} /\ DOMAIN n.ids = Tickers
    BY DEF Typed, IsFrame, Wired, Tables
  <2>4. ASSUME NEW t \in Tickers PROVE n'.ids[t] \in {None, Market(t)}
    <3>1. n.ids[t] \in {None, Market(t)}
      BY DEF Identified
    <3> QED BY <2>2, <2>3, <3>1 DEF NamedIds
  <2>5. n'.ids = [t \in Tickers |-> n'.ids[t]]
    <3>1. n.ids = [t \in Tickers |-> n.ids[t]]
      BY DEF Identified
    <3> QED BY <2>2, <2>3, <3>1 DEF NamedIds
  <2> QED BY <2>4, <2>5 DEF Identified
<1>4. ASSUME NEW t \in Tickers, SendSnapshot(t) \/ SendDelta(t) \/ SendTrade(t) PROVE n' = n
  BY <1>4 DEF SendSnapshot, SendDelta, SendTrade
<1>5. ASSUME NEW f \in wire, Lose(f) PROVE n' = n
  BY <1>5 DEF Lose
<1>6. ASSUME UNCHANGED vars PROVE n' = n
  BY <1>6 DEF vars
<1>7. ASSUME n'.ids = n.ids PROVE Identified'
  BY <1>7 DEF Identified
<1> QED BY <1>1, <1>2, <1>3, <1>4, <1>5, <1>6, <1>7 DEF Next

LEMMA CodedSteps ==
  ASSUME Typed, Coded, [Next]_vars
  PROVE  Coded'
<1>1. ASSUME Connect PROVE Coded'
  BY <1>1, ConnectBinds DEF Bound, Alive, Coded
<1>2. ASSUME Disconnect PROVE Coded'
  BY <1>2, EndReads DEF Disconnect, Ends, EndsAll, Continues, Alive, Coded
<1>3. ASSUME NEW f \in wire, NEW again \in BOOLEAN, Deliver(f, again) PROVE Coded'
  <2>1. Alive /\ Delivers(f)
    BY <1>3, FrameReads DEF Deliver, FrameRecord
  <2> QED BY <2>1 DEF Delivers, Refused, Skips, Accepts, Continues, Alive, Coded
<1>4. ASSUME n' = n PROVE Coded'
  BY <1>4 DEF Coded, Alive
<1>5. ASSUME NEW t \in Tickers, SendSnapshot(t) \/ SendDelta(t) \/ SendTrade(t) PROVE n' = n
  BY <1>5 DEF SendSnapshot, SendDelta, SendTrade
<1>6. ASSUME NEW f \in wire, Lose(f) PROVE n' = n
  BY <1>6 DEF Lose
<1>7. ASSUME UNCHANGED vars PROVE n' = n
  BY <1>7 DEF vars
<1> QED BY <1>1, <1>2, <1>3, <1>4, <1>5, <1>6, <1>7 DEF Next

\* A valid book's ticker has had its snapshot sent.
LEMMA ValidOpened ==
  ASSUME Typed, NEW L, Chron(L), Norm(L), Trusted, NEW t \in Tickers, n.valid[t]
  PROVE  t \in opened
<1>1. Current(L, t)
  BY DEF Norm, UpToDate
<1>2. newest[t].stamp \in 1..sent /\ L[newest[t].stamp].ticker = t
  BY <1>1 DEF Current, Chron, NewestSent, Typed
<1>3. Sends(L, newest[t].stamp, t)
  BY <1>1, <1>2 DEF Current, Sends
<1> QED BY <1>2, <1>3 DEF Chron, Below

\* What a delivery leaves of a clean normalization was clean before it.
LEMMA CleanBefore ==
  ASSUME NEW f, Accepts(n, n', FrameRecord(f)), Clean'
  PROVE  /\ Clean /\ ~IsGap(n, FrameRecord(f)) /\ ~Unsequenced(f)
         /\ IsDelta(f) => Still(n, FrameRecord(f), f.ticker)
<1> DEFINE r == FrameRecord(f)
<1>1. r.data = f
  BY DEF FrameRecord, Raw
<1> HIDE DEF r
<1>2. /\ n'.reasons = n.reasons \union (IF Unsequenced(f) THEN {"RequiredSourceSequenceMissing"} ELSE {})
                              \union (IF IsDelta(f) /\ ~Still(n, r, f.ticker) THEN {"DeltaBeforeRecovery"} ELSE {})
      /\ n'.discontinuous = IF IsGap(n, r) THEN TRUE ELSE n.discontinuous
  BY <1>1 DEF Accepts, r
<1> QED BY <1>2 DEF Clean, r

-----------------------------------------------------------------------------
(* 18. The numbers of a clean normalization: the first one, and no hole.       *)

LEMMA FirstKept ==
  ASSUME NEW t, FirstIs(t), UNCHANGED conn, n'.topology = n.topology, n.payloads \subseteq n'.payloads,
         \A f \in wire' : f.type = "orderbook_snapshot" /\ f.ticker = t => f \in wire,
         Alive' /\ Clean' /\ n'.valid[t] => Alive /\ Clean /\ n.valid[t]
  PROVE  FirstIs(t)'
<1>1. BookScope(t)' = BookScope(t)
  BY DEF BookScope, Scope
<1> QED BY <1>1 DEF FirstIs

LEMMA FirstDeliver ==
  ASSUME Typed, Alive, NEW L, Chron(L), Norm(L), NEW f \in wire, NEW again \in BOOLEAN, Deliver(f, again),
         NEW t \in Tickers, FirstIs(t)
  PROVE  FirstIs(t)'
<1>1. conn' = conn /\ wire' \subseteq wire /\ Delivers(f)
  BY FrameReads DEF Deliver, FrameRecord, venueVars
<1>2. CASE ~Alive'
  BY <1>1, <1>2 DEF FirstIs
<1>3. CASE Skips(n, n', FrameRecord(f))
  <2>1. /\ n'.topology = n.topology /\ n'.payloads = n.payloads /\ n'.valid = n.valid
        /\ n'.reasons = n.reasons /\ n'.discontinuous = n.discontinuous
    BY <1>3 DEF Skips, Continues
  <2> QED BY <1>1, <2>1, FirstKept DEF Clean
<1>4. CASE Accepts(n, n', FrameRecord(f))
  <2>1. Advances(L, f)
    BY <1>1, <1>4, AcceptedAdvances
  <2>2. n'.topology = n.topology
    BY <1>4 DEF Accepts, Continues
  <2>3. n.payloads \subseteq n'.payloads
    BY <2>1 DEF Advances
  <2>4. CASE ~ (f.type = "orderbook_snapshot" /\ t = f.ticker)
    <3>1. n'.valid[t] => n.valid[t]
      BY <1>4, <2>4, AcceptedBook
    <3>2. Clean' => Clean
      BY <1>4, CleanBefore
    <3> QED BY <1>1, <2>2, <2>3, <3>1, <3>2, FirstKept
  <2>5. CASE f.type = "orderbook_snapshot" /\ t = f.ticker
    <3>1. f.seq \in {None, 1}
      BY <2>5 DEF FirstIs
    <3>2. BookScope(t)' = BookScope(t)
      BY <2>1 DEF Advances
    <3>3. ASSUME Clean' PROVE \E p \in n'.payloads : p.key = <<BookScope(t), 1>>
      <4>1. f.seq = 1 /\ f.seq # None
        BY <1>4, <2>5, <3>1, <3>3, CleanBefore DEF Unsequenced, SequenceRequired
      <4>2. [key |-> <<BookScope(t), 1>>, value |-> f] \in n'.payloads
        BY <2>1, <2>5, <4>1, AcceptedAdvancesBook DEF Advances, AdvancesBook, Keyed
      <4> QED BY <4>2
    <3> QED BY <1>1, <3>2, <3>3 DEF FirstIs
  <2> QED BY <2>4, <2>5
<1>5. ~Refused(n, n') \/ ~Alive'
  BY DEF Refused, Alive
<1> QED BY <1>1, <1>2, <1>3, <1>4, <1>5 DEF Delivers

\* A frame of t is sent: the other tickers' first numbers are as they were.
LEMMA FirstOther ==
  ASSUME Typed, NEW t \in Tickers, NEW type \in {"orderbook_snapshot", "orderbook_delta"}, NEW body,
         BodyOK(type, body), NEW book, NEW unsequenced \in BOOLEAN, Send(t, type, body, book, unsequenced),
         UNCHANGED <<conn, n>>, NEW u \in Tickers, u # t \/ type = "orderbook_delta", FirstIs(u)
  PROVE  FirstIs(u)'
<1>1. \A f \in wire' : f \in wire \/ \E ts \in Stamps : f = NewFrame(t, type, body, book, unsequenced, ts)
  BY SendTyped
<1>2. \A f \in wire' : f.type = "orderbook_snapshot" /\ f.ticker = u => f \in wire
  BY <1>1 DEF NewFrame
<1> QED BY <1>2, FirstKept DEF Alive, Clean

LEMMA OpeningSnapshot ==
  ASSUME Typed, Alive, NEW L, Chron(L), Norm(L), Opening, NEW t \in Tickers, SendSnapshot(t)
  PROVE  Opening'
<1>0. /\ UNCHANGED <<conn, n, numbering>> /\ opened' = opened \union {t} /\ t \notin opened /\ opened \subseteq Tickers
      /\ numbering \in {"shared", "perTicker"}
  BY DEF SendSnapshot, Typed, Chron
<1>1. PICK unsequenced \in BOOLEAN :
        Send(t, "orderbook_snapshot", Body(venue[t], None, None, None), venue[t], unsequenced)
  BY DEF SendSnapshot
<1>2. BodyOK("orderbook_snapshot", Body(venue[t], None, None, None))
  BY VenueBodies
<1>3. ASSUME NEW u \in Tickers, u # t, FirstIs(u) PROVE FirstIs(u)'
  BY <1>0, <1>1, <1>2, <1>3, FirstOther
<1>4. ASSUME next[t] = 1, FirstIs(t) \/ opened = {} PROVE FirstIs(t)'
  <2>1. \A f \in wire' : f \in wire \/ f.seq \in {None, next[t]}
    <3>1. \A f \in wire' : \/ f \in wire
                           \/ \E ts \in Stamps : f = NewFrame(t, "orderbook_snapshot", Body(venue[t], None, None, None),
                                                              venue[t], unsequenced, ts)
      BY <1>1, <1>2, SendTyped
    <3> QED BY <3>1 DEF NewFrame
  <2>2. ASSUME NEW f \in wire, f.type = "orderbook_snapshot", f.ticker = t PROVE FALSE
    <3>1. Sends(L, f.stamp, t)
      BY <2>2 DEF Chron, InFlight
    <3> QED BY <1>0, <3>1 DEF Chron, Below, Sends
  <2>3. ASSUME Clean, n.valid[t] PROVE FALSE
    <3>1. Trusted
      BY <2>3 DEF Clean, Trusted
    <3> QED BY <1>0, <2>3, <3>1, ValidOpened
  <2> QED BY <1>0, <1>4, <2>1, <2>2, <2>3 DEF FirstIs, Clean
<1>5. CASE numbering = "shared" /\ opened = {}
  <2>1. next[t] = 1
    BY <1>5 DEF Opening
  <2>2. FirstIs(t)'
    BY <1>4, <1>5, <2>1
  <2> QED BY <1>0, <1>5, <2>2 DEF Opening
<1>6. CASE numbering = "shared" /\ opened # {}
  <2>1. PICK u \in opened : FirstIs(u)
    BY <1>6 DEF Opening
  <2>2. FirstIs(u)'
    BY <1>0, <1>3, <2>1
  <2> QED BY <1>0, <1>6, <2>2 DEF Opening
<1>7. CASE numbering = "perTicker"
  <2>1. \A u \in Tickers : FirstIs(u)
    BY <1>7 DEF Opening
  <2>2. next[t] = 1
    BY <1>0, <1>7 DEF Chron, Below
  <2>3. \A u \in Tickers : FirstIs(u)'
    BY <1>3, <1>4, <2>1, <2>2
  <2> QED BY <1>0, <1>7, <2>3 DEF Opening
<1> QED BY <1>0, <1>5, <1>6, <1>7

\* The tickers whose snapshot was sent are as they were.
LEMMA OpeningKept ==
  ASSUME Opening, UNCHANGED <<numbering, opened>>, opened \subseteq Tickers,
         opened = {} => next' = next, \A t \in Tickers : FirstIs(t) => FirstIs(t)'
  PROVE  Opening'
BY DEF Opening

LEMMA OpeningSteps ==
  ASSUME Typed, NEW L, Chron(L), Alive => Norm(L), Opening, [Next]_vars
  PROVE  Opening'
<1>0. opened \subseteq Tickers /\ numbering \in {"shared", "perTicker"}
  BY DEF Typed, Chron
<1>1. ASSUME Connect PROVE Opening'
  <2>1. opened' = {} /\ wire' = {} /\ next' = [t \in Tickers |-> 1] /\ numbering' = numbering /\ ~up /\ Alive
    BY <1>1 DEF Connect
  <2>2. Alive' => n'.valid = n.valid
    BY <1>1, ConnectBinds DEF Bound, Alive
  <2>3. \A t \in Tickers : Alive' => ~n'.valid[t]
    BY <2>1, <2>2 DEF Norm
  <2> QED BY <1>0, <2>1, <2>3 DEF Opening, FirstIs
<1>2. ASSUME Disconnect PROVE Opening'
  <2>1. n'.discontinuous = TRUE
    BY <1>2, EndReads DEF Disconnect, Ends, EndsAll
  <2>2. wire' = {} /\ UNCHANGED <<numbering, opened, next>>
    BY <1>2 DEF Disconnect, venueVars
  <2>3. \A t \in Tickers : FirstIs(t)'
    BY <2>1, <2>2 DEF FirstIs, Clean
  <2> QED BY <1>0, <2>2, <2>3, OpeningKept
<1>3. ASSUME NEW t \in Tickers, SendSnapshot(t) PROVE Opening'
  <2>1. Alive
    BY <1>3 DEF SendSnapshot
  <2> QED BY <1>3, <2>1, OpeningSnapshot
<1>4. ASSUME NEW t \in Tickers, SendDelta(t) PROVE Opening'
  <2>1. PICK l \in Levels, change \in {-1, 1}, unsequenced \in BOOLEAN :
          Send(t, "orderbook_delta", Body(None, l, change, None), [venue[t] EXCEPT ![l] = @ + change], unsequenced)
    BY <1>4 DEF SendDelta
  <2>2. UNCHANGED <<conn, n, numbering, opened>> /\ t \in opened
    BY <1>4 DEF SendDelta
  <2>3. BodyOK("orderbook_delta", Body(None, l, change, None))
    BY VenueBodies
  <2>4. \A u \in Tickers : FirstIs(u) => FirstIs(u)'
    BY <2>1, <2>2, <2>3, FirstOther
  <2> QED BY <1>0, <2>2, <2>4, OpeningKept
<1>5. ASSUME NEW t \in Tickers, SendTrade(t) PROVE Opening'
  <2>1. UNCHANGED <<conn, n, numbering, opened, next>> /\ \A f \in wire' : f.type = "orderbook_snapshot" => f \in wire
    BY <1>5 DEF SendTrade
  <2>2. \A u \in Tickers : FirstIs(u) => FirstIs(u)'
    BY <2>1, FirstKept DEF Alive, Clean
  <2> QED BY <1>0, <2>1, <2>2, OpeningKept
<1>6. ASSUME UNCHANGED <<conn, n, numbering, opened, next>>, wire' \subseteq wire PROVE Opening'
  <2>1. \A u \in Tickers : FirstIs(u) => FirstIs(u)'
    BY <1>6, FirstKept DEF Alive, Clean
  <2> QED BY <1>0, <1>6, <2>1, OpeningKept
<1>7. ASSUME NEW f \in wire, NEW again \in BOOLEAN, Deliver(f, again) PROVE Opening'
  <2>1. UNCHANGED <<numbering, opened, next>> /\ Alive
    BY <1>7 DEF Deliver, venueVars
  <2>2. \A u \in Tickers : FirstIs(u) => FirstIs(u)'
    BY <1>7, <2>1, FirstDeliver
  <2> QED BY <1>0, <2>1, <2>2, OpeningKept
<1>8. ASSUME (\E f \in wire : Lose(f)) \/ UNCHANGED vars
      PROVE  UNCHANGED <<conn, n, numbering, opened, next>> /\ wire' \subseteq wire
  BY <1>8 DEF Lose, venueVars, vars
<1> QED BY <1>1, <1>2, <1>3, <1>4, <1>5, <1>6, <1>7, <1>8 DEF Next

\* A frame that follows no gap extends its scope's numbers by one.
LEMMA RunsDeliver ==
  ASSUME Typed, Wired, Runs, NEW L, Chron(L), Norm(L), NEW f \in wire, Accepts(n, n', FrameRecord(f)),
         Advances(L, f), ~IsGap(n, FrameRecord(f)), UNCHANGED <<conn, up>>, up
  PROVE  Runs'
<1>0. /\ f.ticker \in Tickers /\ f.sid \in Sids
      /\ \A sid \in Sids, t \in Tickers : Scope(sid, t)' = Scope(sid, t)
  BY DEF Typed, IsFrame, Advances
<1>1. CASE f.seq = None
  <2>1. n'.payloads = n.payloads /\ \A sid \in Sids, t \in Tickers : LatestIn(sid, t)' = LatestIn(sid, t)
    BY <1>1 DEF Advances
  <2>2. \A sid \in Sids, t \in Tickers : Run(sid, t) => Run(sid, t)'
    BY <1>0, <2>1 DEF Run
  <2> QED BY <2>1, <2>2 DEF Runs
<1>2. CASE f.seq # None
  <2> DEFINE own == FrameScope(f)
             q == [key |-> <<own, f.seq>>, value |-> f]
  <2>1. /\ f.seq \in Nat /\ f.seq >= 1 /\ n'.payloads = n.payloads \union {q}
        /\ LatestIn(f.sid, f.ticker) # None => LatestIn(f.sid, f.ticker) \in Nat /\ f.seq = LatestIn(f.sid, f.ticker) + 1
    <3>1. /\ f.seq \in Nat /\ n'.payloads = n.payloads \union {q}
          /\ LatestIn(f.sid, f.ticker) # None => LatestIn(f.sid, f.ticker) \in Nat /\ LatestIn(f.sid, f.ticker) < f.seq
          /\ ~ (LatestIn(f.sid, f.ticker) # None /\ f.seq > LatestIn(f.sid, f.ticker) + 1)
      BY <1>2 DEF Advances, Keyed
    <3>2. f.seq >= 1
      BY <1>2 DEF Wired
    <3> HIDE DEF q
    <3> QED BY <3>1, <3>2
  <2>2. q.key[1] = own /\ q.key[2] = f.seq /\ q.key = <<own, f.seq>> /\ own[1] = conn
    BY DEF FrameScope, Scope
  <2>3. \A sid \in Sids, t \in Tickers :
          LatestIn(sid, t)' = IF Scope(sid, t) = own THEN f.seq ELSE LatestIn(sid, t)
    BY <1>2 DEF Advances
  <2> HIDE DEF q
  <2>4. ASSUME NEW sid \in Sids, NEW t \in Tickers PROVE Run(sid, t)'
    <3>1. Run(sid, t)
      BY DEF Runs
    <3>2. CASE Scope(sid, t) # own
      BY <1>0, <2>1, <2>2, <2>3, <3>1, <3>2 DEF Run
    <3>3. CASE Scope(sid, t) = own
      <4>1. LatestIn(sid, t) = LatestIn(f.sid, f.ticker) /\ LatestIn(sid, t)' = f.seq
        BY <2>3, <3>3 DEF LatestIn, FrameScope
      <4>2. ASSUME NEW p \in n.payloads, p.key[1] = own
            PROVE  /\ p.key[2] \in Nat /\ p.key[2] >= 1 /\ p.key[2] <= f.seq
                   /\ \A i \in p.key[2]..f.seq : \E x \in n'.payloads : x.key = <<own, i>>
        <5>1. /\ p.key[2] \in Nat /\ p.key[2] >= 1 /\ LatestIn(sid, t) \in Nat /\ p.key[2] <= LatestIn(sid, t)
              /\ \A i \in p.key[2]..LatestIn(sid, t) : \E x \in n.payloads : x.key = <<own, i>>
          BY <3>1, <3>3, <4>2 DEF Run
        <5>2. LatestIn(sid, t) # None
          BY <5>1, ReplayAssumption
        <5>3. f.seq = LatestIn(sid, t) + 1
          BY <2>1, <4>1, <5>2
        <5>4. p.key[2] <= f.seq
          BY <5>1, <5>3
        <5>5. ASSUME NEW i \in p.key[2]..f.seq PROVE \E x \in n'.payloads : x.key = <<own, i>>
          <6>1. CASE i = f.seq
            BY <2>1, <2>2, <6>1
          <6>2. CASE i # f.seq
            <7>1. i \in p.key[2]..LatestIn(sid, t)
              BY <5>1, <5>3, <6>2
            <7> QED BY <2>1, <5>1, <7>1
          <6> QED BY <6>1, <6>2
        <5> QED BY <5>1, <5>4, <5>5
      <4>3. \A i \in f.seq..f.seq : \E x \in n'.payloads : x.key = <<own, i>>
        BY <2>1, <2>2
      <4>4. \A p \in n'.payloads : p \in n.payloads \/ p = q
        BY <2>1
      <4> HIDE DEF own
      <4>5. ASSUME NEW p \in n'.payloads, p.key[1] = own
            PROVE  /\ p.key[2] \in Nat /\ p.key[2] >= 1 /\ p.key[2] <= f.seq
                   /\ \A i \in p.key[2]..f.seq : \E x \in n'.payloads : x.key = <<own, i>>
        <5>1. CASE p \in n.payloads
          BY <4>2, <4>5, <5>1
        <5>2. CASE p = q
          BY <2>1, <2>2, <4>3, <5>2
        <5> QED BY <4>4, <5>1, <5>2
      <4> QED BY <1>0, <2>1, <3>3, <4>1, <4>5 DEF Run
    <3> QED BY <3>2, <3>3
  <2>5. \A p \in n'.payloads : p.key[1][1] = conn'
    BY <2>1, <2>2 DEF Runs
  <2> QED BY <2>4, <2>5 DEF Runs
<1> QED BY <1>1, <1>2

LEMMA RunsKept ==
  ASSUME Runs, UNCHANGED <<conn, up>>, n'.payloads = n.payloads, n'.previous = n.previous, n'.topology = n.topology
  PROVE  Runs'
<1>1. \A sid, t : Scope(sid, t)' = Scope(sid, t) /\ LatestIn(sid, t)' = LatestIn(sid, t)
  BY DEF Scope, LatestIn
<1>2. \A sid, t : Run(sid, t)' <=> Run(sid, t)
  BY <1>1 DEF Run
<1> QED BY <1>2 DEF Runs

LEMMA RunsConnect ==
  ASSUME Typed, Runs, Connect, Alive'
  PROVE  Runs'
<1>1. n'.payloads = n.payloads /\ ~up
  BY ConnectBinds DEF Bound, Alive, Connect
<1>2. n'.payloads = {}
  BY <1>1 DEF Runs
<1> QED BY <1>2 DEF Runs, Run
-----------------------------------------------------------------------------
(* 19. The cursors of a clean normalization never raise: a ticker waits for    *)
(* its first snapshot, and then its only segment is valid to the end.          *)

CalmAt(t) ==
  LET c == cursors[t]
  IN /\ c.error = None /\ c.pending = None /\ c.ticker = t /\ c.market = Market(t)
     /\ c.projection \in Projections
     /\ IF n.valid[t] THEN n.segment[t] = 1 /\ c.projection.seeded /\ c.state = "valid"
        ELSE /\ n.segment[t] = 0 /\ n.awaiting[t] = "initial_snapshot"
             /\ c.state = "awaiting_initial_snapshot" /\ c.seen = {}
Calm == n.time \in Int \union Stamps /\ \A t \in Tickers : CalmAt(t)

\* A cursor, the boundary of its first segment and the snapshot it announces.
LEMMA BoundaryFollows ==
  ASSUME NEW c, DOMAIN c = CursorFields, c.error = None, c.pending = None,
         c.state = "awaiting_initial_snapshot",
         NEW b, b.ticker = c.ticker, b.evidence = "initial_snapshot", b.segment \notin c.seen
  PROVE  LET k == StartSegment(c, b)
         IN /\ DOMAIN k = CursorFields /\ k.error = None /\ k.pending = b
            /\ k.ticker = c.ticker /\ k.market = c.market
<1>1. StartSegment(c, b) = [c EXCEPT !.pending = b, !.applied = b.ordinal]
  BY DEF StartSegment
<1> QED BY <1>1 DEF CursorFields

LEMMA SnapshotFollows ==
  ASSUME NEW c, DOMAIN c = CursorFields, c.error = None, c.pending # None, c.pending.ticker = c.ticker,
         NEW e, e.type = "orderbook_snapshot", e.ticker = c.ticker, e.market = c.market, e.valid = TRUE,
         e.segment = c.pending.segment, e.scope = c.pending.scope, e.ordinal = c.pending.ordinal,
         e.body.book \in [Levels -> Nat]
  PROVE  LET d == ApplyMarketEvent(c, e)
         IN /\ d.error = None /\ d.pending = None /\ d.ticker = c.ticker /\ d.market = c.market
            /\ d.state = "valid" /\ d.segment = e.segment
            /\ d.projection \in Projections /\ d.projection.seeded /\ d.projection.book = e.body.book
<1> DEFINE p == Project(NewProjection, e.type, e.body)
           d == ApplyMarketEvent(c, e)
<1>1. p = [book |-> e.body.book, trade |-> None, seeded |-> TRUE]
  BY DEF Project, NewProjection
<1>2. p \in Projections /\ p.seeded /\ p.book = e.body.book
  <2> HIDE DEF p
  <2> QED BY <1>1 DEF Projections
<1>3. d = [c EXCEPT !.projection = p,
                    !.segment = e.segment, !.evidence = c.pending.evidence,
                    !.seen = @ \union {e.segment}, !.seed = c.pending.ordinal, !.from = e.ordinal,
                    !.applied = e.ordinal, !.pending = None, !.state = "valid"]
  <2>1. d = ApplySnapshot(c, e)
    BY DEF ApplyMarketEvent
  <2> HIDE DEF d, p
  <2> QED BY <2>1 DEF ApplySnapshot, p
<1> HIDE DEF p, d
<1>4. /\ d.error = None /\ d.pending = None /\ d.ticker = c.ticker /\ d.market = c.market
      /\ d.state = "valid" /\ d.segment = e.segment /\ d.projection = p
  BY <1>3 DEF CursorFields
<1> QED BY <1>2, <1>4 DEF d

\* A cursor and a delta or a trade of its segment.
LEMMA UpdateFollows ==
  ASSUME NEW c, DOMAIN c = CursorFields, c.error = None, c.pending = None, c.projection \in Projections,
         NEW e, e.ticker = c.ticker, e.market = c.market, e.type \in {"orderbook_delta", "trade"},
         e.type = "orderbook_delta" =>
           /\ c.state = "valid" /\ c.projection.seeded
           /\ e.body.level \in Levels /\ e.body.change \in Int
           /\ c.projection.book[e.body.level] + e.body.change >= 0,
         e.type = "trade" => e.body.price = 1,
         c.state = "valid" => e.valid = TRUE /\ e.segment = c.segment
  PROVE  LET d == ApplyMarketEvent(c, e)
         IN /\ d.error = None /\ d.pending = None /\ d.ticker = c.ticker /\ d.market = c.market
            /\ d.state = c.state /\ d.segment = c.segment /\ d.seen = c.seen
            /\ d.projection \in Projections /\ d.projection.seeded = c.projection.seeded
            /\ e.type = "trade" => d.projection.book = c.projection.book
<1> DEFINE p == Project(c.projection, e.type, e.body)
           d == ApplyMarketEvent(c, e)
<1>1. /\ p \in Projections /\ p.seeded = c.projection.seeded
      /\ e.type = "trade" => p.book = c.projection.book
  <2>1. CASE e.type = "trade"
    <3>1. p = [c.projection EXCEPT !.trade = 1]
      BY <2>1 DEF Project
    <3> HIDE DEF p
    <3> QED BY <2>1, <3>1 DEF Projections
  <2>2. CASE e.type = "orderbook_delta"
    <3>1. p = [c.projection EXCEPT !.book[e.body.level] = @ + e.body.change]
      BY <2>2 DEF Project
    <3> DEFINE book == [c.projection.book EXCEPT ![e.body.level] = @ + e.body.change]
    <3>2. book \in [Levels -> Nat]
      BY <2>2 DEF Projections
    <3>3. p = [c.projection EXCEPT !.book = book]
      BY <3>1
    <3> HIDE DEF p, book
    <3> QED BY <2>2, <3>2, <3>3 DEF Projections
  <2> QED BY <2>1, <2>2
<1>2. p # None
  BY <1>1, ReplayAssumption
<1> HIDE DEF p
<1>3. d = ApplyUpdate(c, e)
  BY DEF ApplyMarketEvent
<1>4. d = [c EXCEPT !.applied = e.ordinal] \/ d = [c EXCEPT !.projection = p, !.applied = e.ordinal]
  <2> HIDE DEF d
  <2> QED BY <1>2, <1>3 DEF ApplyUpdate, p
<1> HIDE DEF d
<1>5. /\ d.error = None /\ d.pending = None /\ d.ticker = c.ticker /\ d.market = c.market
      /\ d.state = c.state /\ d.segment = c.segment /\ d.seen = c.seen
      /\ d.projection = c.projection \/ d.projection = p
  BY <1>4 DEF CursorFields
<1> QED BY <1>1, <1>5 DEF d

\* What a clean frame writes, and that no cursor fails on the way.
Carries(f) ==
  LET r == FrameRecord(f)
  IN \E b, e :
       LET mid == IF IsSnapshot(f) THEN Following(cursors, b) ELSE cursors
       IN /\ IsSnapshot(f) => /\ IsBoundary(b, n', r)
                              /\ \A t \in Tickers : /\ mid[t].error = None
                                                    /\ mid[t].pending = IF t = f.ticker THEN b ELSE None
          /\ IsEvent(e, n', r) /\ cursors' = Following(mid, e)
          /\ n'.out = (n.out \o IF IsSnapshot(f) THEN <<b>> ELSE <<>>) \o <<e>>

\* A clean frame: what it does to the tables, ticker by ticker.
LEMMA CleanTables ==
  ASSUME Typed, Alive, NEW f \in wire, Accepts(n, n', FrameRecord(f)), Clean', NEW u \in Tickers
  PROVE  LET opens == IsSnapshot(f) /\ u = f.ticker
         IN /\ n'.valid[u] = IF opens THEN TRUE ELSE n.valid[u]
            /\ n'.segment[u] = IF opens THEN n.segment[u] + 1 ELSE n.segment[u]
            /\ n'.awaiting[u] = IF opens THEN None ELSE n.awaiting[u]
            /\ opens => ~n.valid[u]
            /\ IsDelta(f) => n.valid[f.ticker]
<1> DEFINE r == FrameRecord(f)
           opens == IsSnapshot(f) /\ u = f.ticker
<1>1. ~IsGap(n, r) /\ (IsDelta(f) => n.valid[f.ticker]) /\ r.data = f /\ Tables(n)
  BY CleanBefore DEF Still, FrameRecord, Raw, Typed
<1> HIDE DEF r
<1>2. /\ n'.valid[u] = IF opens THEN TRUE ELSE Still(n, r, u)
      /\ IsSnapshot(f) => ~Still(n, r, f.ticker)
      /\ n'.segment = IF IsSnapshot(f) THEN [n.segment EXCEPT ![f.ticker] = @ + 1] ELSE n.segment
      /\ n'.awaiting = IF IsSnapshot(f) THEN [n.awaiting EXCEPT ![f.ticker] = None] ELSE n.awaiting
  BY <1>1 DEF Accepts, Quiet, r
<1>3. Still(n, r, u) = n.valid[u] /\ (u = f.ticker => (Still(n, r, f.ticker) <=> n.valid[u]))
  BY <1>1 DEF Still, Hides, Tables
<1> QED BY <1>1, <1>2, <1>3 DEF Tables

LEMMA CalmDeliver ==
  ASSUME Typed, Wired, Alive, Agree, Calm, NEW L, Chron(L), Norm(L), NEW f \in wire,
         Accepts(n, n', FrameRecord(f)), Writes(f), Advances(L, f), Identified', Clean'
  PROVE  Calm' /\ Carries(f)
<1> DEFINE r == FrameRecord(f)
           t == f.ticker
           c == cursors[t]
           d == cursors'[t]
<1>0. /\ r.data = f /\ r.conn = conn /\ r.ordinal = n.ordinal + 1 /\ r.at = r.ordinal /\ n.ordinal \in Nat
      /\ IsFrame(f) /\ t \in Tickers /\ conn \in Nat /\ Tables(n)
      /\ DOMAIN cursors = Tickers /\ \A u \in Tickers : DOMAIN cursors[u] = CursorFields
  BY ReplayAssumption DEF FrameRecord, Raw, Typed, IsFrame, IsCursors, IsCursor
<1>1. Clean /\ ~IsGap(n, r) /\ ~Unsequenced(f)
  BY CleanBefore
<1> HIDE DEF r
<1>2. n'.time \in Int \union Stamps
  <2>1. n'.time = Larger(n.time, IF f.ts = None THEN r.at ELSE f.ts)
    BY <1>0, <1>1 DEF Accepts, Quiet, EventTime, r
  <2>2. n.time \in Int \union Stamps /\ r.at \in Int
    BY <1>0 DEF Calm
  <2>3. f.ts # None => f.ts \in Stamps
    BY <1>0 DEF Wired
  <2> QED BY <2>1, <2>2, <2>3 DEF Larger
<1>3. PICK b, e :
        /\ IsSnapshot(f) => b = BoundaryRecord(n, r)
        /\ IsEvent(e, n', r)
        /\ n'.out = (n.out \o IF IsSnapshot(f) THEN <<b>> ELSE <<>>) \o <<e>>
        /\ cursors' = Following(IF IsSnapshot(f) THEN Following(cursors, b) ELSE cursors, e)
  BY <1>1 DEF Writes, r
<1> DEFINE mid == IF IsSnapshot(f) THEN Following(cursors, b) ELSE cursors
<1>4. \A u \in Tickers :
        /\ n'.valid[u] = IF IsSnapshot(f) /\ u = t THEN TRUE ELSE n.valid[u]
        /\ n'.segment[u] = IF IsSnapshot(f) /\ u = t THEN n.segment[u] + 1 ELSE n.segment[u]
        /\ n'.awaiting[u] = IF IsSnapshot(f) /\ u = t THEN None ELSE n.awaiting[u]
        /\ IsSnapshot(f) /\ u = t => ~n.valid[u]
        /\ IsDelta(f) => n.valid[t]
  BY CleanTables
<1>5. /\ e.kind = "market_event" /\ e.type = f.type /\ e.ticker = t /\ e.market = Market(t)
      /\ e.segment = n'.segment[t] /\ e.valid = n'.valid[t] /\ e.scope = <<conn, f.sid>>
      /\ e.body = f.body /\ e.ordinal = n.ordinal + 1
  <2>1. n'.ids[t] = Market(t)
    <3>1. n'.ids[t] # None
      BY <1>0 DEF Accepts, r
    <3> QED BY <1>0, <3>1 DEF Identified
  <2> QED BY <1>0, <1>3, <2>1 DEF IsEvent
<1>6. CalmAt(t) /\ \A u \in Tickers : CalmAt(u)
  BY <1>0 DEF Calm
<1>7. ASSUME IsSnapshot(f)
      PROVE  /\ b \in Boundaries /\ b.kind = "segment_boundary" /\ b.ticker = t /\ b.evidence = "initial_snapshot"
             /\ b.segment = n'.segment[t] /\ b.scope = <<conn, f.sid>> /\ b.ordinal = n.ordinal + 1
             /\ n'.segment[t] = 1
  <2>1. n.segment[t] = 0 /\ n.awaiting[t] = "initial_snapshot"
    BY <1>0, <1>4, <1>6, <1>7 DEF CalmAt
  <2>2. f.sid = "book"
    BY <1>0, <1>7 DEF IsFrame, IsSnapshot, BookSid
  <2>3. Larger(n.time, r.at) \in Int \union Stamps
    BY <1>0 DEF Calm, Larger
  <2>4. b = [kind |-> "segment_boundary", ticker |-> t, segment |-> 1, evidence |-> "initial_snapshot",
             scope |-> <<conn, "book">>, ordinal |-> n.ordinal + 1, time |-> Larger(n.time, r.at)]
    <3>1. b = BoundaryRecord(n, r) /\ n.segment[t] + 1 = 1
      BY <1>3, <1>7, <2>1
    <3> QED BY <1>0, <2>1, <2>2, <3>1, Zenon DEF BoundaryRecord
  <2>5. n'.segment[t] = 1
    <3>1. n'.segment[t] = n.segment[t] + 1
      BY <1>0, <1>4, <1>7
    <3> QED BY <2>1, <3>1
  <2>6. <<conn, "book">> \in Nat \X {"book"} /\ n.ordinal + 1 \in Nat
    BY <1>0
  <2> HIDE DEF t
  <2>7. b \in Boundaries
    BY <1>0, <2>3, <2>4, <2>6 DEF Boundaries
  <2> QED BY <2>2, <2>4, <2>5, <2>7
<1>8. ASSUME NEW u \in Tickers, u # t PROVE mid[u] = cursors[u] /\ cursors'[u] = cursors[u]
  <2>1. DOMAIN mid = Tickers
    BY <1>0, FollowingDomain
  <2>2. mid[u] = cursors[u]
    BY <1>0, <1>7, <1>8, FollowingBoundary
  <2>3. cursors'[u] = Following(mid, e)[u]
    BY <1>3
  <2> HIDE DEF mid
  <2> QED BY <1>5, <1>8, <2>1, <2>2, <2>3, FollowingEvent
<1>9. /\ mid[t] = IF IsSnapshot(f) THEN StartSegment(c, b) ELSE c
      /\ mid[t].error = None => d = ApplyMarketEvent(mid[t], e)
  <2>1. mid[t] = IF IsSnapshot(f) THEN StartSegment(c, b) ELSE c
    BY <1>0, <1>6, <1>7, FollowingBoundary DEF CalmAt
  <2>2. DOMAIN mid = Tickers /\ cursors' = Following(mid, e)
    BY <1>0, <1>3, FollowingDomain
  <2> HIDE DEF mid
  <2>3. mid[t].error = None => d = ApplyMarketEvent(mid[t], e)
    BY <1>0, <1>5, <2>2, FollowingEvent
  <2> QED BY <2>1, <2>3
<1>10. ASSUME NEW u \in Tickers, u # t PROVE CalmAt(u)'
  <2>1. n'.valid[u] = n.valid[u] /\ n'.segment[u] = n.segment[u] /\ n'.awaiting[u] = n.awaiting[u]
    BY <1>4, <1>10
  <2>2. cursors'[u] = cursors[u] /\ CalmAt(u)
    BY <1>6, <1>8, <1>10
  <2> QED BY <2>1, <2>2 DEF CalmAt
<1> HIDE DEF c, d, mid
<1>11. CASE IsSnapshot(f)
  <2>1. /\ DOMAIN c = CursorFields /\ c.error = None /\ c.pending = None /\ c.ticker = t /\ c.market = Market(t)
        /\ c.state = "awaiting_initial_snapshot" /\ c.seen = {}
    BY <1>0, <1>4, <1>6, <1>11 DEF CalmAt, c
  <2>2. b # None
    BY <1>7, <1>11, ReplayAssumption
  <2>3. e.type = "orderbook_snapshot" /\ e.body.book \in [Levels -> Nat]
    BY <1>0, <1>5, <1>11 DEF IsFrame, BodyOK, IsSnapshot
  <2>4. e.valid = TRUE /\ e.segment = b.segment /\ e.scope = b.scope /\ e.ordinal = b.ordinal
    BY <1>0, <1>4, <1>5, <1>7, <1>11
  <2> DEFINE k == StartSegment(c, b)
             x == ApplyMarketEvent(k, e)
  <2>5. b.ticker = c.ticker /\ b.evidence = "initial_snapshot" /\ b.segment \notin c.seen
    BY <1>7, <1>11, <2>1
  <2>6. /\ DOMAIN k = CursorFields /\ k.error = None /\ k.pending = b
        /\ k.ticker = c.ticker /\ k.market = c.market
    <3>1. DOMAIN c = CursorFields /\ c.error = None /\ c.pending = None /\ c.state = "awaiting_initial_snapshot"
      BY <2>1
    <3> QED BY <2>5, <3>1, BoundaryFollows
  <2> HIDE DEF k
  <2>7. /\ x.error = None /\ x.pending = None /\ x.ticker = c.ticker /\ x.market = c.market
        /\ x.state = "valid" /\ x.segment = e.segment
        /\ x.projection \in Projections /\ x.projection.seeded /\ x.projection.book = e.body.book
    <3>1. e.ticker = k.ticker /\ e.market = k.market
      BY <1>5, <2>1, <2>6
    <3>2. k.pending # None /\ k.pending.ticker = k.ticker
      BY <2>2, <2>5, <2>6
    <3>3. e.segment = k.pending.segment /\ e.scope = k.pending.scope /\ e.ordinal = k.pending.ordinal
      BY <2>4, <2>6
    <3> QED BY <2>3, <2>4, <2>6, <3>1, <3>2, <3>3, SnapshotFollows
  <2>8. mid[t] = k /\ d = x
    BY <1>9, <1>11, <2>6 DEF k
  <2> HIDE DEF x
  <2>9. CalmAt(t)'
    BY <1>0, <1>4, <1>7, <1>11, <2>1, <2>6, <2>7, <2>8 DEF CalmAt, d
  <2>10. Calm'
    BY <1>2, <1>10, <2>9 DEF Calm
  <2>11. \A u \in Tickers : mid[u].error = None /\ mid[u].pending = IF u = t THEN b ELSE None
    BY <1>6, <1>8, <2>6, <2>7, <2>8 DEF CalmAt
  <2>12. IsBoundary(b, n', r)
    BY <1>0, <1>7, <1>11 DEF IsBoundary
  <2> QED BY <1>3, <2>10, <2>11, <2>12 DEF Carries, r, mid
<1>12. CASE ~IsSnapshot(f)
  <2>1. /\ DOMAIN c = CursorFields /\ c.error = None /\ c.pending = None /\ c.ticker = t /\ c.market = Market(t)
        /\ c.projection \in Projections /\ e.type \in {"orderbook_delta", "trade"}
    BY <1>0, <1>5, <1>6, <1>12 DEF CalmAt, c, IsFrame, EventTypes, IsSnapshot
  <2>2. e.type = "orderbook_delta" =>
           /\ c.state = "valid" /\ c.projection.seeded
           /\ e.body.level \in Levels /\ e.body.change \in Int
           /\ c.projection.book[e.body.level] + e.body.change >= 0
    <3> SUFFICES ASSUME e.type = "orderbook_delta"
                 PROVE  /\ c.state = "valid" /\ c.projection.seeded
                        /\ f.body.level \in Levels /\ f.body.change \in Int
                        /\ c.projection.book[f.body.level] + f.body.change >= 0
      BY <1>5
    <3>1. IsDelta(f) /\ n.valid[t] /\ f.type # "trade"
      BY <1>0, <1>4, <1>5 DEF IsDelta
    <3>2. c.state = "valid" /\ c.projection.seeded
      BY <1>0, <1>6, <3>1 DEF CalmAt, c
    <3>3. f.body.level \in Levels /\ f.body.change \in Int
      BY <1>0, <3>1 DEF IsFrame, BodyOK, IsDelta
    <3>4. Trusted /\ f.seq # None
      BY <1>1, <3>1 DEF Clean, Trusted, Unsequenced, SequenceRequired, IsDelta
    <3>5. f.book = [newest[t].book EXCEPT ![f.body.level] = @ + f.body.change]
      BY <1>1, <3>1, <3>4, AcceptedAdvancesBook, DeltaContinues DEF r
    <3>6. c.projection.book = newest[t].book
      BY <1>0, <2>1, <3>1, <3>2, <3>4 DEF Norm, UpToDate, c
    <3>7. f.book \in [Levels -> Nat] /\ c.projection.book \in [Levels -> Nat]
      BY <2>1, <3>1 DEF Wired, Projections
    <3>8. f.book[f.body.level] = c.projection.book[f.body.level] + f.body.change
      BY <3>3, <3>5, <3>6, <3>7
    <3> QED BY <3>2, <3>3, <3>7, <3>8
  <2>3. e.type = "trade" => e.body.price = 1
    BY <1>5 DEF Wired
  <2>4. c.state = "valid" => e.valid = TRUE /\ e.segment = c.segment
    <3>1. c.state = "valid" => n.valid[t] /\ c.segment = n.segment[t]
      BY <1>0, <2>1 DEF Agree, c
    <3> QED BY <1>0, <1>4, <1>5, <1>12, <3>1 DEF Tables
  <2> DEFINE x == ApplyMarketEvent(c, e)
  <2>5. /\ x.error = None /\ x.pending = None /\ x.ticker = c.ticker /\ x.market = c.market
        /\ x.state = c.state /\ x.segment = c.segment /\ x.seen = c.seen
        /\ x.projection \in Projections /\ x.projection.seeded = c.projection.seeded
    <3> HIDE DEF t
    <3>1. e.ticker = c.ticker /\ e.market = c.market
      BY <1>5, <2>1
    <3> QED BY <2>1, <2>2, <2>3, <2>4, <3>1, UpdateFollows
  <2>6. d = x
    BY <1>9, <1>12, <2>1
  <2> HIDE DEF x
  <2>7. CalmAt(t)'
    BY <1>0, <1>4, <1>6, <1>12, <2>1, <2>5, <2>6 DEF CalmAt, d, c
  <2>8. Calm'
    BY <1>2, <1>10, <2>7 DEF Calm
  <2> QED BY <1>3, <1>12, <2>8 DEF Carries, r, mid
<1> QED BY <1>11, <1>12

-----------------------------------------------------------------------------
(* 20. The rows of a clean normalization.                                      *)

LEMMA MaterializedSteps ==
  ASSUME NEW ids, NEW file, Len(file) \in Nat
  PROVE  \E h : /\ Materialized(ids, file) = h[Len(file)]
                /\ h[0] = NewFeatures(ids) /\ \A i \in 1..Len(file) : h[i] = Materialize(h[i - 1], file[i])
<1> DEFINE m == Len(file)
           first == NewFeatures(ids)
           G == {j \in 0..m : \E f : f = [i \in 0..j |-> IF i = 0 THEN first ELSE Materialize(f[i - 1], file[i])]}
<1> HIDE DEF first
<1>1. 0 \in G
  <2> DEFINE f == [i \in 0..0 |-> first]
  <2>1. f = [i \in 0..0 |-> IF i = 0 THEN first ELSE Materialize(f[i - 1], file[i])]
    <3>1. \A i \in 0..0 : i = 0
      OBVIOUS
    <3> QED BY <3>1
  <2> HIDE DEF f
  <2>2. \E g : g = [i \in 0..0 |-> IF i = 0 THEN first ELSE Materialize(g[i - 1], file[i])]
    BY <2>1
  <2> QED BY <2>2
<1>2. ASSUME NEW j \in 0..(m - 1), j \in G PROVE j + 1 \in G
  <2>1. PICK f : f = [i \in 0..j |-> IF i = 0 THEN first ELSE Materialize(f[i - 1], file[i])]
    BY <1>2
  <2> DEFINE last == Materialize(f[j], file[j + 1])
             g == [i \in 0..(j + 1) |-> IF i <= j THEN f[i] ELSE last]
  <2>2. \A i \in 0..(j + 1) : g[i] = IF i = 0 THEN first ELSE Materialize(g[i - 1], file[i])
    <3> TAKE i \in 0..(j + 1)
    <3>1. CASE i = 0
      BY <2>1, <3>1
    <3>2. CASE i \in 1..j
      <4>1. g[i] = f[i] /\ g[i - 1] = f[i - 1]
        BY <3>2
      <4>2. f[i] = Materialize(f[i - 1], file[i])
        BY <2>1, <3>2
      <4> HIDE DEF g
      <4> QED BY <3>2, <4>1, <4>2
    <3>3. CASE i = j + 1
      <4>1. g[i] = last /\ g[i - 1] = f[j]
        BY <3>3
      <4> HIDE DEF g
      <4> QED BY <3>3, <4>1
    <3> QED BY <3>1, <3>2, <3>3
  <2>3. g = [i \in 0..(j + 1) |-> g[i]]
    OBVIOUS
  <2> HIDE DEF g
  <2>4. g = [i \in 0..(j + 1) |-> IF i = 0 THEN first ELSE Materialize(g[i - 1], file[i])]
    BY <2>2, <2>3
  <2>5. \E h : h = [i \in 0..(j + 1) |-> IF i = 0 THEN first ELSE Materialize(h[i - 1], file[i])]
    BY <2>4
  <2> QED BY <2>5
<1>3. m \in G
  <2> HIDE DEF G
  <2>1. \A j \in 0..m : j \in G
    BY <1>1, <1>2, Climb
  <2> QED BY <2>1
<1> DEFINE after == CHOOSE f : f = [i \in 0..m |-> IF i = 0 THEN first ELSE Materialize(f[i - 1], file[i])]
<1>4. after = [i \in 0..m |-> IF i = 0 THEN first ELSE Materialize(after[i - 1], file[i])]
  BY <1>3
<1>5. Materialized(ids, file) = after[m]
  BY DEF Materialized, first
<1> HIDE DEF after
<1>6. after[0] = first /\ \A i \in 1..m : after[i] = Materialize(after[i - 1], file[i])
  BY <1>4
<1> QED BY <1>5, <1>6 DEF first

LEMMA MaterializedEmpty ==
  ASSUME NEW ids
  PROVE  Materialized(ids, <<>>) = NewFeatures(ids)
<1>1. Len(<<>>) = 0
  OBVIOUS
<1> QED BY <1>1, MaterializedSteps

\* A file and one record more.
LEMMA MaterializedAppend ==
  ASSUME NEW ids, NEW file, NEW rec, \E S : file \in Seq(S)
  PROVE  Materialized(ids, file \o <<rec>>) = Materialize(Materialized(ids, file), rec)
<1> DEFINE m == Len(file)
           longer == file \o <<rec>>
<1>1. m \in Nat /\ Len(longer) = m + 1 /\ longer[m + 1] = rec /\ \A i \in 1..m : longer[i] = file[i]
  <2>1. PICK S : file \in Seq(S) /\ <<rec>> \in Seq(S) /\ longer = Append(file, rec)
    BY AppendTables
  <2> HIDE DEF longer
  <2> QED BY <2>1
<1> HIDE DEF longer, m
<1>2. PICK g : /\ Materialized(ids, file) = g[m]
               /\ g[0] = NewFeatures(ids) /\ \A i \in 1..m : g[i] = Materialize(g[i - 1], file[i])
  BY <1>1, MaterializedSteps DEF m
<1>3. PICK h : /\ Materialized(ids, longer) = h[m + 1]
               /\ h[0] = NewFeatures(ids) /\ \A i \in 1..(m + 1) : h[i] = Materialize(h[i - 1], longer[i])
  <2>1. Len(longer) \in Nat
    BY <1>1
  <2>2. \E h : /\ Materialized(ids, longer) = h[Len(longer)]
               /\ h[0] = NewFeatures(ids) /\ \A i \in 1..Len(longer) : h[i] = Materialize(h[i - 1], longer[i])
    BY <2>1, MaterializedSteps
  <2> QED BY <1>1, <2>2
<1> DEFINE G == {i \in 0..m : h[i] = g[i]}
<1>4. 0 \in G
  BY <1>1, <1>2, <1>3
<1>5. ASSUME NEW k \in 0..(m - 1), k \in G PROVE k + 1 \in G
  <2>1. k + 1 \in 1..m /\ k + 1 \in 1..(m + 1) /\ (k + 1) - 1 = k /\ h[k] = g[k]
    BY <1>1, <1>5
  <2>2. h[k + 1] = Materialize(h[k], longer[k + 1]) /\ g[k + 1] = Materialize(g[k], file[k + 1])
    BY <1>2, <1>3, <2>1
  <2> QED BY <1>1, <2>1, <2>2
<1>6. h[m] = g[m]
  <2> HIDE DEF G
  <2>1. \A i \in 0..m : i \in G
    BY <1>1, <1>4, <1>5, Climb
  <2>2. m \in G
    BY <1>1, <2>1
  <2> QED BY <2>2 DEF G
<1>7. m + 1 \in 1..(m + 1) /\ (m + 1) - 1 = m
  BY <1>1
<1>8. h[m + 1] = Materialize(h[m], rec)
  BY <1>1, <1>3, <1>7
<1> QED BY <1>2, <1>3, <1>6, <1>8 DEF longer

\* A record that every cursor accepts.
LEMMA FollowsAll ==
  ASSUME NEW cs, DOMAIN cs = Tickers, \A t \in Tickers : cs[t].error = None, NEW rec,
         rec.kind \in {"segment_boundary", "market_event"}
  PROVE  Following(cs, rec) = Follow(cs, rec)
<1>1. Follow(cs, rec) = [t \in Tickers |-> Follow(cs, rec)[t]]
  BY DEF Follow
<1>2. Following(cs, rec) = [t \in Tickers |-> Follow(cs, rec)[t]]
  BY DEF Following
<1> QED BY <1>1, <1>2

IsFeatures(m) ==
  /\ DOMAIN m = {"cursors", "rows", "ordinal", "error"}
  /\ m.error = None /\ m.ordinal \in Nat /\ \E S : m.rows \in Seq(S)
Row(c, rec) ==
  [ticker |-> rec.ticker, segment |-> c.segment, ordinal |-> rec.ordinal, time |-> rec.time, type |-> rec.type,
   book |-> c.projection.book]

LEMMA RecordMaterialized ==
  ASSUME NEW m, IsFeatures(m), DOMAIN m.cursors = Tickers, \A t \in Tickers : m.cursors[t].error = None,
         NEW rec, rec.kind \in {"segment_boundary", "market_event"}, rec.ordinal \in Nat, m.ordinal <= rec.ordinal,
         ~BoundaryUnmatched(m, rec), \A t \in Tickers : Following(m.cursors, rec)[t].error = None
  PROVE  LET k == Materialize(m, rec)
             cs == Following(m.cursors, rec)
         IN /\ IsFeatures(k) /\ k.cursors = cs /\ k.ordinal = rec.ordinal
            /\ k.rows = IF rec.kind = "market_event" /\ cs[rec.ticker].state = "valid"
                          THEN Append(m.rows, Row(cs[rec.ticker], rec)) ELSE m.rows
<1> DEFINE k == Materialize(m, rec)
           cs == Following(m.cursors, rec)
           rows == IF rec.kind = "market_event" /\ cs[rec.ticker].state = "valid"
                     THEN Append(m.rows, Row(cs[rec.ticker], rec)) ELSE m.rows
<1>1. Follow(m.cursors, rec) = cs /\ DOMAIN cs = Tickers
  BY FollowsAll, FollowingDomain
<1>2. ~ (rec.ordinal < m.ordinal) /\ rec.kind # "discontinuity"
  BY DEF IsFeatures
<1> HIDE DEF cs
<1>3. {t \in DOMAIN cs : cs[t].error # None} = {}
  BY <1>1 DEF cs
<1>4. k = [m EXCEPT !.cursors = cs, !.ordinal = rec.ordinal, !.rows = rows]
  BY <1>1, <1>2, <1>3 DEF Materialize, IsFeatures, Row
<1>5. \E S : rows \in Seq(S)
  <2>1. PICK S : m.rows \in Seq(S)
    BY DEF IsFeatures
  <2>2. \A x : Append(m.rows, x) \in Seq(S \union {x}) /\ m.rows \in Seq(S \union {x})
    BY <2>1
  <2> QED BY <2>1, <2>2
<1> HIDE DEF rows, k
<1>6. /\ DOMAIN k = {"cursors", "rows", "ordinal", "error"} /\ k.error = None
      /\ k.cursors = cs /\ k.ordinal = rec.ordinal /\ k.rows = rows
  BY <1>4 DEF IsFeatures
<1> QED BY <1>5, <1>6 DEF IsFeatures, k, cs, rows

\* A row added is its ticker's last one, and no other ticker's.
LEMMA RowAdded ==
  ASSUME NEW rows, \E S : rows \in Seq(S), NEW row
  PROVE  LET more == Append(rows, row)
         IN /\ IsLastRow(more, Len(rows) + 1, row.ticker) /\ more[Len(rows) + 1] = row
            /\ \A i \in DOMAIN more : (i \in DOMAIN rows /\ more[i] = rows[i]) \/ more[i] = row
            /\ \A i, t : IsLastRow(rows, i, t) /\ t # row.ticker => IsLastRow(more, i, t) /\ more[i] = rows[i]
<1> DEFINE more == Append(rows, row)
           m == Len(rows)
<1>1. /\ m \in Nat /\ DOMAIN rows = 1..m /\ DOMAIN more = 1..(m + 1) /\ more[m + 1] = row
      /\ \A i \in 1..m : more[i] = rows[i]
  OBVIOUS
<1> HIDE DEF more, m
<1>2. IsLastRow(more, m + 1, row.ticker)
  BY <1>1 DEF IsLastRow
<1>3. \A i \in DOMAIN more : (i \in DOMAIN rows /\ more[i] = rows[i]) \/ more[i] = row
  <2>1. \A i \in 1..(m + 1) : i \in 1..m \/ i = m + 1
    BY <1>1
  <2> QED BY <1>1, <2>1
<1>4. ASSUME NEW i, NEW t, IsLastRow(rows, i, t), t # row.ticker
      PROVE  IsLastRow(more, i, t) /\ more[i] = rows[i]
  <2>1. i \in 1..m /\ i \in 1..(m + 1) /\ rows[i].ticker = t
    BY <1>1, <1>4 DEF IsLastRow
  <2>2. \A j \in DOMAIN more : j > i => more[j].ticker # t
    BY <1>1, <1>3, <1>4 DEF IsLastRow
  <2> QED BY <1>1, <2>1, <2>2 DEF IsLastRow
<1> QED BY <1>1, <1>2, <1>3, <1>4 DEF more, m

\* The rows of what is written so far: they are of first segments, and the last
\* one of a valid ticker has its cursor's book.
Held(out) == Materialized([t \in Tickers |-> Market(t)], out)
Rows ==
  LET m == Held(n.out)
  IN /\ IsFeatures(m) /\ m.cursors = cursors /\ m.ordinal <= n.ordinal
     /\ \A i \in DOMAIN m.rows : m.rows[i].segment = 1
     /\ \A t \in Tickers : n.valid[t] =>
          \E i : IsLastRow(m.rows, i, t) /\ m.rows[i].book = cursors[t].projection.book

LEMMA RowsKept ==
  ASSUME Rows, UNCHANGED cursors, n'.out = n.out, n'.valid = n.valid,
         n.ordinal \in Nat, n'.ordinal \in Nat, n.ordinal <= n'.ordinal
  PROVE  Rows'
<1> DEFINE m == Held(n.out)
<1>1. Held(n'.out) = m
  OBVIOUS
<1>2. m.ordinal <= n'.ordinal
  <2>1. m.ordinal \in Nat /\ m.ordinal <= n.ordinal
    BY DEF Rows, IsFeatures
  <2> HIDE DEF m
  <2> QED BY <2>1
<1> HIDE DEF m
<1>3. /\ IsFeatures(m) /\ m.cursors = cursors'
      /\ \A i \in DOMAIN m.rows : m.rows[i].segment = 1
      /\ \A t \in Tickers : n'.valid[t] =>
           \E i : IsLastRow(m.rows, i, t) /\ m.rows[i].book = cursors'[t].projection.book
  BY DEF Rows, m
<1> QED BY <1>1, <1>2, <1>3 DEF Rows

\* The materialization of a clean frame's records.
LEMMA FrameMaterialized ==
  ASSUME Typed, Alive, Calm, Calm', Rows, NEW f \in wire, Carries(f)
  PROVE  LET m == Held(n.out)
             k == Held(n'.out)
             t == f.ticker
         IN /\ IsFeatures(k) /\ k.cursors = cursors' /\ k.ordinal = n.ordinal + 1
            /\ \E row : /\ row.ticker = t /\ row.segment = cursors'[t].segment
                        /\ row.book = cursors'[t].projection.book
                        /\ k.rows = IF cursors'[t].state = "valid" THEN Append(m.rows, row) ELSE m.rows
            /\ \A u \in Tickers : u # t => cursors'[u] = cursors[u]
<1> DEFINE m == Held(n.out)
           r == FrameRecord(f)
           t == f.ticker
<1>0. /\ r.data = f /\ r.conn = conn /\ r.ordinal = n.ordinal + 1 /\ n.ordinal \in Nat /\ t \in Tickers
      /\ DOMAIN cursors = Tickers /\ \E S : n.out \in Seq(S)
  BY DEF FrameRecord, Raw, Typed, IsFrame, IsCursors, Tables
<1>1. PICK b, e :
        LET mid == IF IsSnapshot(f) THEN Following(cursors, b) ELSE cursors
        IN /\ IsSnapshot(f) => /\ IsBoundary(b, n', r)
                               /\ \A u \in Tickers : /\ mid[u].error = None
                                                     /\ mid[u].pending = IF u = t THEN b ELSE None
           /\ IsEvent(e, n', r) /\ cursors' = Following(mid, e)
           /\ n'.out = (n.out \o IF IsSnapshot(f) THEN <<b>> ELSE <<>>) \o <<e>>
  BY DEF Carries
<1> HIDE DEF r
<1> DEFINE mid == IF IsSnapshot(f) THEN Following(cursors, b) ELSE cursors
           mark == n.out \o IF IsSnapshot(f) THEN <<b>> ELSE <<>>
           x == Held(mark)
<1>2. /\ e.kind = "market_event" /\ e.type = f.type /\ e.ticker = t /\ e.segment = n'.segment[t]
      /\ e.scope = <<conn, f.sid>> /\ e.ordinal = n.ordinal + 1
      /\ IsSnapshot(f) => /\ b.kind = "segment_boundary" /\ b.ticker = t /\ b.segment = n'.segment[t]
                          /\ b.scope = <<conn, f.sid>> /\ b.ordinal = n.ordinal + 1
  BY <1>0, <1>1 DEF IsEvent, IsBoundary
<1>3. /\ IsFeatures(m) /\ m.cursors = cursors /\ m.ordinal \in Nat /\ m.ordinal <= n.ordinal + 1
      /\ \A u \in Tickers : m.cursors[u].error = None /\ m.cursors[u].pending = None
  <2>1. IsFeatures(m) /\ m.cursors = cursors /\ m.ordinal <= n.ordinal
    BY DEF Rows
  <2>2. \A u \in Tickers : cursors[u].error = None /\ cursors[u].pending = None
    BY DEF Calm, CalmAt
  <2> HIDE DEF m
  <2> QED BY <1>0, <2>1, <2>2 DEF IsFeatures
<1>4. n.ordinal + 1 \in Nat
  BY <1>0
<1>5. /\ IsFeatures(x) /\ x.cursors = mid /\ x.ordinal \in Nat /\ x.ordinal <= n.ordinal + 1 /\ x.rows = m.rows
      /\ \E S : mark \in Seq(S)
      /\ DOMAIN mid = Tickers /\ \A u \in Tickers : mid[u].error = None
      /\ \A u \in Tickers : mid[u].pending # None => IsSnapshot(f) /\ u = t /\ mid[u].pending = b
  <2>1. CASE IsSnapshot(f)
    <3>1. x = Materialize(m, b)
      <4>1. mark = n.out \o <<b>>
        BY <2>1
      <4> HIDE DEF mark
      <4> QED BY <1>0, <4>1, MaterializedAppend DEF Held
    <3>2. mid = Following(m.cursors, b) /\ \A u \in Tickers : mid[u].error = None
      BY <1>1, <1>3, <2>1
    <3>3. DOMAIN mid = Tickers
      BY <3>2, FollowingDomain
    <3>4. \E S : mark \in Seq(S)
      <4>1. PICK S : n.out \in Seq(S) /\ <<b>> \in Seq(S)
        BY <1>0, AppendTables
      <4>2. mark = n.out \o <<b>>
        BY <2>1
      <4> HIDE DEF mark
      <4> QED BY <4>1, <4>2
    <3>5. \A u \in Tickers : mid[u].pending # None => u = t /\ mid[u].pending = b
      BY <1>1, <2>1
    <3> HIDE DEF m, x, mid, mark
    <3>6. ~BoundaryUnmatched(m, b)
      BY <1>0, <1>3 DEF BoundaryUnmatched, PendingIn
    <3>7. /\ IsFeatures(x) /\ x.cursors = mid /\ x.ordinal = n.ordinal + 1 /\ x.rows = m.rows
      <4>1. /\ DOMAIN m.cursors = Tickers /\ \A u \in Tickers : m.cursors[u].error = None
            /\ \A u \in Tickers : Following(m.cursors, b)[u].error = None
        BY <1>0, <1>3, <3>2
      <4>2. b.kind = "segment_boundary" /\ b.ordinal \in Nat /\ m.ordinal <= b.ordinal
        BY <1>2, <1>3, <1>4, <2>1
      <4> QED BY <1>2, <1>3, <2>1, <3>1, <3>2, <3>6, <4>1, <4>2, RecordMaterialized
    <3> QED BY <1>4, <2>1, <3>2, <3>3, <3>4, <3>5, <3>7
  <2>2. CASE ~IsSnapshot(f)
    <3>1. mark = n.out /\ mid = cursors
      BY <1>0, <2>2
    <3>2. x = m
      BY <3>1
    <3> HIDE DEF m, x, mid, mark
    <3> QED BY <1>0, <1>3, <3>1, <3>2
  <2> QED BY <2>1, <2>2
<1>6. cursors' = Following(x.cursors, e) /\ \A u \in Tickers : cursors'[u].error = None
  BY <1>1, <1>5 DEF Calm, CalmAt
<1>7. Held(n'.out) = Materialize(x, e)
  <2>1. n'.out = mark \o <<e>>
    BY <1>1
  <2> HIDE DEF mark
  <2> QED BY <1>5, <2>1, MaterializedAppend DEF Held
<1>8. \A u \in Tickers : u # t => cursors'[u] = cursors[u]
  <2> SUFFICES ASSUME NEW u \in Tickers, u # t PROVE cursors'[u] = cursors[u]
    OBVIOUS
  <2>1. mid[u] = cursors[u]
    BY <1>0, <1>2, FollowingBoundary
  <2>2. DOMAIN mid = Tickers /\ cursors' = Following(mid, e)
    BY <1>1, <1>5
  <2> HIDE DEF mid
  <2> QED BY <1>2, <2>1, <2>2, FollowingEvent
<1> HIDE DEF m, x, mid, mark
<1>9. ~BoundaryUnmatched(x, e)
  <2> SUFFICES ASSUME NEW u \in DOMAIN x.cursors, x.cursors[u].pending # None
               PROVE  /\ e.kind = "market_event" /\ e.type = "orderbook_snapshot"
                      /\ <<e.ticker, e.segment, e.scope, e.ordinal>>
                           = <<x.cursors[u].pending.ticker, x.cursors[u].pending.segment,
                               x.cursors[u].pending.scope, x.cursors[u].pending.ordinal>>
    BY DEF BoundaryUnmatched, PendingIn
  <2>1. IsSnapshot(f) /\ x.cursors[u].pending = b
    BY <1>5
  <2> QED BY <1>2, <2>1 DEF IsSnapshot
<1> DEFINE k == Materialize(x, e)
           row == Row(cursors'[t], e)
<1>10. /\ IsFeatures(k) /\ k.cursors = cursors' /\ k.ordinal = n.ordinal + 1
       /\ k.rows = IF cursors'[t].state = "valid" THEN Append(m.rows, row) ELSE m.rows
  <2>1. DOMAIN x.cursors = Tickers /\ \A u \in Tickers : x.cursors[u].error = None
    BY <1>5
  <2>2. e.kind = "market_event" /\ e.ordinal \in Nat /\ x.ordinal <= e.ordinal
    BY <1>2, <1>4, <1>5
  <2>3. /\ IsFeatures(k) /\ k.cursors = Following(x.cursors, e) /\ k.ordinal = e.ordinal
        /\ k.rows = IF e.kind = "market_event" /\ Following(x.cursors, e)[e.ticker].state = "valid"
                      THEN Append(x.rows, Row(Following(x.cursors, e)[e.ticker], e)) ELSE x.rows
    BY <1>5, <1>6, <1>9, <2>1, <2>2, RecordMaterialized
  <2> HIDE DEF k
  <2> QED BY <1>2, <1>5, <1>6, <2>3
<1>11. row.ticker = t /\ row.segment = cursors'[t].segment /\ row.book = cursors'[t].projection.book
  BY <1>2 DEF Row
<1> HIDE DEF k, row
<1> QED BY <1>7, <1>8, <1>10, <1>11 DEF k, m

LEMMA RowsDeliver ==
  ASSUME Typed, Alive, Calm, Calm', Agree', Rows, NEW f \in wire, Accepts(n, n', FrameRecord(f)), Carries(f), Clean'
  PROVE  Rows'
<1> DEFINE t == f.ticker
           m == Held(n.out)
           k == Held(n'.out)
<1>0. t \in Tickers
  BY DEF Typed, IsFrame
<1>1. /\ IsFeatures(k) /\ k.cursors = cursors' /\ k.ordinal = n.ordinal + 1
      /\ \A u \in Tickers : u # t => cursors'[u] = cursors[u]
  BY FrameMaterialized
<1>2. PICK row : /\ row.ticker = t /\ row.segment = cursors'[t].segment
                 /\ row.book = cursors'[t].projection.book
                 /\ k.rows = IF cursors'[t].state = "valid" THEN Append(m.rows, row) ELSE m.rows
  BY FrameMaterialized
<1>3. n'.ordinal = n.ordinal + 1 /\ n.ordinal \in Nat
  BY DEF Accepts, Continues, FrameRecord, Raw, Typed
<1>4. /\ \E S : m.rows \in Seq(S)
      /\ \A i \in DOMAIN m.rows : m.rows[i].segment = 1
      /\ \A u \in Tickers : n.valid[u] =>
           \E i : IsLastRow(m.rows, i, u) /\ m.rows[i].book = cursors[u].projection.book
  BY DEF Rows, IsFeatures
<1>5. /\ cursors'[t].state = "valid" <=> n'.valid[t]
      /\ n'.valid[t] => cursors'[t].segment = 1
  BY <1>0 DEF Agree, Calm, CalmAt
<1>6. \A u \in Tickers : u # t => (n'.valid[u] <=> n.valid[u])
  BY CleanTables
<1>7. n'.valid[t] => row.segment = 1
  BY <1>2, <1>5
<1> HIDE DEF k, m, t
<1>8. \A i \in DOMAIN k.rows : k.rows[i].segment = 1
  <2>1. CASE n'.valid[t]
    <3>1. k.rows = Append(m.rows, row)
      BY <1>2, <1>5, <2>1
    <3>2. \A i \in DOMAIN k.rows : (i \in DOMAIN m.rows /\ k.rows[i] = m.rows[i]) \/ k.rows[i] = row
      BY <1>4, <3>1, RowAdded
    <3> QED BY <1>4, <1>7, <2>1, <3>2
  <2>2. CASE ~n'.valid[t]
    BY <1>2, <1>4, <1>5, <2>2
  <2> QED BY <2>1, <2>2
<1>9. ASSUME NEW u \in Tickers, n'.valid[u]
      PROVE  \E i : IsLastRow(k.rows, i, u) /\ k.rows[i].book = cursors'[u].projection.book
  <2>1. CASE u = t
    <3>1. k.rows = Append(m.rows, row)
      BY <1>2, <1>5, <1>9, <2>1
    <3>2. IsLastRow(k.rows, Len(m.rows) + 1, row.ticker) /\ k.rows[Len(m.rows) + 1] = row
      BY <1>4, <3>1, RowAdded
    <3> QED BY <1>2, <2>1, <3>2
  <2>2. CASE u # t
    <3>1. PICK i : IsLastRow(m.rows, i, u) /\ m.rows[i].book = cursors'[u].projection.book
      BY <1>1, <1>4, <1>6, <1>9, <2>2
    <3>2. CASE k.rows = m.rows
      BY <3>1, <3>2
    <3>3. CASE k.rows = Append(m.rows, row)
      <4>1. \A j, v : IsLastRow(m.rows, j, v) /\ v # row.ticker => IsLastRow(k.rows, j, v) /\ k.rows[j] = m.rows[j]
        <5>1. \E S : m.rows \in Seq(S)
          BY <1>4
        <5>2. \A j, v : IsLastRow(m.rows, j, v) /\ v # row.ticker =>
                IsLastRow(Append(m.rows, row), j, v) /\ Append(m.rows, row)[j] = m.rows[j]
          BY <5>1, RowAdded, Zenon
        <5> QED BY <3>3, <5>2, Zenon
      <4>2. IsLastRow(k.rows, i, u) /\ k.rows[i] = m.rows[i]
        BY <1>2, <2>2, <3>1, <4>1
      <4> QED BY <3>1, <4>2
    <3> QED BY <1>2, <3>2, <3>3
  <2> QED BY <2>1, <2>2
<1>10. k.ordinal <= n'.ordinal
  BY <1>1, <1>3
<1> QED BY <1>1, <1>8, <1>9, <1>10 DEF Rows, k

-----------------------------------------------------------------------------
(* 21. A capture called complete is.                                           *)

\* What holds while there is no reason to call the capture less than complete.
Whole == Runs /\ Calm /\ Rows

\* The inductive invariant.
CInv ==
  /\ IInv /\ Wired /\ Coded /\ Opening
  /\ Alive => Identified
  /\ Alive /\ Clean => Whole

LEMMA CalmKept ==
  ASSUME Calm, UNCHANGED cursors, n'.time = n.time, n'.valid = n.valid, n'.segment = n.segment,
         n'.awaiting = n.awaiting
  PROVE  Calm'
<1>1. \A t : CalmAt(t)' <=> CalmAt(t)
  BY DEF CalmAt
<1> QED BY <1>1 DEF Calm

LEMMA WholeDeliver ==
  ASSUME Typed, Wired, Alive, Agree, Agree', NEW L, Chron(L), Norm(L), NEW f \in wire, NEW again \in BOOLEAN,
         Deliver(f, again), Alive', Clean', Identified', Clean => Whole
  PROVE  Whole'
<1> DEFINE r == FrameRecord(f)
<1>0. UNCHANGED <<conn, up>> /\ up /\ Delivers(f) /\ n.ordinal \in Nat
  BY FrameReads DEF Deliver, venueVars, FrameRecord, Typed
<1>1. r.ordinal = n.ordinal + 1 /\ r.data = f
  BY DEF FrameRecord, Raw
<1>2. ~Refused(n, n')
  BY DEF Refused, Alive
<1> HIDE DEF r
<1>3. CASE Skips(n, n', r) /\ cursors' = cursors
  <2>1. /\ n'.time = n.time /\ n'.valid = n.valid /\ n'.segment = n.segment /\ n'.awaiting = n.awaiting
        /\ n'.out = n.out /\ n'.payloads = n.payloads /\ n'.previous = n.previous /\ n'.topology = n.topology
        /\ n'.reasons = n.reasons /\ n'.discontinuous = n.discontinuous /\ n'.ordinal = n.ordinal + 1
    BY <1>1, <1>3 DEF Skips, Continues
  <2>2. Whole
    BY <2>1 DEF Clean
  <2>3. n'.ordinal \in Nat /\ n.ordinal <= n'.ordinal
    BY <1>0, <2>1
  <2> QED BY <1>0, <1>3, <2>1, <2>2, <2>3, CalmKept, RowsKept, RunsKept DEF Whole
<1>4. CASE Accepts(n, n', r) /\ Writes(f)
  <2>1. Clean /\ ~IsGap(n, r)
    BY <1>4, CleanBefore DEF r
  <2>2. Whole
    BY <2>1
  <2>3. Advances(L, f)
    BY <1>0, <1>4, AcceptedAdvances DEF r
  <2>4. Runs'
    BY <1>0, <1>4, <2>1, <2>2, <2>3, RunsDeliver DEF Whole, r
  <2>5. Calm' /\ Carries(f)
    BY <1>4, <2>2, <2>3, CalmDeliver DEF Whole, r
  <2>6. Rows'
    BY <1>4, <2>2, <2>5, RowsDeliver DEF Whole, r
  <2> QED BY <2>4, <2>5, <2>6 DEF Whole
<1> QED BY <1>0, <1>2, <1>3, <1>4 DEF Delivers, r

LEMMA WholeSteps ==
  ASSUME Typed, Wired, Alive => Agree, Alive' => Agree', NEW L, Chron(L), Alive => Norm(L), [Next]_vars,
         Alive', Clean', Identified', Alive /\ Clean => Whole
  PROVE  Whole'
<1>1. ASSUME Connect PROVE Whole'
  <2>1. /\ n'.out = n.out /\ n'.time = n.time /\ n'.valid = n.valid /\ n'.segment = n.segment
        /\ n'.awaiting = n.awaiting /\ n'.reasons = n.reasons /\ n'.discontinuous = n.discontinuous
        /\ n.ordinal \in Nat /\ n'.ordinal \in Nat /\ n.ordinal <= n'.ordinal /\ cursors' = cursors
    BY <1>1, ConnectBinds DEF Bound, Alive
  <2>2. Whole
    BY <1>1, <2>1 DEF Connect, Clean
  <2> QED BY <1>1, <2>1, <2>2, CalmKept, RowsKept, RunsConnect DEF Whole
<1>2. ASSUME Disconnect PROVE FALSE
  BY <1>2, EndReads DEF Disconnect, Ends, EndsAll, Clean
<1>3. ASSUME NEW f \in wire, NEW again \in BOOLEAN, Deliver(f, again) PROVE Whole'
  <2>1. Alive
    BY <1>3 DEF Deliver
  <2> QED BY <1>3, <2>1, WholeDeliver
<1>4. ASSUME UNCHANGED <<n, cursors, conn, up>> PROVE Whole'
  <2>1. Alive /\ Whole /\ n.ordinal \in Nat
    BY <1>4 DEF Alive, Clean, Typed
  <2>2. n.ordinal <= n'.ordinal
    BY <1>4, <2>1
  <2> QED BY <1>4, <2>1, <2>2, CalmKept, RowsKept, RunsKept DEF Whole
<1>5. ASSUME \/ \E t \in Tickers : SendSnapshot(t) \/ SendDelta(t) \/ SendTrade(t)
             \/ \E f \in wire : Lose(f)
             \/ UNCHANGED vars
      PROVE  UNCHANGED <<n, cursors, conn, up>>
  BY <1>5 DEF SendSnapshot, SendDelta, SendTrade, Lose, vars
<1> QED BY <1>1, <1>2, <1>3, <1>4, <1>5 DEF Next

LEMMA InitWhole == Init => CInv
<1> SUFFICES ASSUME Init PROVE CInv
  OBVIOUS
<1>1. IInv
  BY InitInv
<1>2. PICK policy \in Policies, topology \in Declared : n = Start(policy, topology)
  BY DEF Init
<1>3. /\ n.error = None /\ n.ordinal = 0 /\ n.time = -1 /\ n.payloads = {} /\ n.out = <<>>
      /\ n.ids = [t \in Tickers |-> None] /\ n.segment = [t \in Tickers |-> 0]
      /\ n.valid = [t \in Tickers |-> FALSE] /\ n.awaiting = [t \in Tickers |-> "initial_snapshot"]
  BY <1>2 DEF Start
<1>4. /\ next = [t \in Tickers |-> 1] /\ nextTrade = [t \in Tickers |-> 1]
      /\ wire = {} /\ opened = {} /\ cursors = [t \in Tickers |-> NewCursor(t, Market(t))]
      /\ up = FALSE
  BY DEF Init
<1>5. Wired /\ Coded /\ Identified
  BY <1>3, <1>4 DEF Wired, Coded, Alive, Identified
<1>6. Opening
  BY <1>3, <1>4 DEF Opening, FirstIs
<1>7. Runs
  BY <1>3, <1>4 DEF Runs, Run
<1>8. Calm
  <2>1. EmptyBook \in [Levels -> Nat]
    BY DEF EmptyBook
  <2>2. NewProjection \in Projections
    BY <2>1 DEF NewProjection, Projections
  <2>3. ASSUME NEW t \in Tickers PROVE CalmAt(t)
    <3>1. cursors[t] = NewCursor(t, Market(t))
      BY <1>4
    <3>2. /\ cursors[t].error = None /\ cursors[t].pending = None /\ cursors[t].ticker = t
          /\ cursors[t].market = Market(t) /\ cursors[t].projection = NewProjection
          /\ cursors[t].state = "awaiting_initial_snapshot" /\ cursors[t].seen = {}
      BY <3>1 DEF NewCursor
    <3> QED BY <1>3, <2>2, <3>2 DEF CalmAt
  <2> QED BY <1>3, <2>3 DEF Calm
<1>9. Rows
  <2> DEFINE m == Held(n.out)
  <2>1. m = NewFeatures([t \in Tickers |-> Market(t)])
    BY <1>3, MaterializedEmpty DEF Held
  <2> HIDE DEF m
  <2>2. DOMAIN m = {"cursors", "rows", "ordinal", "error"} /\ m.error = None /\ m.ordinal = 0 /\ m.rows = <<>>
        /\ m.cursors = [t \in Tickers |-> NewCursor(t, Market(t))]
    BY <2>1 DEF NewFeatures
  <2>3. <<>> \in Seq({}) /\ DOMAIN <<>> = {}
    OBVIOUS
  <2>4. IsFeatures(m)
    BY <2>2, <2>3 DEF IsFeatures
  <2> QED BY <1>3, <1>4, <2>2, <2>3, <2>4 DEF Rows, m
<1> QED BY <1>1, <1>5, <1>6, <1>7, <1>8, <1>9 DEF CInv, Whole

\* What the result "complete_observed_interval" says of the normalization.
LEMMA CompleteSays ==
  ASSUME CInv, Result(n) = "complete_observed_interval"
  PROVE  /\ Alive /\ Clean /\ Whole /\ Completeness(n) = "complete_observed_interval"
         /\ \A t \in Tickers : n.valid[t]
         /\ n.ids = [t \in Tickers |-> Market(t)]
<1>1. Alive
  BY DEF CInv, Coded, Alive, Result
<1>2. Completeness(n) = "complete_observed_interval" /\ \A t \in Tickers : n.ids[t] # None
  BY <1>1 DEF Alive, Result
<1>3. n.reasons \union EndReasons(n) = {} /\ ~n.discontinuous
  BY <1>2 DEF Completeness
<1>4. ASSUME NEW t \in Tickers, ~n.valid[t] PROVE FALSE
  <2>1. "RecoverySnapshotMissing" \in EndReasons(n)
    BY <1>4 DEF EndReasons
  <2> QED BY <1>3, <2>1
<1>5. Clean
  BY <1>3 DEF Clean
<1>6. n.ids = [t \in Tickers |-> Market(t)]
  <2>1. n.ids = [t \in Tickers |-> n.ids[t]] /\ \A t \in Tickers : n.ids[t] = Market(t)
    BY <1>1, <1>2 DEF CInv, Identified
  <2> QED BY <2>1
<1> QED BY <1>1, <1>2, <1>4, <1>5, <1>6 DEF CInv

LEMMA NoLossHidden == CInv => CompleteHidesNoLoss
<1> SUFFICES ASSUME CInv, Result(n) = "complete_observed_interval",
                    (numbering = "shared") = (n.topology # "independent"),
                    NEW p \in n.payloads
             PROVE  LET seqs == {x.key[2] : x \in {y \in n.payloads : y.key[1] = p.key[1]}}
                    IN \E first \in seqs :
                         /\ seqs = first..(first + Cardinality(seqs) - 1)
                         /\ p.key[1][2] = BookSid => first = 1
  BY DEF CompleteHidesNoLoss
<1> DEFINE u == p.value.ticker
           sid == p.value.sid
           scope == p.key[1]
           seqs == {x.key[2] : x \in {y \in n.payloads : y.key[1] = scope}}
<1>1. Alive /\ Clean /\ Whole /\ \A t \in Tickers : n.valid[t]
  BY CompleteSays
<1>2. PICK L : Typed /\ Chron(L) /\ Norm(L) /\ Opening
  BY <1>1 DEF CInv, IInv, Told
<1>3. u \in Tickers /\ sid \in Sids /\ scope = Scope(sid, u) /\ scope[2] = sid
  <2>1. u \in Tickers /\ sid \in Sids /\ scope = FrameScope(p.value)
    BY <1>1, <1>2 DEF Whole, Runs, Norm, Scoped, Sids
  <2> QED BY <2>1 DEF FrameScope, Scope
<1>4. ASSUME sid = BookSid PROVE \E q \in n.payloads : q.key = <<scope, 1>>
  <2>0. scope = BookScope(u)
    BY <1>3, <1>4 DEF BookScope
  <2>1. CASE numbering = "shared"
    <3>1. u \in opened
      BY <1>1, <1>2, <1>3, ValidOpened DEF Clean, Trusted
    <3>2. PICK t \in opened : FirstIs(t)
      BY <1>2, <2>1, <3>1 DEF Opening
    <3>3. t \in Tickers
      BY <1>2 DEF Typed
    <3>4. BookScope(t) = BookScope(u)
      BY <1>3, <2>1, <3>3, SameScope
    <3> QED BY <1>1, <2>0, <3>2, <3>3, <3>4 DEF FirstIs
  <2>2. CASE numbering # "shared"
    BY <1>1, <1>2, <1>3, <2>0, <2>2 DEF Opening, FirstIs
  <2> QED BY <2>1, <2>2
<1>5. Run(sid, u)
  BY <1>1, <1>3 DEF Whole, Runs
<1> HIDE DEF u, sid, scope
<1> DEFINE last == LatestIn(sid, u)
<1>6. \A x \in n.payloads : x.key[1] = scope =>
        /\ x.key[2] \in Nat /\ x.key[2] >= 1 /\ last \in Nat /\ x.key[2] <= last
        /\ \A i \in x.key[2]..last : \E y \in n.payloads : y.key = <<scope, i>>
  BY <1>3, <1>5 DEF Run
<1> HIDE DEF last
<1>7. p.key[2] \in seqs /\ seqs \subseteq Nat /\ last \in Nat
  BY <1>6 DEF scope
<1>8. PICK first \in seqs : \A i \in seqs : first <= i
  <2> HIDE DEF seqs
  <2> QED BY <1>7, LeastNumber
<1>9. first \in Nat /\ first >= 1 /\ first <= last
      /\ \A i \in first..last : \E y \in n.payloads : y.key = <<scope, i>>
  BY <1>6
<1>10. seqs = first..last
  <2>1. ASSUME NEW i \in first..last PROVE i \in seqs
    <3>1. PICK x \in n.payloads : x.key = <<scope, i>>
      BY <1>9
    <3>2. x.key[1] = scope /\ x.key[2] = i
      BY <3>1
    <3> QED BY <3>2
  <2>2. ASSUME NEW i \in seqs PROVE i \in first..last
    <3>1. i \in Nat /\ i <= last
      BY <1>6
    <3> QED BY <1>8, <1>9, <3>1
  <2> QED BY <2>1, <2>2
<1>11. Cardinality(first..last) = last - first + 1
  <2>1. first \in Int /\ last \in Int
    BY <1>7, <1>9
  <2>2. Cardinality(first..last) = IF first > last THEN 0 ELSE last - first + 1
    BY <2>1, FS_Interval
  <2> QED BY <1>7, <1>9, <2>2
<1>12. ASSUME sid = BookSid PROVE first = 1
  <2>1. PICK q \in n.payloads : q.key = <<scope, 1>>
    BY <1>4, <1>12
  <2>2. q.key[1] = scope /\ q.key[2] = 1
    BY <2>1
  <2>3. 1 \in seqs
    BY <2>2
  <2> QED BY <1>8, <1>9, <2>3
<1>13. seqs = first..(first + Cardinality(seqs) - 1)
  <2> HIDE DEF seqs
  <2>1. first + Cardinality(seqs) - 1 = last
    BY <1>7, <1>9, <1>10, <1>11
  <2> QED BY <1>10, <2>1
<1>14. scope[2] = BookSid => first = 1
  BY <1>3, <1>12
<1> QED BY <1>8, <1>13, <1>14 DEF scope

LEMMA CompleteRows == CInv => CompleteMaterializes
<1> SUFFICES ASSUME CInv, Result(n) = "complete_observed_interval"
             PROVE  LET m == Features(Completeness(n), n.ids, n.out)
                    IN /\ m.error = None
                       /\ \A i \in DOMAIN m.rows : m.rows[i].segment = 1
                       /\ \A t \in Tickers : \E i \in DOMAIN m.rows :
                            IsLastRow(m.rows, i, t) /\ m.rows[i].book = newest[t].book
  BY DEF CompleteMaterializes
<1> DEFINE m == Held(n.out)
<1>1. /\ Alive /\ Clean /\ Whole /\ Completeness(n) = "complete_observed_interval"
      /\ \A t \in Tickers : n.valid[t]
      /\ n.ids = [t \in Tickers |-> Market(t)]
  BY CompleteSays
<1>2. PICK L : Typed /\ Norm(L)
  BY <1>1 DEF CInv, IInv, Told
<1>3. /\ IsFeatures(m) /\ m.cursors = cursors
      /\ \A i \in DOMAIN m.rows : m.rows[i].segment = 1
      /\ \A t \in Tickers : \E i : IsLastRow(m.rows, i, t) /\ m.rows[i].book = cursors[t].projection.book
  BY <1>1 DEF Whole, Rows
<1>4. \A t \in Tickers : cursors[t].error = None /\ cursors[t].pending = None
  BY <1>1 DEF Whole, Calm, CalmAt
<1>5. Materialized(n.ids, n.out) = m
  BY <1>1 DEF Held
<1> HIDE DEF m
<1>6. m.error = None /\ PendingIn(m) = {}
  <2>1. DOMAIN cursors = Tickers
    BY <1>2 DEF Typed, IsCursors
  <2> QED BY <1>3, <1>4, <2>1 DEF IsFeatures, PendingIn
<1>7. Features(Completeness(n), n.ids, n.out) = m
  BY <1>1, <1>5, <1>6 DEF Features
<1>10. \A t \in Tickers : cursors[t].state = "valid"
  BY <1>1 DEF Whole, Calm, CalmAt
<1>8. \A t \in Tickers : cursors[t].projection.book = newest[t].book
  BY <1>1, <1>2, <1>4, <1>10 DEF Clean, Trusted, Norm, UpToDate
<1>9. \A t \in Tickers : \E i \in DOMAIN m.rows : IsLastRow(m.rows, i, t) /\ m.rows[i].book = newest[t].book
  BY <1>3, <1>8 DEF IsLastRow
<1> QED BY <1>3, <1>6, <1>7, <1>9

\* CompleteIsTrue: whatever the network does to the frames, a normalization
\* called complete hides no loss where the declared topology is the venue's
\* numbering (of the book's frames from the first one on, of the numbered trades
\* from the first one delivered), and materialize_features_v3 accepts it: every row is in its
\* ticker's first segment, and the last row of a ticker has the venue's book as
\* of the newest frame delivered for it.
THEOREM CompleteIsAlwaysTrue == Spec => []CompleteIsTrue
<1>1. Init => CInv
  BY InitWhole
<1>2. CInv /\ [Next]_vars => CInv'
  <2> SUFFICES ASSUME CInv, [Next]_vars PROVE CInv'
    OBVIOUS
  <2>1. IInv'
    BY InvSteps DEF CInv
  <2>2. PICK L : Typed /\ Chron(L) /\ (Alive => Agree /\ Norm(L))
    BY DEF CInv, IInv, Told
  <2>3. Wired' /\ Coded'
    BY <2>2, WiredSteps, CodedSteps DEF CInv
  <2>4. Opening'
    BY <2>2, OpeningSteps DEF CInv
  <2>5. Alive' => Alive
    BY DEF Next, Connect, Disconnect, SendSnapshot, SendDelta, SendTrade, Lose, Deliver, vars, Alive
  <2>6. Alive' => Identified'
    BY <2>2, <2>5, IdentifiedSteps DEF CInv
  <2>7. Alive' /\ Clean' => Whole'
    BY <2>1, <2>2, <2>6, WholeSteps DEF CInv, IInv
  <2> QED BY <2>1, <2>3, <2>4, <2>6, <2>7 DEF CInv
<1>3. CInv => CompleteIsTrue
  BY NoLossHidden, CompleteRows DEF CompleteIsTrue
<1> QED BY <1>1, <1>2, <1>3, PTL DEF Spec
=============================================================================
