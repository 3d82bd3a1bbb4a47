----------------------- MODULE DurableExchange_proofs -----------------------
(***************************************************************************)
(* What survives a crash of the durable exchange, for every set of times,  *)
(* batch sizes and fragments and every capacity: proofs about              *)
(* DurableExchange.                                                        *)
(*                                                                         *)
(* Sections 1 to 4 say what the operators on journals compute: where a     *)
(* journal stops being readable, which commands it commits, how many       *)
(* events they emit.  Section 5 is the inductive invariant: the frames     *)
(* alternate, agree and carry the batches of one sequential execution, the *)
(* running exchange and the snapshot are states of that execution, and     *)
(* what is queued comes after it.  Sections 6 and 7 are the effect of one  *)
(* write, whole or not; section 8 is the queue; section 9 is recovery,     *)
(* where a snapshot that miscounts is caught because an event count grows  *)
(* with every command.  Section 10 has one lemma per action.  Section 11   *)
(* draws the invariants, section 12 the refinement of CommandLedger.       *)
(***************************************************************************)
EXTENDS DurableExchange, FiniteSetTheorems, WellFoundedInduction, TLAPS

-----------------------------------------------------------------------------
(* 1. Numbers. *)

\* A nonempty set of natural numbers has a least element.
LEMMA LeastNumber ==
  ASSUME NEW T, T \subseteq Nat, T # {}
  PROVE  \E x \in T : \A y \in T : x <= y
<1> DEFINE R == OpToRel(<, Nat)
<1>1. \E x \in T : \A y \in T : ~ (<<y, x>> \in R)
  <2>1. IsWellFoundedOn(R, Nat)
    BY Zenon, NatLessThanWellFounded
  <2> HIDE DEF R
  <2> QED BY <2>1, WFMin
<1>2. PICK x \in T : \A y \in T : ~(<<y, x>> \in R)
  BY Zenon, <1>1
<1>3. \A y \in T : ~(y < x)
  BY <1>2 DEF OpToRel
<1>4. \A y \in T : x <= y
  BY <1>3
<1> QED BY <1>4

LEMMA MinIsLeast ==
  ASSUME NEW T, T \subseteq Nat, T # {}
  PROVE  Min(T) \in T /\ \A y \in T : Min(T) <= y
BY LeastNumber DEF Min

\* A nonempty set of natural numbers below a bound has a greatest element.
LEMMA MaxIsGreatest ==
  ASSUME NEW T, T \subseteq Nat, T # {}, NEW b \in Nat, \A y \in T : y <= b
  PROVE  Max(T) \in T /\ \A y \in T : y <= Max(T)
<1> DEFINE U == {b - y : y \in T}
<1>1. U \subseteq Nat /\ U # {}
  <2>1. \A y \in T : b - y \in Nat
    OBVIOUS
  <2>2. PICK y \in T : TRUE
    OBVIOUS
  <2>3. b - y \in U
    OBVIOUS
  <2> QED BY <2>1, <2>3
<1>2. PICK u \in U : \A v \in U : u <= v
  BY <1>1, LeastNumber
<1>3. PICK x \in T : u = b - x
  OBVIOUS
<1>4. \A y \in T : y <= x
  <2>1. SUFFICES ASSUME NEW y \in T PROVE y <= x
    OBVIOUS
  <2>2. b - y \in U
    OBVIOUS
  <2> QED BY <1>2, <1>3, <2>2
<1> QED BY <1>4 DEF Max

-----------------------------------------------------------------------------
(* 2. Frames. *)

FrameSet ==
  [type : {"prepared"}, command : Command]
    \union [type : {"committed"}, command : Command, batch : [first : Nat, command : Command]]
    \union [type : {"torn"}, kind : TornKinds]

LEMMA FirstTornType ==
  ASSUME NEW s \in Seq(FrameSet)
  PROVE  /\ FirstTorn(s) \in 0..Len(s)
         /\ FirstTorn(s) = 0 => \A k \in 1..Len(s) : s[k].type # "torn"
         /\ FirstTorn(s) # 0 => /\ s[FirstTorn(s)].type = "torn"
                                /\ \A k \in 1..(FirstTorn(s) - 1) : s[k].type # "torn"
<1>1. CASE Tears(s) = {}
  BY <1>1 DEF FirstTorn, Tears
<1>2. CASE Tears(s) # {}
  <2>1. Tears(s) \subseteq 1..Len(s)
    BY DEF Tears
  <2>2. Min(Tears(s)) \in Tears(s) /\ \A y \in Tears(s) : Min(Tears(s)) <= y
    BY <1>2, <2>1, MinIsLeast
  <2>3. FirstTorn(s) = Min(Tears(s)) /\ FirstTorn(s) \in 1..Len(s)
    BY <1>2, <2>1, <2>2 DEF FirstTorn
  <2>4. FirstTorn(s) \in Tears(s) /\ \A y \in Tears(s) : FirstTorn(s) <= y
    BY <2>2, <2>3
  <2>5. s[FirstTorn(s)].type = "torn"
    BY <2>4 DEF Tears
  <2>6. \A k \in 1..(FirstTorn(s) - 1) : s[k].type # "torn"
    <3>1. SUFFICES ASSUME NEW k \in 1..(FirstTorn(s) - 1), s[k].type = "torn" PROVE FALSE
      OBVIOUS
    <3>2. k \in Tears(s)
      BY <2>3, <3>1 DEF Tears
    <3> QED BY <2>3, <2>4, <3>2
  <2> QED BY <2>3, <2>5, <2>6
<1> QED BY <1>1, <1>2

\* The first torn frame is where the definition says, and nowhere else.
LEMMA FirstTornUnique ==
  ASSUME NEW s \in Seq(FrameSet)
  PROVE  /\ (\A k \in 1..Len(s) : s[k].type # "torn") => FirstTorn(s) = 0
         /\ \A t \in 1..Len(s) : s[t].type = "torn" /\ (\A k \in 1..(t - 1) : s[k].type # "torn")
              => FirstTorn(s) = t
<1>1. FirstTorn(s) \in 0..Len(s)
  BY FirstTornType
<1>2. FirstTorn(s) # 0 => s[FirstTorn(s)].type = "torn"
  BY FirstTornType
<1>3. FirstTorn(s) = 0 => \A k \in 1..Len(s) : s[k].type # "torn"
  BY FirstTornType
<1>4. FirstTorn(s) # 0 => \A k \in 1..(FirstTorn(s) - 1) : s[k].type # "torn"
  BY FirstTornType
<1> QED BY <1>1, <1>2, <1>3, <1>4

LEMMA ReadableType ==
  ASSUME NEW s \in Seq(FrameSet)
  PROVE  /\ Readable(s) \in Seq(FrameSet)
         /\ FirstTorn(s) = 0 => Readable(s) = s
         /\ FirstTorn(s) # 0 => Readable(s) = SubSeq(s, 1, FirstTorn(s) - 1)
         /\ Len(Readable(s)) = IF FirstTorn(s) = 0 THEN Len(s) ELSE FirstTorn(s) - 1
         /\ \A k \in 1..Len(Readable(s)) : Readable(s)[k] = s[k] /\ s[k].type # "torn"
<1>1. FirstTorn(s) \in 0..Len(s)
  BY FirstTornType
<1>2. CASE FirstTorn(s) = 0
  BY <1>2, FirstTornType DEF Readable
<1>3. CASE FirstTorn(s) # 0
  <2>1. Readable(s) = SubSeq(s, 1, FirstTorn(s) - 1)
    BY <1>3 DEF Readable
  <2>2. FirstTorn(s) - 1 \in 0..Len(s)
    BY <1>1, <1>3
  <2>3. \A n \in 0..Len(s) : /\ SubSeq(s, 1, n) \in Seq(FrameSet)
                              /\ Len(SubSeq(s, 1, n)) = n
                              /\ \A k \in 1..n : SubSeq(s, 1, n)[k] = s[k]
    OBVIOUS
  <2>4. \A k \in 1..(FirstTorn(s) - 1) : s[k].type # "torn"
    BY <1>3, FirstTornType
  <2> QED BY <1>3, <2>1, <2>2, <2>3, <2>4
<1> QED BY <1>2, <1>3

\* Appending a frame: behind a fragment it is never read; a fragment ends the
\* readable frames; any other frame joins them.
LEMMA AppendFrame ==
  ASSUME NEW s \in Seq(FrameSet), NEW f \in FrameSet
  PROVE  /\ Append(s, f) \in Seq(FrameSet)
         /\ FirstTorn(s) # 0 => /\ FirstTorn(Append(s, f)) = FirstTorn(s)
                                /\ Readable(Append(s, f)) = Readable(s)
         /\ FirstTorn(s) = 0 /\ f.type # "torn" => /\ FirstTorn(Append(s, f)) = 0
                                                   /\ Readable(Append(s, f)) = Append(s, f)
         /\ FirstTorn(s) = 0 /\ f.type = "torn" => /\ FirstTorn(Append(s, f)) = Len(s) + 1
                                                   /\ Readable(Append(s, f)) = s
<1> DEFINE z == Append(s, f)
<1>1. /\ z \in Seq(FrameSet)
      /\ Len(z) = Len(s) + 1
      /\ z[Len(s) + 1] = f
      /\ \A k \in 1..Len(s) : z[k] = s[k]
  OBVIOUS
<1>2. \A n \in 0..Len(s) : SubSeq(z, 1, n) = SubSeq(s, 1, n)
  OBVIOUS
<1>3. SubSeq(s, 1, Len(s)) = s
  OBVIOUS
<1> HIDE DEF z
<1>4. CASE FirstTorn(s) # 0
  <2>1. FirstTorn(s) \in 1..Len(s) /\ s[FirstTorn(s)].type = "torn"
    BY <1>4, FirstTornType
  <2>2. \A k \in 1..(FirstTorn(s) - 1) : s[k].type # "torn"
    BY <1>4, FirstTornType
  <2>3. FirstTorn(z) = FirstTorn(s)
    BY SMTT(30), <1>1, <2>1, <2>2, FirstTornUnique
  <2>4. Readable(z) = Readable(s)
    BY <1>2, <1>4, <2>1, <2>3 DEF Readable
  <2> QED BY <1>1, <1>4, <2>3, <2>4 DEF z
<1>5. CASE FirstTorn(s) = 0 /\ f.type # "torn"
  <2>1. \A k \in 1..Len(s) : s[k].type # "torn"
    BY <1>5, FirstTornType
  <2>2. FirstTorn(z) = 0
    BY <1>1, <1>5, <2>1, FirstTornUnique
  <2> QED BY <1>1, <1>5, <2>2 DEF Readable, z
<1>6. CASE FirstTorn(s) = 0 /\ f.type = "torn"
  <2>1. \A k \in 1..Len(s) : s[k].type # "torn"
    BY <1>6, FirstTornType
  <2>2. FirstTorn(z) = Len(s) + 1
    BY <1>1, <1>6, <2>1, FirstTornUnique
  <2>3. Readable(z) = s
    <3>1. Readable(z) = SubSeq(z, 1, Len(s))
      BY <2>2 DEF Readable
    <3> QED BY <3>1, <1>2, <1>3
  <2> QED BY <1>1, <1>6, <2>2, <2>3 DEF z
<1> QED BY <1>4, <1>5, <1>6

-----------------------------------------------------------------------------
(* 3. The ledger of a journal. *)

LedgerOf(s) == CommandsOf(Commits(s))

\* The first n committed commands of the frames r.
UpTo(r, n) == [j \in 1..n |-> r[2 * j].command]

\* The frames r alternate and agree, and each commit frame carries the batch of
\* its command after the commands before it.
Faithful(r) ==
  \A j \in 1..Len(r) :
    /\ 2 * j - 1 <= Len(r) => r[2 * j - 1].type = "prepared"
    /\ 2 * j <= Len(r) => /\ r[2 * j].type = "committed"
                          /\ r[2 * j].command = r[2 * j - 1].command
                          /\ r[2 * j].batch = Batch(UpTo(r, j - 1), r[2 * j].command)

LEMMA Halves ==
  \A n \in Nat : /\ n \div 2 \in Nat
                 /\ n = 2 * (n \div 2) \/ n = 2 * (n \div 2) + 1
OBVIOUS

LEMMA LedgerType ==
  ASSUME NEW s \in Seq(FrameSet), Faithful(Readable(s)),
         NEW r, r = Readable(s), NEW n, n = Len(r) \div 2
  PROVE  /\ r \in Seq(FrameSet) /\ n \in Nat /\ (Len(r) = 2 * n \/ Len(r) = 2 * n + 1)
         /\ Commits(s) = [j \in 1..n |-> r[2 * j]]
         /\ Len(Commits(s)) = n
         /\ LedgerOf(s) = UpTo(r, n)
         /\ LedgerOf(s) \in Seq(Command)
         /\ Len(LedgerOf(s)) = n
         /\ \A j \in 1..n : LedgerOf(s)[j] = r[2 * j].command /\ Commits(s)[j] = r[2 * j]
         /\ Len(r) = 2 * n => Interrupted(s) = <<>>
         /\ Len(r) = 2 * n + 1 => Interrupted(s) = <<r[2 * n + 1].command>>
         /\ Interrupted(s) \in Seq(Command)
<1>1. r \in Seq(FrameSet) /\ Len(r) \in Nat
  BY ReadableType
<1>2. n \in Nat /\ (Len(r) = 2 * n \/ Len(r) = 2 * n + 1)
  BY <1>1, Halves
<1>3. Commits(s) = [j \in 1..n |-> r[2 * j]]
  BY DEF Commits
<1>4. \A j \in 1..n : r[2 * j].type = "committed" /\ r[2 * j] \in FrameSet
  <2>1. SUFFICES ASSUME NEW j \in 1..n PROVE r[2 * j].type = "committed" /\ r[2 * j] \in FrameSet
    OBVIOUS
  <2>2. 2 * j \in 1..Len(r) /\ j \in 1..Len(r)
    BY <1>1, <1>2
  <2> QED BY <1>1, <2>2 DEF Faithful
<1>5. \A j \in 1..n : r[2 * j].command \in Command
  BY <1>4 DEF FrameSet
<1>6. LedgerOf(s) = UpTo(r, n)
  <2>1. DOMAIN Commits(s) = 1..n
    BY <1>3
  <2> QED BY <1>3, <2>1 DEF LedgerOf, CommandsOf, UpTo
<1>7. LedgerOf(s) \in Seq(Command) /\ Len(LedgerOf(s)) = n
  BY <1>2, <1>5, <1>6 DEF UpTo
<1>8. Len(Commits(s)) = n
  BY <1>2, <1>3
<1>9. \A j \in 1..n : LedgerOf(s)[j] = r[2 * j].command /\ Commits(s)[j] = r[2 * j]
  BY <1>3, <1>6 DEF UpTo
<1>10. Len(r) = 2 * n => Interrupted(s) = <<>>
  <2>1. SUFFICES ASSUME Len(r) = 2 * n PROVE Interrupted(s) = <<>>
    OBVIOUS
  <2>2. CASE n = 0
    <3>1. Len(r) = 0
      BY <2>1, <2>2
    <3>2. r = <<>>
      BY <1>1, <3>1
    <3> QED BY <3>2 DEF Interrupted
  <2>3. CASE n # 0
    <3>1. n \in 1..n
      BY <1>2, <2>3
    <3>2. Last(r).type = "committed"
      BY <2>1, <3>1, <1>4 DEF Last
    <3> QED BY <3>2 DEF Interrupted
  <2> QED BY <2>2, <2>3
<1>11. Len(r) = 2 * n + 1 => Interrupted(s) = <<r[2 * n + 1].command>> /\ Interrupted(s) \in Seq(Command)
  <2>1. SUFFICES ASSUME Len(r) = 2 * n + 1
                 PROVE  Interrupted(s) = <<r[2 * n + 1].command>> /\ Interrupted(s) \in Seq(Command)
    OBVIOUS
  <2>2. n + 1 \in 1..Len(r) /\ 2 * (n + 1) - 1 = Len(r)
    BY <1>2, <2>1
  <2>3. Last(r).type = "prepared" /\ Last(r) = r[2 * n + 1] /\ r # <<>>
    <3>1. Last(r) = r[2 * (n + 1) - 1] /\ 2 * (n + 1) - 1 = 2 * n + 1
      BY <1>2, <2>1, <2>2 DEF Last
    <3>2. r[2 * (n + 1) - 1].type = "prepared"
      BY SMTT(30), <2>2 DEF Faithful
    <3>3. r # <<>>
      <4>1. Len(r) # 0
        BY <1>2, <2>1
      <4> QED BY <4>1
    <3> QED BY <3>1, <3>2, <3>3
  <2>4. r[2 * n + 1] \in FrameSet
    <3>1. 2 * n + 1 \in 1..(2 * n + 1)
      <4>1. \A m \in Nat : 2 * m + 1 \in 1..(2 * m + 1)
        OBVIOUS
      <4> QED BY <1>2, <4>1, Zenon
    <3>2. 2 * n + 1 \in 1..Len(r)
      BY <2>1, <3>1, Zenon
    <3> QED BY <1>1, <3>2
  <2>5. Last(r).command \in Command
    BY <2>3, <2>4 DEF FrameSet
  <2>6. Interrupted(s) = <<r[2 * n + 1].command>>
    BY <2>3 DEF Interrupted
  <2> QED BY <2>3, <2>5, <2>6
<1>12. Interrupted(s) \in Seq(Command)
  <2>1. <<>> \in Seq(Command)
    OBVIOUS
  <2> QED BY <1>2, <1>10, <1>11, <2>1, Zenon
<1> QED BY <1>1, <1>2, <1>3, <1>6, <1>7, <1>8, <1>9, <1>10, <1>11, <1>12

\* The ledger and the interrupted command depend on the readable frames only.
LEMMA SameReadable ==
  ASSUME NEW s, NEW z, Readable(s) = Readable(z)
  PROVE  LedgerOf(s) = LedgerOf(z) /\ Interrupted(s) = Interrupted(z) /\ Commits(s) = Commits(z)
BY DEF LedgerOf, CommandsOf, Commits, Interrupted

-----------------------------------------------------------------------------
(* 4. Counting events. *)

\* The k-th command emits size events.
LEMMA EventsOfOne ==
  ASSUME NEW k, NEW q \in Nat
  PROVE  IsFiniteSet({k} \X (1..q)) /\ Cardinality({k} \X (1..q)) = q
<1>1. IsFiniteSet({k}) /\ Cardinality({k}) = 1
  BY FS_Singleton
<1>2. IsFiniteSet(1..q) /\ Cardinality(1..q) = q
  BY FS_Interval
<1>3. IsFiniteSet({k} \X (1..q)) /\ Cardinality({k} \X (1..q)) = Cardinality({k}) * Cardinality(1..q)
  <2>1. \A S, T : IsFiniteSet(S) /\ IsFiniteSet(T)
          => IsFiniteSet(S \X T) /\ Cardinality(S \X T) = Cardinality(S) * Cardinality(T)
    BY FS_Product
  <2> QED BY <1>1, <1>2, <2>1, Zenon
<1>4. Cardinality({k}) * Cardinality(1..q) = q
  BY <1>1, <1>2
<1> QED BY <1>3, <1>4

LEMMA CommandFields ==
  \A c \in Command : /\ c.at \in Nat \ {0} /\ c.at \in Times
                     /\ c.size \in Nat \ {0} /\ c.size \in BatchSizes
                     /\ c.ingress \in 1..MaxIngress /\ c.ingress \in Nat
<1>1. Times \subseteq Nat \ {0} /\ BatchSizes \subseteq Nat \ {0} /\ MaxIngress \in Nat
  BY DurableAssumption
<1>2. \A c \in Command : c.at \in Times /\ c.size \in BatchSizes /\ c.ingress \in 1..MaxIngress
  BY DEF Command
<1>3. \A i \in 1..MaxIngress : i \in Nat
  OBVIOUS
<1> QED BY <1>1, <1>2, <1>3, Zenon

LEMMA EventsFinite ==
  ASSUME NEW s \in Seq(Command)
  PROVE  IsFiniteSet(EventsOf(s)) /\ EventCount(s) \in Nat
<1> DEFINE T == {{k} \X (1..s[k].size) : k \in DOMAIN s}
<1> DEFINE f == [k \in DOMAIN s |-> {k} \X (1..s[k].size)]
<1>1. IsFiniteSet(DOMAIN s)
  <2>1. Len(s) \in Int /\ 1 \in Int /\ DOMAIN s = 1..Len(s)
    OBVIOUS
  <2> QED BY <2>1, FS_Interval
<1>2. f \in Surjection(DOMAIN s, T)
  BY DEF Surjection
<1>3. IsFiniteSet(T)
  <2> HIDE DEF f, T
  <2> QED BY <1>1, <1>2, FS_Surjection
<1>4. \A U \in T : IsFiniteSet(U)
  <2>1. SUFFICES ASSUME NEW k \in DOMAIN s PROVE IsFiniteSet({k} \X (1..s[k].size))
    OBVIOUS
  <2>2. s[k].size \in Nat
    BY CommandFields
  <2> QED BY <2>2, EventsOfOne
<1>5. IsFiniteSet(UNION T)
  <2> HIDE DEF T
  <2> QED BY <1>3, <1>4, FS_UNION
<1>6. IsFiniteSet(EventsOf(s))
  BY <1>5 DEF EventsOf
<1> QED BY <1>6, FS_CardinalityType DEF EventCount

LEMMA EventsMember ==
  ASSUME NEW s \in Seq(Command)
  PROVE  \A p : p \in EventsOf(s) <=> \E k \in 1..Len(s) : p \in {k} \X (1..s[k].size)
<1>1. DOMAIN s = 1..Len(s)
  OBVIOUS
<1> QED BY <1>1 DEF EventsOf

LEMMA EventCountAppend ==
  ASSUME NEW s \in Seq(Command), NEW c \in Command
  PROVE  EventCount(Append(s, c)) = EventCount(s) + c.size
<1> DEFINE new == {Len(s) + 1} \X (1..c.size)
<1>1. c.size \in Nat
  BY CommandFields
<1>2. IsFiniteSet(new) /\ Cardinality(new) = c.size
  BY <1>1, EventsOfOne
<1>3. IsFiniteSet(EventsOf(s)) /\ EventCount(s) \in Nat
  BY EventsFinite
<1>4. EventsOf(Append(s, c)) = EventsOf(s) \cup new
  <2>1. /\ Append(s, c) \in Seq(Command) /\ Len(Append(s, c)) = Len(s) + 1
        /\ Append(s, c)[Len(s) + 1] = c
        /\ \A k \in 1..Len(s) : Append(s, c)[k] = s[k]
    OBVIOUS
  <2>2. \A p : p \in EventsOf(Append(s, c)) <=> \E k \in 1..(Len(s) + 1) : p \in {k} \X (1..Append(s, c)[k].size)
    BY <2>1, EventsMember
  <2>3. \A p : p \in EventsOf(s) <=> \E k \in 1..Len(s) : p \in {k} \X (1..s[k].size)
    BY EventsMember
  <2>4. 1..(Len(s) + 1) = (1..Len(s)) \cup {Len(s) + 1}
    OBVIOUS
  <2>5. \A p : (\E k \in 1..(Len(s) + 1) : p \in {k} \X (1..Append(s, c)[k].size))
           <=> (\E k \in 1..Len(s) : p \in {k} \X (1..s[k].size)) \/ p \in new
    BY <2>1, <2>4, Zenon
  <2>6. \A p : p \in EventsOf(Append(s, c)) <=> p \in EventsOf(s) \/ p \in new
    BY <2>2, <2>3, <2>5, Zenon
  <2> HIDE DEF new
  <2> QED BY <2>6
<1>5. EventsOf(s) \cap new = {}
  <2>1. SUFFICES ASSUME NEW p \in EventsOf(s), p \in new PROVE FALSE
    OBVIOUS
  <2>2. PICK k \in 1..Len(s) : p \in {k} \X (1..s[k].size)
    BY <2>1, EventsMember
  <2>3. p[1] = k /\ p[1] = Len(s) + 1
    BY <2>1, <2>2
  <2> QED BY <2>3
<1>6. Cardinality(EventsOf(s) \cap new) = 0
  BY <1>5, FS_EmptySet
<1>7. Cardinality(EventsOf(s) \cup new)
        = Cardinality(EventsOf(s)) + Cardinality(new) - Cardinality(EventsOf(s) \cap new)
  <2> HIDE DEF new
  <2> QED BY <1>2, <1>3, FS_Union
<1> HIDE DEF new
<1> QED BY <1>1, <1>2, <1>3, <1>4, <1>6, <1>7 DEF EventCount

LEMMA EventCountEmpty == EventCount(<<>>) = 0
<1>1. EventsOf(<<>>) = {}
  BY DEF EventsOf
<1> QED BY <1>1, FS_EmptySet DEF EventCount

\* A shorter prefix has counted strictly fewer events.
LEMMA EventCountPrefix ==
  ASSUME NEW s \in Seq(Command), NEW n \in 0..Len(s)
  PROVE  /\ SubSeq(s, 1, n) \in Seq(Command)
         /\ EventCount(SubSeq(s, 1, n)) \in Nat
         /\ EventCount(SubSeq(s, 1, n)) <= EventCount(s)
         /\ n < Len(s) => /\ EventCount(SubSeq(s, 1, n)) < EventCount(s)
                          /\ EventCount(SubSeq(s, 1, n)) + s[n + 1].size <= EventCount(s)
<1>1. \A m \in 0..Len(s) : /\ SubSeq(s, 1, m) \in Seq(Command) /\ Len(SubSeq(s, 1, m)) = m
                            /\ \A k \in 1..m : SubSeq(s, 1, m)[k] = s[k]
  OBVIOUS
<1>2. \A m \in 0..Len(s) : EventsOf(SubSeq(s, 1, m)) \subseteq EventsOf(s)
  <2>1. SUFFICES ASSUME NEW m \in 0..Len(s), NEW p \in EventsOf(SubSeq(s, 1, m)) PROVE p \in EventsOf(s)
    OBVIOUS
  <2>2. PICK k \in 1..m : p \in {k} \X (1..SubSeq(s, 1, m)[k].size)
    BY <1>1, EventsMember
  <2>3. k \in 1..Len(s) /\ SubSeq(s, 1, m)[k] = s[k]
    BY <1>1
  <2> QED BY <2>2, <2>3, EventsMember
<1>3. \A m \in 0..Len(s) : /\ EventCount(SubSeq(s, 1, m)) \in Nat
                            /\ EventCount(SubSeq(s, 1, m)) <= EventCount(s)
  <2>1. SUFFICES ASSUME NEW m \in 0..Len(s)
                 PROVE  EventCount(SubSeq(s, 1, m)) \in Nat /\ EventCount(SubSeq(s, 1, m)) <= EventCount(s)
    OBVIOUS
  <2>2. EventsOf(SubSeq(s, 1, m)) \in SUBSET EventsOf(s)
    BY <1>2
  <2>3. IsFiniteSet(EventsOf(s))
    BY EventsFinite
  <2>4. Cardinality(EventsOf(SubSeq(s, 1, m))) <= Cardinality(EventsOf(s))
    BY <2>2, <2>3, FS_Subset
  <2>5. EventCount(SubSeq(s, 1, m)) \in Nat
    BY <1>1, EventsFinite
  <2> QED BY <2>4, <2>5 DEF EventCount
<1>4. ASSUME n < Len(s)
      PROVE  /\ EventCount(SubSeq(s, 1, n)) < EventCount(s)
             /\ EventCount(SubSeq(s, 1, n)) + s[n + 1].size <= EventCount(s)
  <2>1. SubSeq(s, 1, n + 1) = Append(SubSeq(s, 1, n), s[n + 1])
    BY <1>4
  <2>2. s[n + 1] \in Command /\ n + 1 \in 0..Len(s)
    BY <1>4
  <2>3. EventCount(SubSeq(s, 1, n + 1)) = EventCount(SubSeq(s, 1, n)) + s[n + 1].size
    BY <1>1, <2>1, <2>2, EventCountAppend
  <2>4. s[n + 1].size \in Nat \ {0}
    BY <2>2, CommandFields
  <2>5. EventCount(SubSeq(s, 1, n + 1)) <= EventCount(s) /\ EventCount(s) \in Nat
    BY <1>3, <2>2, EventsFinite
  <2> QED BY <1>3, <2>3, <2>4, <2>5
<1> QED BY <1>1, <1>3, <1>4

-----------------------------------------------------------------------------
(* 5. The inductive invariant. *)

\* Commands in scheduling order, under distinct ingress numbers.
Scheduled(commands) ==
  \A i, j \in DOMAIN commands :
    i < j => Less(commands[i], commands[j]) /\ commands[i].ingress # commands[j].ingress

\* Everything in past comes before everything in queued.
Precede(past, queued) ==
  \A i \in DOMAIN past : \A k \in DOMAIN queued :
    Less(past[i], queued[k]) /\ past[i].ingress # queued[k].ingress

\* The commands lie behind a clock and an ingress counter.
Behind(commands, clock, counter) ==
  \A i \in DOMAIN commands : commands[i].at <= clock /\ commands[i].ingress < counter

\* What the journal s always is: frames that alternate, agree and carry the
\* right batches as far as they can be read, in order and within capacity.
SoundFrames(s) ==
  /\ s \in Seq(FrameSet)
  /\ Faithful(Readable(s))
  /\ EventCount(LedgerOf(s)) <= EventCapacity
  /\ Scheduled(LedgerOf(s) \o Interrupted(s))

SnapshotSet ==
  [count : Nat, executed : Seq(Command), now : Times \union {0},
   nextIngress : 1..(MaxIngress + 1), pending : Seq(Command)]

Typed ==
  /\ genesis \in {"absent", "torn", "written"}
  /\ mode \in {"down", "running", "poisoned"}
  /\ snapshot # None => snapshot \in SnapshotSet
  /\ queue \in Seq(Command)
  /\ executed \in Seq(Command)
  /\ now \in Times \union {0}
  /\ nextIngress \in 1..(MaxIngress + 1)
  /\ published \in Nat

\* Before its genesis frame the exchange has nothing; without a process it has
\* no memory.
NothingYet ==
  /\ genesis = "absent" => mode = "down" /\ journal = <<>> /\ snapshot = None
  /\ mode = "down" => /\ queue = <<>> /\ executed = <<>>
                      /\ now = 0 /\ nextIngress = 1 /\ published = 0

QueueSound ==
  /\ Scheduled(queue)
  /\ \A k \in DOMAIN queue : queue[k].at >= now /\ queue[k].ingress < nextIngress

\* A running exchange agrees with its journal, and what it will run comes after
\* what it ran.
RunningSound ==
  mode = "running" /\ Intact =>
    /\ executed = LedgerOf(journal)
    /\ Interrupted(journal) = <<>>
    /\ published <= Len(LedgerOf(journal))
    /\ Behind(executed, now, nextIngress)
    /\ Precede(executed, queue)

\* The snapshot is a past state of the journal.
SnapshotSound ==
  snapshot # None /\ Intact =>
    /\ IsPrefix(snapshot.executed, LedgerOf(journal))
    /\ snapshot.count <= Len(snapshot.executed)
    /\ snapshot.pending = <<>>
    /\ Behind(snapshot.executed, snapshot.now, snapshot.nextIngress)

IInv ==
  Typed /\ SoundFrames(journal) /\ NothingYet /\ QueueSound /\ RunningSound /\ SnapshotSound

-----------------------------------------------------------------------------
(* 6. What one write does to the journal. *)

LEMMA FramesAreFrames ==
  /\ \A c \in Command : Prepared(c) \in FrameSet /\ Prepared(c).type = "prepared" /\ Prepared(c).command = c
  /\ \A c \in Command : \A b \in [first : Nat, command : Command] :
       /\ Committed(c, b) \in FrameSet
       /\ Committed(c, b).type = "committed" /\ Committed(c, b).command = c /\ Committed(c, b).batch = b
  /\ \A kind \in TornKinds : Torn(kind) \in FrameSet /\ Torn(kind).type = "torn"
BY DEF Prepared, Committed, Torn, FrameSet

LEMMA BatchType ==
  ASSUME NEW s \in Seq(Command), NEW c \in Command
  PROVE  Batch(s, c) \in [first : Nat, command : Command]
BY EventsFinite DEF Batch

\* The frames r with one more frame f of the right kind are still faithful.
LEMMA FaithfulAppend ==
  ASSUME NEW r \in Seq(FrameSet), Faithful(r), NEW f \in FrameSet,
         NEW n \in Nat,
         \/ Len(r) = 2 * n /\ f.type = "prepared"
         \/ /\ Len(r) = 2 * n + 1 /\ f.type = "committed" /\ f.command = r[2 * n + 1].command
            /\ f.batch = Batch(UpTo(r, n), f.command)
  PROVE  Faithful(Append(r, f))
<1> DEFINE z == Append(r, f)
<1>1. Len(z) = Len(r) + 1 /\ z[Len(r) + 1] = f /\ \A k \in 1..Len(r) : z[k] = r[k]
  OBVIOUS
<1> HIDE DEF z
<1>2. Len(r) \in Nat
  OBVIOUS
<1>3. \A m \in Nat : 2 * m <= Len(r) => UpTo(z, m) = UpTo(r, m)
  <2>1. SUFFICES ASSUME NEW m \in Nat, 2 * m <= Len(r) PROVE UpTo(z, m) = UpTo(r, m)
    OBVIOUS
  <2>2. \A j \in 1..m : z[2 * j] = r[2 * j]
    <3>1. \A j \in 1..m : 2 * j \in 1..Len(r)
      BY <2>1
    <3> QED BY <1>1, <3>1
  <2> QED BY <2>2 DEF UpTo
<1>4. ASSUME NEW j \in 1..Len(z), 2 * j - 1 <= Len(z)
      PROVE  z[2 * j - 1].type = "prepared"
  <2>1. CASE 2 * j - 1 <= Len(r)
    <3>1. j \in 1..Len(r) /\ 2 * j - 1 \in 1..Len(r)
      BY <2>1, <1>2
    <3>2. r[2 * j - 1].type = "prepared"
      BY <2>1, <3>1 DEF Faithful
    <3> QED BY <1>1, <3>1, <3>2
  <2>2. CASE 2 * j - 1 = Len(r) + 1
    <3>1. Len(r) = 2 * n /\ f.type = "prepared"
      BY <2>2
    <3> QED BY <1>1, <2>2, <3>1
  <2> QED BY <1>1, <1>2, <1>4, <2>1, <2>2
<1>5. ASSUME NEW j \in 1..Len(z), 2 * j <= Len(z)
      PROVE  /\ z[2 * j].type = "committed"
             /\ z[2 * j].command = z[2 * j - 1].command
             /\ z[2 * j].batch = Batch(UpTo(z, j - 1), z[2 * j].command)
  <2>1. CASE 2 * j <= Len(r)
    <3>1. j \in 1..Len(r) /\ 2 * j \in 1..Len(r) /\ 2 * j - 1 \in 1..Len(r) /\ j - 1 \in Nat /\ 2 * (j - 1) <= Len(r)
      BY <2>1, <1>2
    <3>2. /\ r[2 * j].type = "committed"
          /\ r[2 * j].command = r[2 * j - 1].command
          /\ r[2 * j].batch = Batch(UpTo(r, j - 1), r[2 * j].command)
      BY <2>1, <3>1 DEF Faithful
    <3>3. z[2 * j] = r[2 * j] /\ z[2 * j - 1] = r[2 * j - 1] /\ UpTo(z, j - 1) = UpTo(r, j - 1)
      BY <1>1, <1>3, <3>1
    <3> QED BY <3>2, <3>3
  <2>2. CASE 2 * j = Len(r) + 1
    <3>1. /\ Len(r) = 2 * n + 1 /\ f.type = "committed" /\ f.command = r[2 * n + 1].command
          /\ f.batch = Batch(UpTo(r, n), f.command)
      BY <2>2
    <3>2. j - 1 = n /\ 2 * j - 1 = Len(r) /\ 2 * n + 1 = Len(r) /\ 2 * n <= Len(r) /\ Len(r) \in 1..Len(r)
      BY <2>2, <3>1
    <3>3. z[2 * j] = f /\ z[2 * j - 1] = r[2 * n + 1] /\ UpTo(z, j - 1) = UpTo(r, n)
      BY <1>1, <1>3, <2>2, <3>2
    <3> QED BY <3>1, <3>3
  <2>3. 2 * j <= Len(r) \/ 2 * j = Len(r) + 1
    BY <1>1, <1>2, <1>5
  <2> QED BY <2>1, <2>2, <2>3, Zenon
<1>6. Faithful(z)
  BY <1>4, <1>5 DEF Faithful
<1> QED BY <1>6 DEF z

\* A journal without fragments, by the parity of its length.
LEMMA LedgerWhole ==
  ASSUME NEW s \in Seq(FrameSet), FirstTorn(s) = 0, Faithful(s), NEW n \in Nat
  PROVE  /\ Len(s) = 2 * n \/ Len(s) = 2 * n + 1
              => LedgerOf(s) = UpTo(s, n) /\ LedgerOf(s) \in Seq(Command) /\ Len(LedgerOf(s)) = n
         /\ Len(s) = 2 * n => Interrupted(s) = <<>>
         /\ Len(s) = 2 * n + 1 => Interrupted(s) = <<s[2 * n + 1].command>>
<1>1. Readable(s) = s
  BY ReadableType
<1>2. ASSUME Len(s) = 2 * n \/ Len(s) = 2 * n + 1
      PROVE  n = Len(s) \div 2
  BY <1>2
<1>3. ASSUME Len(s) = 2 * n \/ Len(s) = 2 * n + 1
      PROVE  /\ LedgerOf(s) = UpTo(s, n) /\ LedgerOf(s) \in Seq(Command) /\ Len(LedgerOf(s)) = n
             /\ Len(s) = 2 * n => Interrupted(s) = <<>>
             /\ Len(s) = 2 * n + 1 => Interrupted(s) = <<s[2 * n + 1].command>>
  <2>1. n = Len(s) \div 2
    BY <1>2, <1>3
  <2>2. Faithful(Readable(s)) /\ s = Readable(s)
    BY <1>1
  <2>3. ASSUME NEW r, r = Readable(s), n = Len(r) \div 2
        PROVE  /\ LedgerOf(s) = UpTo(r, n) /\ LedgerOf(s) \in Seq(Command) /\ Len(LedgerOf(s)) = n
               /\ Len(r) = 2 * n => Interrupted(s) = <<>>
               /\ Len(r) = 2 * n + 1 => Interrupted(s) = <<r[2 * n + 1].command>>
    BY <2>2, <2>3, LedgerType
  <2> QED BY <2>1, <2>2, <2>3, Zenon
<1> QED BY <1>3

LEMMA GrowPrepared ==
  ASSUME NEW s \in Seq(FrameSet), Faithful(Readable(s)), FirstTorn(s) = 0, Interrupted(s) = <<>>,
         NEW c \in Command, NEW z, z = Append(s, Prepared(c))
  PROVE  /\ z \in Seq(FrameSet) /\ Len(z) = Len(s) + 1
         /\ Faithful(Readable(z)) /\ FirstTorn(z) = 0
         /\ LedgerOf(z) = LedgerOf(s)
         /\ Interrupted(z) = <<c>>
<1>1. PICK n \in Nat : n = Len(s) \div 2 /\ (Len(s) = 2 * n \/ Len(s) = 2 * n + 1)
  <2>1. Len(s) \in Nat
    OBVIOUS
  <2> QED BY <2>1, Halves
<1>2. Readable(s) = s
  BY ReadableType
<1>3. Len(s) = 2 * n
  <2>1. Len(s) = 2 * n + 1 => Interrupted(s) = <<s[2 * n + 1].command>>
    BY <1>2, LedgerWhole
  <2>2. <<s[2 * n + 1].command>> # <<>>
    OBVIOUS
  <2> QED BY <1>1, <2>1, <2>2
<1>4. Prepared(c) \in FrameSet /\ Prepared(c).type = "prepared" /\ Prepared(c).command = c
  BY FramesAreFrames
<1>5. z \in Seq(FrameSet) /\ FirstTorn(z) = 0 /\ Readable(z) = z
  BY <1>4, AppendFrame
<1>6. Faithful(z)
  BY <1>2, <1>3, <1>4, FaithfulAppend
<1>7. Len(z) = 2 * n + 1 /\ z[2 * n + 1] = Prepared(c) /\ \A k \in 1..Len(s) : z[k] = s[k]
  BY <1>3, <1>4
<1>8. Len(z) \div 2 = n
  BY <1>7
<1>9. LedgerOf(z) = UpTo(z, n) /\ Interrupted(z) = <<z[2 * n + 1].command>>
  BY <1>5, <1>6, <1>7, LedgerWhole
<1>10. LedgerOf(s) = UpTo(s, n)
  BY <1>1, <1>2, LedgerWhole
<1>11. UpTo(z, n) = UpTo(s, n)
  <2>1. \A j \in 1..n : 2 * j \in 1..Len(s)
    BY <1>3
  <2>2. \A j \in 1..n : z[2 * j] = s[2 * j]
    BY <1>7, <2>1
  <2> QED BY <2>2 DEF UpTo
<1>12. Len(z) = Len(s) + 1
  BY <1>3, <1>7
<1> QED BY <1>4, <1>5, <1>6, <1>7, <1>9, <1>10, <1>11, <1>12

LEMMA GrowCommitted ==
  ASSUME NEW s \in Seq(FrameSet), Faithful(Readable(s)), FirstTorn(s) = 0,
         NEW c \in Command, Interrupted(s) = <<c>>,
         NEW z, z = Append(s, Committed(c, Batch(LedgerOf(s), c)))
  PROVE  /\ z \in Seq(FrameSet) /\ Len(z) = Len(s) + 1
         /\ Faithful(Readable(z)) /\ FirstTorn(z) = 0
         /\ LedgerOf(z) = Append(LedgerOf(s), c)
         /\ Interrupted(z) = <<>>
<1>1. PICK n \in Nat : n = Len(s) \div 2 /\ (Len(s) = 2 * n \/ Len(s) = 2 * n + 1)
  <2>1. Len(s) \in Nat
    OBVIOUS
  <2> QED BY <2>1, Halves
<1>2. Readable(s) = s
  BY ReadableType
<1>3. LedgerOf(s) = UpTo(s, n) /\ LedgerOf(s) \in Seq(Command) /\ Len(LedgerOf(s)) = n
  BY <1>1, <1>2, LedgerWhole
<1>4. Len(s) = 2 * n + 1 /\ s[2 * n + 1].command = c
  <2>1. Len(s) = 2 * n => Interrupted(s) = <<>>
    BY <1>1, <1>2, LedgerWhole
  <2>2. Len(s) = 2 * n + 1 => Interrupted(s) = <<s[2 * n + 1].command>>
    BY <1>1, <1>2, LedgerWhole
  <2>3. <<c>> # <<>>
    OBVIOUS
  <2>4. Len(s) = 2 * n + 1
    BY <1>1, <2>1, <2>3
  <2>5. <<c>> = <<s[2 * n + 1].command>>
    BY <2>2, <2>4
  <2> QED BY <2>4, <2>5
<1> DEFINE b == Batch(LedgerOf(s), c)
<1>5. b \in [first : Nat, command : Command]
  BY <1>3, BatchType
<1> DEFINE f == Committed(c, b)
<1>6. f \in FrameSet /\ f.type = "committed" /\ f.command = c /\ f.batch = b
  <2> HIDE DEF b
  <2> QED BY <1>5, FramesAreFrames
<1>7. z = Append(s, f) /\ b = Batch(UpTo(s, n), f.command)
  BY <1>3, <1>6
<1> HIDE DEF b, f
<1>8. z \in Seq(FrameSet) /\ FirstTorn(z) = 0 /\ Readable(z) = z
  BY <1>6, <1>7, AppendFrame
<1>9. Faithful(z)
  BY <1>2, <1>4, <1>6, <1>7, FaithfulAppend
<1>10. Len(z) = 2 * (n + 1) /\ z[2 * (n + 1)] = f /\ \A k \in 1..Len(s) : z[k] = s[k]
  <2>1. Len(z) = Len(s) + 1 /\ z[Len(s) + 1] = f /\ \A k \in 1..Len(s) : z[k] = s[k]
    BY <1>6, <1>7
  <2>2. Len(s) + 1 = 2 * (n + 1)
    BY <1>4
  <2> QED BY <2>1, <2>2, Zenon
<1>11. Len(z) \div 2 = n + 1 /\ n + 1 \in Nat
  BY <1>10
<1>12. LedgerOf(z) = UpTo(z, n + 1) /\ Interrupted(z) = <<>>
  BY <1>8, <1>9, <1>10, <1>11, LedgerWhole
<1>13. UpTo(z, n + 1) = Append(UpTo(s, n), c)
  <2>1. \A j \in 1..n : 2 * j \in 1..Len(s)
    BY <1>4
  <2>2. \A j \in 1..n : z[2 * j].command = s[2 * j].command
    BY <1>10, <2>1
  <2>3. UpTo(z, n + 1) \in Seq(Command) /\ Len(UpTo(z, n + 1)) = n + 1
    BY <1>8, <1>9, <1>10, <1>11, <1>12, LedgerWhole
  <2>4. \A j \in 1..n : UpTo(z, n + 1)[j] = UpTo(s, n)[j]
    <3>1. \A j \in 1..n : j \in 1..(n + 1)
      OBVIOUS
    <3> QED BY <2>2, <3>1, Zenon DEF UpTo
  <2>5. UpTo(z, n + 1)[n + 1] = c
    BY <1>6, <1>10 DEF UpTo
  <2>6. UpTo(s, n) \in Seq(Command) /\ Len(UpTo(s, n)) = n
    BY <1>3
  <2> HIDE DEF UpTo
  <2> QED BY <2>3, <2>4, <2>5, <2>6
<1>14. Len(z) = Len(s) + 1
  BY <1>4, <1>10
<1> QED BY <1>3, <1>8, <1>9, <1>12, <1>13, <1>14

\* A fragment at the end of a whole journal changes nothing that can be read,
\* and neither does anything behind a fragment.
LEMMA GrowTorn ==
  ASSUME NEW s \in Seq(FrameSet), NEW f \in FrameSet, FirstTorn(s) # 0 \/ f.type = "torn",
         NEW z, z = Append(s, f)
  PROVE  /\ z \in Seq(FrameSet) /\ Len(z) = Len(s) + 1
         /\ Readable(z) = Readable(s)
         /\ LedgerOf(z) = LedgerOf(s) /\ Interrupted(z) = Interrupted(s)
         /\ FirstTorn(z) # 0
         /\ FirstTorn(z) = Len(z) <=> FirstTorn(s) = 0
<1>1. FirstTorn(s) \in 0..Len(s)
  BY FirstTornType
<1>2. z \in Seq(FrameSet) /\ Len(z) = Len(s) + 1
  OBVIOUS
<1>3. Readable(z) = Readable(s)
  BY AppendFrame, ReadableType
<1>4. FirstTorn(z) = IF FirstTorn(s) = 0 THEN Len(s) + 1 ELSE FirstTorn(s)
  BY AppendFrame
<1>5. LedgerOf(z) = LedgerOf(s) /\ Interrupted(z) = Interrupted(s)
  BY <1>3, SameReadable
<1> QED BY <1>1, <1>2, <1>3, <1>4, <1>5

-----------------------------------------------------------------------------
(* 7. Writes keep the journal sound. *)

IntactFrames(s) == FirstTorn(s) \in {0, Len(s)}

\* c is the command in doubt.
InDoubt(s, c) == Interrupted(s) = <<c>>

\* z is s after a whole Prepared frame, after a whole Committed frame, and
\* after whatever is left of a write of a Committed frame.
DoesPrepare(s, z, c) ==
  /\ SoundFrames(z) /\ LedgerOf(z) = LedgerOf(s)
  /\ FirstTorn(s) = 0 => FirstTorn(z) = 0 /\ InDoubt(z, c)
  /\ FirstTorn(s) # 0 => FirstTorn(z) # 0 /\ ~IntactFrames(z) /\ Interrupted(z) = Interrupted(s)

DoesCommit(s, z, c) ==
  /\ SoundFrames(z)
  /\ FirstTorn(s) = 0 => /\ FirstTorn(z) = 0 /\ LedgerOf(z) = Append(LedgerOf(s), c)
                         /\ Interrupted(z) = <<>>
  /\ FirstTorn(s) # 0 => /\ FirstTorn(z) # 0 /\ ~IntactFrames(z)
                         /\ LedgerOf(z) = LedgerOf(s) /\ Interrupted(z) = Interrupted(s)

MayCommit(s, z, c) ==
  /\ SoundFrames(z)
  /\ IntactFrames(z) => IntactFrames(s)
  /\ TornKinds = {} /\ FirstTorn(s) = 0 => FirstTorn(z) = 0
  /\ \/ LedgerOf(z) = LedgerOf(s) /\ Interrupted(z) = Interrupted(s)
     \/ FirstTorn(s) = 0 /\ LedgerOf(z) = Append(LedgerOf(s), c) /\ Interrupted(z) = <<>>

LEMMA ResidueCases ==
  ASSUME NEW s \in Seq(FrameSet), NEW f \in FrameSet, NEW residue \in Residues(f), NEW z, z = s \o residue
  PROVE  \/ residue = <<>> /\ z = s
         \/ residue = <<f>> /\ z = Append(s, f)
         \/ \E kind \in TornKinds : residue = <<Torn(kind)>> /\ z = Append(s, Torn(kind))
<1>1. CASE residue = <<>>
  BY <1>1
<1>2. CASE residue = <<f>>
  BY <1>2
<1>3. CASE \E kind \in TornKinds : residue = <<Torn(kind)>>
  <2>1. PICK kind \in TornKinds : residue = <<Torn(kind)>>
    BY <1>3
  <2>2. Torn(kind) \in FrameSet
    BY FramesAreFrames
  <2>3. z = Append(s, Torn(kind))
    BY <2>1, <2>2
  <2> QED BY <2>1, <2>3
<1> QED BY <1>1, <1>2, <1>3 DEF Residues

LEMMA AllOfThem ==
  ASSUME NEW s \in Seq(FrameSet), Faithful(Readable(s))
  PROVE  /\ LedgerOf(s) \in Seq(Command) /\ Interrupted(s) \in Seq(Command)
         /\ Interrupted(s) = <<>> => LedgerOf(s) \o Interrupted(s) = LedgerOf(s)
         /\ \A c \in Command : Interrupted(s) = <<c>> => LedgerOf(s) \o Interrupted(s) = Append(LedgerOf(s), c)
         /\ Interrupted(s) = <<>> \/ \E c \in Command : Interrupted(s) = <<c>>
<1>1. LedgerOf(s) \in Seq(Command) /\ Interrupted(s) \in Seq(Command)
  BY LedgerType
<1>2. Interrupted(s) = <<>> \/ \E c : Interrupted(s) = <<c>>
  BY DEF Interrupted
<1>3. ASSUME Interrupted(s) # <<>> PROVE \E c \in Command : Interrupted(s) = <<c>>
  <2>1. PICK c : Interrupted(s) = <<c>>
    BY <1>2, <1>3
  <2>2. c \in Command
    <3>1. Interrupted(s)[1] \in Command
      BY <1>1, <1>3
    <3> QED BY <2>1, <3>1
  <2> QED BY <2>1, <2>2
<1>4. \A L \in Seq(Command) : L \o <<>> = L /\ \A c \in Command : L \o <<c>> = Append(L, c)
  OBVIOUS
<1> QED BY <1>1, <1>3, <1>4

\* A fragment, or anything behind one.
LEMMA SoundTorn ==
  ASSUME NEW s, SoundFrames(s), NEW f \in FrameSet, FirstTorn(s) # 0 \/ f.type = "torn",
         NEW z, z = Append(s, f)
  PROVE  /\ SoundFrames(z) /\ LedgerOf(z) = LedgerOf(s) /\ Interrupted(z) = Interrupted(s)
         /\ FirstTorn(z) # 0
         /\ IntactFrames(z) <=> FirstTorn(s) = 0
<1>1. s \in Seq(FrameSet)
  BY DEF SoundFrames
<1>2. /\ z \in Seq(FrameSet) /\ Len(z) = Len(s) + 1
      /\ Readable(z) = Readable(s)
      /\ LedgerOf(z) = LedgerOf(s) /\ Interrupted(z) = Interrupted(s)
      /\ FirstTorn(z) # 0
      /\ FirstTorn(z) = Len(z) <=> FirstTorn(s) = 0
  BY <1>1, GrowTorn
<1>3. SoundFrames(z)
  BY <1>2 DEF SoundFrames
<1> QED BY <1>2, <1>3 DEF IntactFrames

\* A whole Prepared frame.
LEMMA PreparedWritten ==
  ASSUME NEW s, SoundFrames(s), NEW c \in Command,
         IntactFrames(s) => Interrupted(s) = <<>> /\ Scheduled(Append(LedgerOf(s), c)),
         NEW z, z = Append(s, Prepared(c))
  PROVE  DoesPrepare(s, z, c)
<1> DEFINE f == Prepared(c)
<1>1. f \in FrameSet /\ f.type = "prepared" /\ s \in Seq(FrameSet) /\ Faithful(Readable(s))
  BY FramesAreFrames DEF SoundFrames
<1>2. CASE FirstTorn(s) # 0
  <2>1. /\ SoundFrames(z) /\ LedgerOf(z) = LedgerOf(s) /\ Interrupted(z) = Interrupted(s)
        /\ FirstTorn(z) # 0
        /\ IntactFrames(z) <=> FirstTorn(s) = 0
    BY <1>1, <1>2, SoundTorn
  <2> QED BY <1>2, <2>1 DEF DoesPrepare
<1>3. CASE FirstTorn(s) = 0
  <2>1. Interrupted(s) = <<>> /\ Scheduled(Append(LedgerOf(s), c))
    BY <1>3 DEF IntactFrames
  <2>2. /\ z \in Seq(FrameSet) /\ Faithful(Readable(z)) /\ FirstTorn(z) = 0
        /\ LedgerOf(z) = LedgerOf(s) /\ InDoubt(z, c)
    <3> HIDE DEF f
    <3> QED BY <1>1, <1>3, <2>1, GrowPrepared DEF InDoubt
  <2>3. LedgerOf(z) \o Interrupted(z) = Append(LedgerOf(s), c)
    BY <2>2, AllOfThem DEF InDoubt
  <2>4. SoundFrames(z)
    BY <2>1, <2>2, <2>3 DEF SoundFrames
  <2> QED BY <1>3, <2>2, <2>4 DEF DoesPrepare
<1> QED BY <1>2, <1>3

\* Whatever is left of a write of a Prepared frame.
LEMMA WritePrepared ==
  ASSUME NEW s, SoundFrames(s), NEW c \in Command,
         IntactFrames(s) => Interrupted(s) = <<>> /\ Scheduled(Append(LedgerOf(s), c)),
         NEW residue \in Residues(Prepared(c)), NEW z, z = s \o residue
  PROVE  /\ SoundFrames(z)
         /\ LedgerOf(z) = LedgerOf(s)
         /\ Interrupted(z) = Interrupted(s) \/ InDoubt(z, c)
         /\ IntactFrames(z) => IntactFrames(s)
         /\ TornKinds = {} /\ FirstTorn(s) = 0 => FirstTorn(z) = 0
<1>1. Prepared(c) \in FrameSet /\ s \in Seq(FrameSet)
  BY FramesAreFrames DEF SoundFrames
<1>2. \/ residue = <<>> /\ z = s
      \/ residue = <<Prepared(c)>> /\ z = Append(s, Prepared(c))
      \/ \E kind \in TornKinds : residue = <<Torn(kind)>> /\ z = Append(s, Torn(kind))
  BY <1>1, ResidueCases
<1>3. CASE z = s
  BY <1>3
<1>4. CASE z = Append(s, Prepared(c))
  <2>1. DoesPrepare(s, z, c)
    BY <1>4, PreparedWritten
  <2> QED BY <2>1 DEF DoesPrepare, IntactFrames
<1>5. CASE \E kind \in TornKinds : z = Append(s, Torn(kind))
  <2>1. PICK kind \in TornKinds : z = Append(s, Torn(kind))
    BY <1>5
  <2>2. Torn(kind) \in FrameSet /\ Torn(kind).type = "torn"
    BY FramesAreFrames
  <2>3. /\ SoundFrames(z) /\ LedgerOf(z) = LedgerOf(s) /\ Interrupted(z) = Interrupted(s)
        /\ IntactFrames(z) <=> FirstTorn(s) = 0
    BY <2>1, <2>2, SoundTorn
  <2> QED BY <2>3 DEF IntactFrames
<1> QED BY <1>2, <1>3, <1>4, <1>5

\* A whole Committed frame.
LEMMA CommittedWritten ==
  ASSUME NEW s, SoundFrames(s), NEW c \in Command, NEW b \in [first : Nat, command : Command],
         FirstTorn(s) = 0 =>
           /\ InDoubt(s, c) /\ b = Batch(LedgerOf(s), c) /\ CanProcess(LedgerOf(s), c),
         NEW z, z = Append(s, Committed(c, b))
  PROVE  DoesCommit(s, z, c)
<1> DEFINE f == Committed(c, b)
<1>1. f \in FrameSet /\ f.type = "committed" /\ s \in Seq(FrameSet) /\ Faithful(Readable(s))
  BY FramesAreFrames DEF SoundFrames
<1>2. CASE FirstTorn(s) # 0
  <2>1. /\ SoundFrames(z) /\ LedgerOf(z) = LedgerOf(s) /\ Interrupted(z) = Interrupted(s)
        /\ FirstTorn(z) # 0
        /\ IntactFrames(z) <=> FirstTorn(s) = 0
    BY <1>1, <1>2, SoundTorn
  <2> QED BY <1>2, <2>1 DEF DoesCommit
<1>3. CASE FirstTorn(s) = 0
  <2>1. InDoubt(s, c) /\ b = Batch(LedgerOf(s), c) /\ CanProcess(LedgerOf(s), c)
    BY <1>3
  <2>2. /\ z \in Seq(FrameSet) /\ Faithful(Readable(z)) /\ FirstTorn(z) = 0
        /\ LedgerOf(z) = Append(LedgerOf(s), c) /\ Interrupted(z) = <<>>
    BY <1>1, <1>3, <2>1, GrowCommitted DEF InDoubt
  <2>3. LedgerOf(z) \o Interrupted(z) = Append(LedgerOf(s), c)
    BY <2>2, AllOfThem DEF InDoubt
  <2>4. Scheduled(Append(LedgerOf(s), c))
    <3>1. LedgerOf(s) \o Interrupted(s) = Append(LedgerOf(s), c)
      BY <1>1, <2>1, AllOfThem DEF InDoubt
    <3> QED BY <3>1 DEF SoundFrames
  <2>5. EventCount(LedgerOf(z)) <= EventCapacity
    <3>1. LedgerOf(s) \in Seq(Command)
      BY <1>1, AllOfThem
    <3>2. EventCount(LedgerOf(z)) = EventCount(LedgerOf(s)) + c.size
      BY <2>2, <3>1, EventCountAppend
    <3> QED BY <2>1, <3>2 DEF CanProcess
  <2>6. SoundFrames(z)
    BY <2>2, <2>3, <2>4, <2>5 DEF SoundFrames
  <2> QED BY <1>3, <2>2, <2>6 DEF DoesCommit
<1> QED BY <1>2, <1>3

\* Whatever is left of a write of a Committed frame.
LEMMA WriteCommitted ==
  ASSUME NEW s, SoundFrames(s), NEW c \in Command, NEW b \in [first : Nat, command : Command],
         FirstTorn(s) = 0 =>
           /\ InDoubt(s, c) /\ b = Batch(LedgerOf(s), c) /\ CanProcess(LedgerOf(s), c),
         NEW residue \in Residues(Committed(c, b)), NEW z, z = s \o residue
  PROVE  MayCommit(s, z, c)
<1>1. Committed(c, b) \in FrameSet /\ s \in Seq(FrameSet)
  BY FramesAreFrames DEF SoundFrames
<1>2. \/ residue = <<>> /\ z = s
      \/ residue = <<Committed(c, b)>> /\ z = Append(s, Committed(c, b))
      \/ \E kind \in TornKinds : residue = <<Torn(kind)>> /\ z = Append(s, Torn(kind))
  BY SMTT(30), <1>1, ResidueCases
<1>3. CASE z = s
  BY <1>3 DEF MayCommit
<1>4. CASE z = Append(s, Committed(c, b))
  <2>1. DoesCommit(s, z, c)
    BY <1>4, CommittedWritten
  <2> QED BY <2>1 DEF DoesCommit, MayCommit, IntactFrames
<1>5. CASE \E kind \in TornKinds : z = Append(s, Torn(kind))
  <2>1. PICK kind \in TornKinds : z = Append(s, Torn(kind))
    BY <1>5
  <2>2. Torn(kind) \in FrameSet /\ Torn(kind).type = "torn"
    BY FramesAreFrames
  <2>3. /\ SoundFrames(z) /\ LedgerOf(z) = LedgerOf(s) /\ Interrupted(z) = Interrupted(s)
        /\ IntactFrames(z) <=> FirstTorn(s) = 0
    BY <2>1, <2>2, SoundTorn
  <2> QED BY <2>3 DEF MayCommit, IntactFrames
<1> QED BY <1>2, <1>3, <1>4, <1>5

-----------------------------------------------------------------------------
(* 8. The queue. *)

LEMMA LessIsAnOrder ==
  /\ \A c, d, e \in Command : Less(c, d) /\ Less(d, e) => Less(c, e)
  /\ \A c, d \in Command : Less(c, d) => ~Less(d, c) /\ c.at <= d.at
  /\ \A c, d \in Command : c.ingress # d.ingress => Less(c, d) \/ Less(d, c)
<1>1. \A c \in Command : c.at \in Nat /\ c.ingress \in Nat
  BY CommandFields
<1> QED BY <1>1 DEF Less

\* A command goes behind those that precede it and before the others.
LEMMA InsertedSound ==
  ASSUME NEW q \in Seq(Command), Scheduled(q), NEW c \in Command,
         \A k \in DOMAIN q : q[k].ingress < c.ingress
  PROVE  /\ Inserted(q, c) \in Seq(Command)
         /\ Scheduled(Inserted(q, c))
         /\ \A k \in DOMAIN Inserted(q, c) :
              Inserted(q, c)[k] = c \/ \E i \in DOMAIN q : Inserted(q, c)[k] = q[i]
<1> DEFINE S == {k \in DOMAIN q : Less(q[k], c)}
<1>1. DOMAIN q = 1..Len(q) /\ Len(q) \in Nat /\ \A k \in 1..Len(q) : q[k] \in Command
  OBVIOUS
<1>2. \A i \in 1..Len(q) : \A j \in 1..Len(q) : i < j => Less(q[i], q[j]) /\ q[i].ingress # q[j].ingress
  BY <1>1 DEF Scheduled
<1>3. PICK m \in 0..Len(q) : S = 1..m
  <2>1. CASE S = 1..Len(q)
    BY <1>1, <2>1
  <2>2. CASE S # 1..Len(q)
    <3> DEFINE T == (1..Len(q)) \ S
    <3>1. T # {} /\ T \subseteq Nat
      BY <1>1, <2>2
    <3>2. PICK x \in T : \A y \in T : x <= y
      <4> HIDE DEF T
      <4> QED BY <3>1, LeastNumber
    <3>3. \A k \in S : k < x
      <4>1. SUFFICES ASSUME NEW k \in S, ~(k < x) PROVE FALSE
        OBVIOUS
      <4>2. x \in 1..Len(q) /\ x \notin S /\ k \in 1..Len(q) /\ Less(q[k], c)
        BY <1>1
      <4>3. k # x
        BY <4>2
      <4>4. x < k
        BY <4>1, <4>2, <4>3
      <4>5. Less(q[x], q[k])
        BY <1>2, <4>2, <4>4
      <4>6. Less(q[x], c)
        BY <1>1, <4>2, <4>5, LessIsAnOrder
      <4> QED BY <1>1, <4>2, <4>6
    <3>4. \A k \in 1..(x - 1) : k \in S
      <4>1. SUFFICES ASSUME NEW k \in 1..(x - 1), k \notin S PROVE FALSE
        OBVIOUS
      <4>2. x \in 1..Len(q)
        OBVIOUS
      <4>3. k \in T /\ k < x
        BY <4>1, <4>2
      <4> QED BY <3>2, <4>2, <4>3
    <3>5. S = 1..(x - 1) /\ x - 1 \in 0..Len(q)
      <4>1. x \in 1..Len(q) /\ S \subseteq 1..Len(q)
        BY <1>1
      <4>2. \A k \in S : k \in 1..(x - 1)
        BY <3>3, <4>1
      <4>3. x - 1 \in 0..Len(q)
        BY <4>1
      <4> HIDE DEF S, T
      <4>4. S = 1..(x - 1)
        BY <3>4, <4>2, Zenon
      <4> QED BY <4>3, <4>4
    <3> QED BY <3>5
  <2> QED BY <2>1, <2>2
<1>4. Cardinality(S) = m
  <2>1. 1 \in Int /\ m \in Int /\ (IF 1 > m THEN 0 ELSE m - 1 + 1) = m
    OBVIOUS
  <2>2. Cardinality(1..m) = IF 1 > m THEN 0 ELSE m - 1 + 1
    BY <2>1, FS_Interval
  <2> QED BY <1>3, <2>1, <2>2
<1>5. \A k \in 1..Len(q) : Less(q[k], c) <=> k <= m
  BY <1>1, <1>3
<1> HIDE DEF S
<1>6. Inserted(q, c) = SubSeq(q, 1, m) \o <<c>> \o SubSeq(q, m + 1, Len(q))
  <2>1. Inserted(q, c) = InsertAt(q, 1 + m, c)
    BY <1>4 DEF Inserted, S
  <2>2. (1 + m) - 1 = m /\ 1 + m = m + 1
    OBVIOUS
  <2>3. InsertAt(q, 1 + m, c) = SubSeq(q, 1, (1 + m) - 1) \o <<c>> \o SubSeq(q, 1 + m, Len(q))
    BY DEF InsertAt
  <2> QED BY <2>1, <2>2, <2>3, Zenon
<1> DEFINE z == Inserted(q, c)
<1>7. /\ z \in Seq(Command) /\ Len(z) = Len(q) + 1
      /\ \A k \in 1..m : z[k] = q[k]
      /\ z[m + 1] = c
      /\ \A k \in (m + 2)..(Len(q) + 1) : z[k] = q[k - 1]
  <2> DEFINE a == SubSeq(q, 1, m)
  <2> DEFINE b == SubSeq(q, m + 1, Len(q))
  <2>1. a \in Seq(Command) /\ Len(a) = m /\ \A k \in 1..m : a[k] = q[k]
    OBVIOUS
  <2>2. b \in Seq(Command) /\ Len(b) = Len(q) - m /\ \A k \in 1..(Len(q) - m) : b[k] = q[m + k]
    OBVIOUS
  <2>3. z = a \o <<c>> \o b
    BY <1>6
  <2> HIDE DEF a, b, z
  <2>4. /\ a \o <<c>> \in Seq(Command) /\ Len(a \o <<c>>) = m + 1
        /\ \A k \in 1..m : (a \o <<c>>)[k] = q[k]
        /\ (a \o <<c>>)[m + 1] = c
    BY <2>1
  <2>5. z \in Seq(Command) /\ Len(z) = Len(q) + 1
    BY <2>2, <2>3, <2>4
  <2>6. \A k \in 1..(m + 1) : z[k] = (a \o <<c>>)[k]
    BY <2>2, <2>3, <2>4
  <2>7. \A k \in (m + 2)..(Len(q) + 1) : z[k] = q[k - 1]
    <3>1. SUFFICES ASSUME NEW k \in (m + 2)..(Len(q) + 1) PROVE z[k] = q[k - 1]
      OBVIOUS
    <3>2. k - (m + 1) \in 1..(Len(q) - m) /\ m + (k - (m + 1)) = k - 1
      OBVIOUS
    <3>3. z[k] = b[k - (m + 1)]
      BY <2>2, <2>3, <2>4
    <3> QED BY <2>2, <3>2, <3>3
  <2> QED BY <2>4, <2>5, <2>6, <2>7
<1> HIDE DEF z
<1>8. \A k \in 1..(Len(q) + 1) : \/ k <= m /\ k \in 1..Len(q) /\ z[k] = q[k]
                                 \/ k = m + 1 /\ z[k] = c
                                 \/ k > m + 1 /\ k - 1 \in 1..Len(q) /\ z[k] = q[k - 1]
  BY <1>7
<1>9. Scheduled(z)
  <2>1. SUFFICES ASSUME NEW i \in 1..(Len(q) + 1), NEW j \in 1..(Len(q) + 1), i < j
                 PROVE  Less(z[i], z[j]) /\ z[i].ingress # z[j].ingress
    BY <1>7 DEF Scheduled
  <2>2. \A k \in 1..Len(q) : q[k].ingress # c.ingress /\ (k > m => Less(c, q[k])) /\ (k <= m => Less(q[k], c))
    <3>1. SUFFICES ASSUME NEW k \in 1..Len(q)
                   PROVE  q[k].ingress # c.ingress /\ (k > m => Less(c, q[k])) /\ (k <= m => Less(q[k], c))
      OBVIOUS
    <3>2. q[k].ingress \in Nat /\ c.ingress \in Nat /\ q[k].ingress < c.ingress
      BY <1>1, CommandFields
    <3>3. q[k].ingress # c.ingress
      BY <3>2
    <3>4. k > m => Less(c, q[k])
      BY <1>1, <1>5, <3>3, LessIsAnOrder
    <3> QED BY <1>5, <3>3, <3>4
  <2>3. CASE i <= m /\ j <= m
    BY <1>2, <1>8, <2>1, <2>3
  <2>4. CASE i <= m /\ j = m + 1
    BY <1>8, <2>2, <2>4
  <2>5. CASE i <= m /\ j > m + 1
    <3>1. i < j - 1 /\ i \in 1..Len(q) /\ j - 1 \in 1..Len(q) /\ z[i] = q[i] /\ z[j] = q[j - 1]
      BY <1>8, <2>5
    <3> QED BY <1>2, <3>1
  <2>6. CASE i = m + 1 /\ j > m + 1
    <3>1. j - 1 > m /\ j - 1 \in 1..Len(q) /\ z[i] = c /\ z[j] = q[j - 1]
      BY <1>8, <2>6
    <3> QED BY <2>2, <3>1
  <2>7. CASE i > m + 1 /\ j > m + 1
    <3>1. i - 1 < j - 1 /\ i - 1 \in 1..Len(q) /\ j - 1 \in 1..Len(q) /\ z[i] = q[i - 1] /\ z[j] = q[j - 1]
      BY <1>8, <2>1, <2>7
    <3> QED BY <1>2, <3>1
  <2> QED BY <2>1, <2>3, <2>4, <2>5, <2>6, <2>7
<1>10. \A k \in 1..(Len(q) + 1) : z[k] = c \/ \E i \in 1..Len(q) : z[k] = q[i]
  BY <1>8
<1>11. DOMAIN z = 1..(Len(q) + 1)
  BY <1>7
<1> QED BY <1>1, <1>7, <1>9, <1>10, <1>11 DEF z

\* What is left behind the front of an ordered queue comes after it.
LEMMA TailSound ==
  ASSUME NEW q \in Seq(Command), Scheduled(q), q # <<>>
  PROVE  /\ Head(q) \in Command /\ Tail(q) \in Seq(Command)
         /\ Head(q) = q[1] /\ 1 \in DOMAIN q
         /\ Scheduled(Tail(q))
         /\ \A k \in DOMAIN Tail(q) : /\ k + 1 \in DOMAIN q /\ Tail(q)[k] = q[k + 1]
                                      /\ Less(Head(q), Tail(q)[k])
                                      /\ Head(q).ingress # Tail(q)[k].ingress
<1>1. /\ Head(q) \in Command /\ Tail(q) \in Seq(Command) /\ Len(Tail(q)) = Len(q) - 1
      /\ Head(q) = q[1] /\ 1 \in DOMAIN q /\ Len(q) >= 1
      /\ \A k \in 1..(Len(q) - 1) : Tail(q)[k] = q[k + 1]
  OBVIOUS
<1>2. DOMAIN q = 1..Len(q) /\ DOMAIN Tail(q) = 1..(Len(q) - 1) /\ Len(q) \in Nat
  BY <1>1
<1>3. \A k \in DOMAIN Tail(q) : k + 1 \in DOMAIN q /\ Tail(q)[k] = q[k + 1] /\ 1 < k + 1
  BY <1>1, <1>2
<1>4. \A k \in DOMAIN Tail(q) : Less(Head(q), Tail(q)[k]) /\ Head(q).ingress # Tail(q)[k].ingress
  BY <1>1, <1>3 DEF Scheduled
<1>5. Scheduled(Tail(q))
  <2>1. \A i, j \in DOMAIN Tail(q) : i < j => i + 1 < j + 1
    BY <1>2
  <2> QED BY <1>3, <2>1 DEF Scheduled
<1> QED BY <1>1, <1>3, <1>4, <1>5

LEMMA ScheduledIsSorted ==
  ASSUME NEW q \in Seq(Command), Scheduled(q)
  PROVE  Sorted(q)
<1>1. SUFFICES ASSUME NEW k \in 1..(Len(q) - 1) PROVE ~Less(q[k + 1], q[k])
  BY DEF Sorted
<1>2. k \in DOMAIN q /\ k + 1 \in DOMAIN q /\ k < k + 1 /\ q[k] \in Command /\ q[k + 1] \in Command
  OBVIOUS
<1>3. Less(q[k], q[k + 1])
  BY <1>2 DEF Scheduled
<1> QED BY <1>2, <1>3, LessIsAnOrder

LEMMA ScheduledAppend ==
  ASSUME NEW q \in Seq(Command), Scheduled(q), NEW c \in Command,
         \A i \in DOMAIN q : Less(q[i], c) /\ q[i].ingress # c.ingress
  PROVE  Scheduled(Append(q, c))
<1>1. /\ DOMAIN Append(q, c) = 1..(Len(q) + 1) /\ DOMAIN q = 1..Len(q)
      /\ Append(q, c)[Len(q) + 1] = c
      /\ \A k \in 1..Len(q) : Append(q, c)[k] = q[k]
  OBVIOUS
<1>2. SUFFICES ASSUME NEW i \in 1..(Len(q) + 1), NEW j \in 1..(Len(q) + 1), i < j
               PROVE  /\ Less(Append(q, c)[i], Append(q, c)[j])
                      /\ Append(q, c)[i].ingress # Append(q, c)[j].ingress
  BY <1>1 DEF Scheduled
<1>3. i \in 1..Len(q) /\ (j \in 1..Len(q) \/ j = Len(q) + 1)
  BY <1>2
<1> QED BY <1>1, <1>2, <1>3 DEF Scheduled

-----------------------------------------------------------------------------
(* 9. Recovery. *)

\* Every command the journal knows.
All == LedgerOf(journal) \o Interrupted(journal)

LEMMA AllType ==
  ASSUME SoundFrames(journal)
  PROVE  /\ LedgerOf(journal) \in Seq(Command) /\ Interrupted(journal) \in Seq(Command)
         /\ All \in Seq(Command) /\ Len(All) = Len(LedgerOf(journal)) + Len(Interrupted(journal))
         /\ \A k \in 1..Len(LedgerOf(journal)) : All[k] = LedgerOf(journal)[k]
         /\ \A k \in 1..Len(Interrupted(journal)) :
              All[Len(LedgerOf(journal)) + k] = Interrupted(journal)[k]
         /\ Len(Commits(journal)) = Len(LedgerOf(journal))
         /\ Len(Interrupted(journal)) \in {0, 1}
         /\ Interrupted(journal) = <<>> <=> Len(Interrupted(journal)) = 0
         /\ Scheduled(All)
<1>1. journal \in Seq(FrameSet) /\ Faithful(Readable(journal))
  BY DEF SoundFrames
<1>2. LedgerOf(journal) \in Seq(Command) /\ Interrupted(journal) \in Seq(Command)
  BY <1>1, AllOfThem
<1>3. Len(Commits(journal)) = Len(LedgerOf(journal))
  BY <1>1, LedgerType
<1>4. Interrupted(journal) = <<>> \/ \E c : Interrupted(journal) = <<c>>
  BY DEF Interrupted
<1>5. Len(Interrupted(journal)) \in {0, 1} /\ (Interrupted(journal) = <<>> <=> Len(Interrupted(journal)) = 0)
  BY <1>2, <1>4
<1>6. \A s, t \in Seq(Command) :
        /\ s \o t \in Seq(Command) /\ Len(s \o t) = Len(s) + Len(t)
        /\ \A k \in 1..Len(s) : (s \o t)[k] = s[k]
        /\ \A k \in 1..Len(t) : (s \o t)[Len(s) + k] = t[k]
  OBVIOUS
<1> QED BY <1>2, <1>3, <1>5, <1>6 DEF All, SoundFrames

\* The k-th commit frame holds the k-th command and its batch.
LEMMA CommitBatch ==
  ASSUME SoundFrames(journal), NEW k \in 1..Len(LedgerOf(journal))
  PROVE  Commits(journal)[k].batch
           = Batch(SubSeq(LedgerOf(journal), 1, k - 1), LedgerOf(journal)[k])
<1> DEFINE r == Readable(journal)
<1> DEFINE n == Len(r) \div 2
<1> DEFINE L == LedgerOf(journal)
<1>1. journal \in Seq(FrameSet) /\ Faithful(r)
  BY DEF SoundFrames
<1>2. /\ r \in Seq(FrameSet) /\ n \in Nat /\ (Len(r) = 2 * n \/ Len(r) = 2 * n + 1)
      /\ L = UpTo(r, n) /\ L \in Seq(Command) /\ Len(L) = n
      /\ \A j \in 1..n : L[j] = r[2 * j].command /\ Commits(journal)[j] = r[2 * j]
  BY <1>1, LedgerType
<1> HIDE DEF r, n, L
<1>3. k \in 1..n
  BY <1>2 DEF L
<1>4. k \in 1..Len(r) /\ 2 * k <= Len(r)
  BY <1>2, <1>3
<1>5. r[2 * k].batch = Batch(UpTo(r, k - 1), r[2 * k].command)
  BY <1>1, <1>4 DEF Faithful
<1>6. UpTo(r, k - 1) = SubSeq(L, 1, k - 1)
  <2>1. SubSeq(L, 1, k - 1) = [j \in 1..(k - 1) |-> L[j]]
    BY <1>2, <1>3
  <2>2. \A j \in 1..(k - 1) : L[j] = r[2 * j].command
    BY <1>2, <1>3
  <2> QED BY <2>1, <2>2 DEF UpTo
<1> QED BY <1>2, <1>3, <1>5, <1>6 DEF L

LEMMA ReplayType ==
  ASSUME Typed, SoundFrames(journal)
  PROVE  /\ Base \in Seq(Command) /\ ReplayStart \in Nat
         /\ ReplayStart <= Len(LedgerOf(journal)) =>
              /\ ReplayList \in Seq(Command)
              /\ Len(ReplayList) = Len(All) - ReplayStart
              /\ \A k \in 1..Len(ReplayList) : ReplayStart + k \in 1..Len(All) /\ ReplayList[k] = All[ReplayStart + k]
<1> DEFINE L == LedgerOf(journal)
<1> DEFINE I == Interrupted(journal)
<1> DEFINE p == ReplayStart
<1>1. Base \in Seq(Command) /\ p \in Nat
  <2>1. <<>> \in Seq(Command) /\ 0 \in Nat
    OBVIOUS
  <2>2. snapshot # None => snapshot.executed \in Seq(Command) /\ snapshot.count \in Nat
    BY DEF Typed, SnapshotSet
  <2> QED BY <2>1, <2>2, Zenon DEF Base, ReplayStart
<1>2. /\ L \in Seq(Command) /\ I \in Seq(Command) /\ All \in Seq(Command) /\ Len(All) = Len(L) + Len(I)
      /\ \A k \in 1..Len(L) : All[k] = L[k]
      /\ \A k \in 1..Len(I) : All[Len(L) + k] = I[k]
      /\ Len(Commits(journal)) = Len(L)
  BY AllType
<1>3. ReplayList = SubSeq(L, p + 1, Len(L)) \o I
  BY <1>2 DEF ReplayList, LedgerOf
<1> HIDE DEF L, I, p
<1>4. ASSUME p <= Len(L)
      PROVE  /\ ReplayList \in Seq(Command)
             /\ Len(ReplayList) = Len(All) - p
             /\ \A k \in 1..Len(ReplayList) : p + k \in 1..Len(All) /\ ReplayList[k] = All[p + k]
  <2> DEFINE a == SubSeq(L, p + 1, Len(L))
  <2>1. a \in Seq(Command) /\ Len(a) = Len(L) - p /\ \A k \in 1..(Len(L) - p) : a[k] = L[p + k]
    BY <1>1, <1>2, <1>4
  <2>2. ReplayList = a \o I
    BY <1>3
  <2> HIDE DEF a
  <2>3. /\ ReplayList \in Seq(Command) /\ Len(ReplayList) = Len(L) - p + Len(I)
        /\ \A k \in 1..Len(a) : ReplayList[k] = a[k]
        /\ \A k \in 1..Len(I) : ReplayList[Len(a) + k] = I[k]
    <3>1. \A s, t \in Seq(Command) :
            /\ s \o t \in Seq(Command) /\ Len(s \o t) = Len(s) + Len(t)
            /\ \A k \in 1..Len(s) : (s \o t)[k] = s[k]
            /\ \A k \in 1..Len(t) : (s \o t)[Len(s) + k] = t[k]
      OBVIOUS
    <3>2. /\ ReplayList \in Seq(Command) /\ Len(ReplayList) = Len(a) + Len(I)
          /\ \A k \in 1..Len(a) : ReplayList[k] = a[k]
          /\ \A k \in 1..Len(I) : ReplayList[Len(a) + k] = I[k]
      BY ZenonT(30), <1>2, <2>1, <2>2, <3>1
    <3> QED BY <2>1, <3>2
  <2>4. Len(ReplayList) = Len(All) - p
    BY <1>1, <1>2, <2>3
  <2>5. ASSUME NEW k \in 1..Len(ReplayList)
        PROVE  p + k \in 1..Len(All) /\ ReplayList[k] = All[p + k]
    <3>1. p + k \in 1..Len(All)
      BY <1>1, <1>2, <2>4
    <3>2. CASE k <= Len(L) - p
      <4>1. k \in 1..Len(a) /\ k \in 1..(Len(L) - p) /\ p + k \in 1..Len(L)
        BY <1>1, <1>2, <2>1, <3>2
      <4> QED BY <1>2, <2>1, <2>3, <3>1, <4>1
    <3>3. CASE k > Len(L) - p
      <4>1. k - (Len(L) - p) \in 1..Len(I) /\ Len(a) + (k - (Len(L) - p)) = k /\ Len(L) + (k - (Len(L) - p)) = p + k
        BY <1>1, <1>2, <2>1, <2>3, <3>3
      <4>2. ReplayList[k] = I[k - (Len(L) - p)] /\ All[p + k] = I[k - (Len(L) - p)]
        BY <1>2, <2>3, <4>1
      <4> QED BY <3>1, <4>2
    <3>4. k <= Len(L) - p \/ k > Len(L) - p
      BY <1>1, <1>2
    <3> QED BY <3>2, <3>3, <3>4
  <2> QED BY <2>3, <2>4, <2>5
<1> QED BY <1>1, <1>4 DEF L, p

\* The snapshot's commands are the first of the ledger.
LEMMA BaseIsPrefix ==
  ASSUME Typed, SoundFrames(journal), SnapshotSound, Intact
  PROVE  /\ Len(Base) <= Len(LedgerOf(journal))
         /\ ReplayStart <= Len(Base)
         /\ \A k \in 1..Len(Base) : Base[k] = LedgerOf(journal)[k]
<1> DEFINE L == LedgerOf(journal)
<1>1. L \in Seq(Command) /\ Base \in Seq(Command)
  BY AllType, ReplayType
<1>2. CASE snapshot = None
  <2>1. Base = <<>> /\ ReplayStart = 0
    BY <1>2 DEF Base, ReplayStart
  <2> QED BY <1>1, <2>1
<1>3. CASE snapshot # None
  <2>1. Base = snapshot.executed /\ ReplayStart = snapshot.count
    BY <1>3 DEF Base, ReplayStart
  <2>2. IsPrefix(Base, L) /\ ReplayStart <= Len(Base)
    BY <1>3, <2>1 DEF SnapshotSound
  <2>3. Len(Base) <= Len(L) /\ SubSeq(Base, 1, Len(Base)) = SubSeq(L, 1, Len(Base))
    BY <2>2 DEF IsPrefix
  <2> HIDE DEF L
  <2>4. \A k \in 1..Len(Base) : SubSeq(Base, 1, Len(Base))[k] = Base[k] /\ SubSeq(L, 1, Len(Base))[k] = L[k]
    BY <1>1, <2>3
  <2>5. \A k \in 1..Len(Base) : Base[k] = L[k]
    BY <2>3, <2>4
  <2> QED BY <2>2, <2>3, <2>5 DEF L
<1> QED BY <1>2, <1>3

\* Verifying the first replayed batch catches a snapshot that miscounts.
LEMMA MiscountIsCaught ==
  ASSUME Typed, SoundFrames(journal), SnapshotSound, Intact, ReplayStart < Len(Base)
  PROVE  ~RecoveryAccepts
<1> DEFINE L == LedgerOf(journal)
<1> DEFINE p == ReplayStart
<1>1. /\ L \in Seq(Command) /\ Base \in Seq(Command) /\ p \in Nat
      /\ Len(Commits(journal)) = Len(L)
  BY AllType, ReplayType
<1>2. /\ Len(Base) <= Len(L) /\ p < Len(Base)
      /\ \A k \in 1..Len(Base) : Base[k] = L[k]
  BY BaseIsPrefix
<1>3. p <= Len(L) /\ p + 1 \in 1..Len(L) /\ p \in 0..Len(Base)
  BY <1>1, <1>2
<1>4. /\ ReplayList \in Seq(Command) /\ Len(ReplayList) = Len(All) - p /\ Len(All) >= Len(L)
      /\ ReplayList[1] = All[p + 1]
  <2>1. Len(All) = Len(L) + Len(Interrupted(journal)) /\ Len(Interrupted(journal)) \in {0, 1}
    BY AllType
  <2>2. /\ ReplayList \in Seq(Command) /\ Len(ReplayList) = Len(All) - p
        /\ \A k \in 1..Len(ReplayList) : ReplayList[k] = All[p + k]
    BY <1>3, ReplayType
  <2>3. 1 \in 1..Len(ReplayList)
    BY <1>1, <1>3, <2>1, <2>2
  <2> HIDE DEF L, p
  <2> QED BY <1>1, <2>1, <2>2, <2>3
<1>5. 1 \in DOMAIN ReplayList
  BY <1>1, <1>3, <1>4
<1>6. SUFFICES ASSUME RecoveryAccepts PROVE FALSE
  OBVIOUS
<1>7. Batch(ReplayedBefore(1), ReplayList[1]) = Commits(journal)[p + 1].batch
  <2>1. p + 1 <= Len(Commits(journal))
    BY <1>1, <1>3
  <2> QED BY <1>5, <1>6, <2>1 DEF RecoveryAccepts
<1>8. ReplayedBefore(1) = Base
  <2>1. SubSeq(ReplayList, 1, 1 - 1) = <<>>
    BY <1>4
  <2> QED BY <1>1, <2>1 DEF ReplayedBefore
<1>9. Commits(journal)[p + 1].batch = Batch(SubSeq(L, 1, p), L[p + 1])
  <2>1. (p + 1) - 1 = p
    BY <1>1
  <2>2. Commits(journal)[p + 1].batch = Batch(SubSeq(L, 1, (p + 1) - 1), L[p + 1])
    BY <1>3, CommitBatch
  <2> QED BY <2>1, <2>2
<1>10. SubSeq(L, 1, p) = SubSeq(Base, 1, p)
  <2> HIDE DEF L, p
  <2>1. \A k \in 1..p : Base[k] = L[k]
    BY <1>1, <1>2
  <2> QED BY <1>1, <1>2, <1>3, <2>1
<1>11. EventCount(SubSeq(Base, 1, p)) < EventCount(Base) /\ EventCount(SubSeq(Base, 1, p)) \in Nat
  BY <1>1, <1>2, <1>3, EventCountPrefix
<1>12. EventCount(Base) + 1 = EventCount(SubSeq(Base, 1, p)) + 1
  <2>1. Batch(Base, ReplayList[1]) = Batch(SubSeq(Base, 1, p), L[p + 1])
    BY <1>7, <1>8, <1>9, <1>10, Zenon
  <2>2. \A s, t, c, d : Batch(s, c) = Batch(t, d) => EventCount(s) + 1 = EventCount(t) + 1
    <3>1. \A s, c : Batch(s, c).first = EventCount(s) + 1
      BY DEF Batch
    <3> QED BY <3>1, Zenon
  <2> QED BY <2>1, <2>2, Zenon
<1>13. EventCount(Base) \in Nat
  BY <1>1, EventsFinite
<1> QED BY <1>11, <1>12, <1>13

\* From a snapshot that counts right, recovery has every command.
LEMMA ReplayIsComplete ==
  ASSUME Typed, SoundFrames(journal), SnapshotSound, Intact, ReplayStart = Len(Base)
  PROVE  Base \o ReplayList = All
<1> DEFINE L == LedgerOf(journal)
<1> DEFINE p == ReplayStart
<1>1. /\ L \in Seq(Command) /\ Base \in Seq(Command) /\ All \in Seq(Command) /\ p \in Nat /\ p = Len(Base)
      /\ \A k \in 1..Len(L) : All[k] = L[k]
      /\ Len(All) >= Len(L)
  BY AllType, ReplayType
<1>2. p <= Len(L) /\ \A k \in 1..p : Base[k] = L[k]
  BY BaseIsPrefix
<1>3. /\ ReplayList \in Seq(Command) /\ Len(ReplayList) = Len(All) - p
      /\ \A k \in 1..Len(ReplayList) : ReplayList[k] = All[p + k]
  BY <1>2, ReplayType
<1> HIDE DEF L, p
<1>4. /\ Base \o ReplayList \in Seq(Command) /\ Len(Base \o ReplayList) = Len(All)
      /\ \A k \in 1..p : (Base \o ReplayList)[k] = Base[k]
      /\ \A k \in 1..Len(ReplayList) : (Base \o ReplayList)[p + k] = ReplayList[k]
  BY <1>1, <1>3
<1>5. ASSUME NEW k \in 1..Len(All)
      PROVE  (Base \o ReplayList)[k] = All[k]
  <2>1. CASE k <= p
    <3>1. k \in 1..p /\ k \in 1..Len(L)
      BY <1>1, <1>2, <2>1
    <3> QED BY <1>1, <1>2, <1>4, <3>1
  <2>2. CASE k > p
    <3>1. k - p \in 1..Len(ReplayList) /\ p + (k - p) = k
      BY <1>1, <1>3, <2>2
    <3> QED BY <1>3, <1>4, <3>1
  <2>3. k <= p \/ k > p
    BY <1>1
  <2> QED BY <2>1, <2>2, <2>3
<1>6. \A s, t \in Seq(Command) : Len(s) = Len(t) /\ (\A k \in 1..Len(t) : s[k] = t[k]) => s = t
  OBVIOUS
<1> QED BY <1>1, <1>4, <1>5, <1>6

\* What recovery accepts it rebuilds.
LEMMA ExactFromInvariant ==
  ASSUME IInv PROVE RecoveryIsExact
<1>1. SUFFICES ASSUME RecoveryAccepts, Intact PROVE Base \o ReplayList = All
  BY DEF RecoveryIsExact, All, LedgerOf, Ledger
<1>2. Typed /\ SoundFrames(journal) /\ SnapshotSound
  BY DEF IInv
<1>3. ReplayStart \in Nat /\ Len(Base) \in Nat /\ ReplayStart <= Len(Base)
  <2>1. Base \in Seq(Command) /\ ReplayStart \in Nat
    BY <1>2, ReplayType
  <2>2. ReplayStart <= Len(Base)
    BY <1>1, <1>2, BaseIsPrefix
  <2> QED BY <2>1, <2>2
<1>4. ReplayStart = Len(Base)
  BY <1>1, <1>2, <1>3, MiscountIsCaught
<1> QED BY <1>1, <1>2, <1>4, ReplayIsComplete

\* What recovery has executed before each replayed command.
LEMMA ReplayedBeforeIs ==
  ASSUME Typed, SoundFrames(journal), SnapshotSound, Intact, ReplayStart = Len(Base),
         NEW k \in 1..Len(ReplayList)
  PROVE  /\ ReplayStart + k - 1 \in 0..Len(All) /\ ReplayStart + k \in 1..Len(All)
         /\ ReplayedBefore(k) = SubSeq(All, 1, ReplayStart + k - 1)
         /\ ReplayList[k] = All[ReplayStart + k]
<1> DEFINE p == ReplayStart
<1>1. /\ Base \in Seq(Command) /\ All \in Seq(Command) /\ p \in Nat /\ p = Len(Base)
      /\ p <= Len(LedgerOf(journal))
  BY AllType, ReplayType, BaseIsPrefix
<1>2. /\ ReplayList \in Seq(Command) /\ Len(ReplayList) = Len(All) - p
      /\ p + k \in 1..Len(All) /\ ReplayList[k] = All[p + k]
  BY <1>1, ReplayType
<1>3. Base \o ReplayList = All
  BY ReplayIsComplete
<1> HIDE DEF p
<1>4. \A s, t \in Seq(Command) : \A j \in 1..Len(t) :
        s \o SubSeq(t, 1, j - 1) = SubSeq(s \o t, 1, Len(s) + j - 1)
  <2>1. SUFFICES ASSUME NEW s \in Seq(Command), NEW t \in Seq(Command), NEW j \in 1..Len(t)
                 PROVE  s \o SubSeq(t, 1, j - 1) = SubSeq(s \o t, 1, Len(s) + j - 1)
    OBVIOUS
  <2> DEFINE u == SubSeq(t, 1, j - 1)
  <2>2. u \in Seq(Command) /\ Len(u) = j - 1 /\ \A i \in 1..(j - 1) : u[i] = t[i]
    OBVIOUS
  <2>3. /\ s \o t \in Seq(Command) /\ Len(s \o t) = Len(s) + Len(t)
        /\ \A i \in 1..Len(s) : (s \o t)[i] = s[i]
        /\ \A i \in (Len(s) + 1)..(Len(s) + Len(t)) : (s \o t)[i] = t[i - Len(s)]
    OBVIOUS
  <2> DEFINE v == s \o t
  <2> DEFINE w == SubSeq(v, 1, Len(s) + j - 1)
  <2> HIDE DEF u, v
  <2>4. /\ s \o u \in Seq(Command) /\ Len(s \o u) = Len(s) + (j - 1)
        /\ \A i \in 1..Len(s) : (s \o u)[i] = s[i]
        /\ \A i \in (Len(s) + 1)..(Len(s) + (j - 1)) : (s \o u)[i] = u[i - Len(s)]
    BY <2>2
  <2>5. /\ w \in Seq(Command) /\ Len(w) = Len(s) + (j - 1)
        /\ \A i \in 1..(Len(s) + (j - 1)) : w[i] = v[i]
    BY <2>3 DEF v
  <2>6. \A i \in 1..(Len(s) + (j - 1)) : (s \o u)[i] = w[i]
    <3>1. SUFFICES ASSUME NEW i \in 1..(Len(s) + (j - 1)) PROVE (s \o u)[i] = w[i]
      OBVIOUS
    <3>2. CASE i <= Len(s)
      <4>1. i \in 1..Len(s)
        BY <3>2
      <4> QED BY <2>3, <2>4, <2>5, <4>1 DEF v
    <3>3. CASE i > Len(s)
      <4>1. /\ i \in (Len(s) + 1)..(Len(s) + (j - 1)) /\ i \in (Len(s) + 1)..(Len(s) + Len(t))
            /\ i - Len(s) \in 1..(j - 1)
        BY <3>3
      <4>2. (s \o u)[i] = t[i - Len(s)]
        BY <2>2, <2>4, <4>1
      <4>3. w[i] = t[i - Len(s)]
        BY <2>3, <2>5, <4>1 DEF v
      <4> QED BY <4>2, <4>3
    <3>4. i <= Len(s) \/ i > Len(s)
      OBVIOUS
    <3> QED BY <3>2, <3>3, <3>4
  <2> HIDE DEF w
  <2>7. s \o u = w
    <3>1. \A x, y \in Seq(Command) : \A n \in Nat :
            Len(x) = n /\ Len(y) = n /\ (\A i \in 1..n : x[i] = y[i]) => x = y
      OBVIOUS
    <3>2. Len(s) + (j - 1) \in Nat
      OBVIOUS
    <3> QED BY <2>4, <2>5, <2>6, <3>1, <3>2, Zenon
  <2> QED BY <2>7 DEF u, v, w
<1>5. ReplayedBefore(k) = SubSeq(All, 1, p + k - 1)
  <2>1. ReplayedBefore(k) = SubSeq(Base \o ReplayList, 1, Len(Base) + k - 1)
    BY <1>1, <1>2, <1>4 DEF ReplayedBefore
  <2> QED BY <1>1, <1>3, <2>1
<1>6. p + k - 1 \in 0..Len(All)
  BY <1>1, <1>2
<1> QED BY <1>2, <1>5, <1>6 DEF p

LEMMA Parity ==
  \A k \in Nat \ {0} :
    \/ k % 2 = 1 /\ \E j \in 1..k : k = 2 * j - 1
    \/ k % 2 = 0 /\ \E j \in 1..k : k = 2 * j
<1>1. SUFFICES ASSUME NEW k \in Nat \ {0}
               PROVE  \/ k % 2 = 1 /\ \E j \in 1..k : k = 2 * j - 1
                      \/ k % 2 = 0 /\ \E j \in 1..k : k = 2 * j
  OBVIOUS
<1>2. k % 2 = 1 \/ k % 2 = 0
  OBVIOUS
<1>3. ASSUME k % 2 = 1 PROVE \E j \in 1..k : k = 2 * j - 1
  <2>1. (k + 1) \div 2 \in 1..k /\ k = 2 * ((k + 1) \div 2) - 1
    BY <1>3
  <2> QED BY <2>1
<1>4. ASSUME k % 2 = 0 PROVE \E j \in 1..k : k = 2 * j
  <2>1. k \div 2 \in 1..k /\ k = 2 * (k \div 2)
    BY <1>4
  <2> QED BY <2>1
<1> QED BY <1>2, <1>3, <1>4

LEMMA IntactReadsClean ==
  ASSUME SoundFrames(journal), Intact PROVE ReadsClean(journal)
<1> DEFINE r == Readable(journal)
<1>1. journal \in Seq(FrameSet) /\ Faithful(r)
  BY DEF SoundFrames
<1>2. r \in Seq(FrameSet) /\ \A k \in 1..Len(r) : r[k] = journal[k]
  BY <1>1, ReadableType
<1> HIDE DEF r
<1>3. ASSUME NEW k \in 1..Len(r)
      PROVE  IF k % 2 = 1 THEN journal[k].type = "prepared"
             ELSE journal[k].type = "committed" /\ journal[k].command = journal[k - 1].command
  <2>1. k \in Nat \ {0} /\ Len(r) \in Nat
    BY <1>2
  <2>2. \/ k % 2 = 1 /\ \E j \in 1..k : k = 2 * j - 1
        \/ k % 2 = 0 /\ \E j \in 1..k : k = 2 * j
    BY <2>1, Parity
  <2>3. CASE k % 2 = 1 /\ \E j \in 1..k : k = 2 * j - 1
    <3>1. PICK j \in 1..k : k = 2 * j - 1
      BY <2>3
    <3>2. j \in 1..Len(r) /\ 2 * j - 1 <= Len(r)
      BY <2>1, <3>1
    <3>3. r[k].type = "prepared"
      BY <1>1, <3>1, <3>2 DEF Faithful
    <3> QED BY <1>2, <2>3, <3>3
  <2>4. CASE k % 2 = 0 /\ \E j \in 1..k : k = 2 * j
    <3>1. PICK j \in 1..k : k = 2 * j
      BY <2>4
    <3>2. j \in 1..Len(r) /\ 2 * j <= Len(r) /\ k - 1 \in 1..Len(r)
      BY <2>1, <3>1
    <3>3. r[k].type = "committed" /\ r[k].command = r[k - 1].command
      BY <1>1, <3>1, <3>2 DEF Faithful
    <3>4. r[k] = journal[k] /\ r[k - 1] = journal[k - 1]
      BY <1>2, <3>2
    <3> QED BY <2>4, <3>3, <3>4
  <2> QED BY <2>2, <2>3, <2>4
<1>4. DOMAIN r = 1..Len(r)
  BY <1>2
<1>5. FirstTorn(journal) # 0 => FirstTorn(journal) = Len(journal)
  BY DEF Intact
<1> QED BY <1>3, <1>4, <1>5 DEF ReadsClean, r

\* An intact journal is refused for two reasons only.
LEMMA RefusalsFromInvariant ==
  ASSUME IInv PROVE RecoveryRefusals
<1> DEFINE L == LedgerOf(journal)
<1> DEFINE I == Interrupted(journal)
<1> DEFINE p == ReplayStart
<1>1. SUFFICES ASSUME genesis = "written", Intact, HonestSnapshot,
                      I = <<>> \/ CanProcess(L, I[1])
               PROVE  RecoveryAccepts
  BY DEF RecoveryRefusals, LedgerOf, Ledger
<1>2. Typed /\ SoundFrames(journal) /\ SnapshotSound
  BY DEF IInv
<1>3. /\ L \in Seq(Command) /\ I \in Seq(Command) /\ All \in Seq(Command)
      /\ \A k \in 1..Len(L) : All[k] = L[k]
      /\ Len(Commits(journal)) = Len(L)
      /\ Scheduled(All)
  BY <1>2, AllType
<1>4. p = Len(Base) /\ p \in Nat /\ p <= Len(L)
  <2>1. CASE snapshot = None
    <3>1. p = 0 /\ Base = <<>>
      BY <2>1 DEF Base, ReplayStart
    <3> QED BY <1>3, <3>1
  <2>2. CASE snapshot # None
    <3>1. p = Len(Base)
      BY <1>1, <2>2 DEF HonestSnapshot, Base, ReplayStart
    <3>2. Len(Base) <= Len(L)
      BY <1>1, <1>2, BaseIsPrefix
    <3>3. Base \in Seq(Command)
      BY <1>2, ReplayType
    <3> QED BY <3>1, <3>2, <3>3
  <2> QED BY <2>1, <2>2
<1>5. EventCount(All) <= EventCapacity
  <2>1. CASE I = <<>>
    <3>1. All = L
      BY <1>2, <2>1, AllOfThem DEF SoundFrames, All
    <3> QED BY <1>2, <3>1 DEF SoundFrames
  <2>2. CASE I # <<>>
    <3>1. PICK c \in Command : I = <<c>>
      BY <1>2, <2>2, AllOfThem DEF SoundFrames
    <3>2. All = Append(L, c)
      BY <1>2, <3>1, AllOfThem DEF SoundFrames, All
    <3>3. CanProcess(L, c)
      BY <1>1, <2>2, <3>1
    <3>4. EventCount(All) = EventCount(L) + c.size
      BY <1>3, <3>2, EventCountAppend
    <3> QED BY <3>3, <3>4 DEF CanProcess
  <2> QED BY <2>1, <2>2
<1>6. /\ ReplayList \in Seq(Command)
      /\ DOMAIN ReplayList = 1..Len(ReplayList)
      /\ \A k \in 1..Len(ReplayList) : p + k \in 1..Len(All) /\ ReplayList[k] = All[p + k]
  <2>1. /\ ReplayList \in Seq(Command)
        /\ \A k \in 1..Len(ReplayList) : p + k \in 1..Len(All) /\ ReplayList[k] = All[p + k]
    BY <1>2, <1>4, ReplayType
  <2> QED BY <2>1
<1>7. Sorted(ReplayList)
  <2>1. Scheduled(ReplayList)
    <3>1. DOMAIN All = 1..Len(All)
      BY <1>3
    <3>2. SUFFICES ASSUME NEW i \in 1..Len(ReplayList), NEW j \in 1..Len(ReplayList), i < j
                   PROVE  /\ Less(ReplayList[i], ReplayList[j])
                          /\ ReplayList[i].ingress # ReplayList[j].ingress
      BY <1>6 DEF Scheduled
    <3>3. p + i \in DOMAIN All /\ p + j \in DOMAIN All /\ p + i < p + j
      BY <1>4, <1>6, <3>1, <3>2
    <3>4. Less(All[p + i], All[p + j]) /\ All[p + i].ingress # All[p + j].ingress
      BY <1>3, <3>3 DEF Scheduled
    <3> QED BY <1>6, <3>4
  <2> QED BY <1>6, <2>1, ScheduledIsSorted
<1>8. ASSUME NEW k \in 1..Len(ReplayList)
      PROVE  /\ CanProcess(ReplayedBefore(k), ReplayList[k])
             /\ p + k <= Len(Commits(journal)) =>
                  Batch(ReplayedBefore(k), ReplayList[k]) = Commits(journal)[p + k].batch
  <2>1. /\ p + k - 1 \in 0..Len(All) /\ p + k \in 1..Len(All)
        /\ ReplayedBefore(k) = SubSeq(All, 1, p + k - 1)
        /\ ReplayList[k] = All[p + k]
    BY <1>1, <1>2, <1>4, ReplayedBeforeIs
  <2>2. (p + k - 1) + 1 = p + k /\ p + k - 1 < Len(All)
    BY <1>3, <1>4, <2>1
  <2>3. EventCount(SubSeq(All, 1, p + k - 1)) + All[p + k].size <= EventCount(All)
    <3> DEFINE m == p + k - 1
    <3>1. m \in 0..Len(All) /\ m < Len(All) /\ m + 1 = p + k
      BY <2>1, <2>2
    <3> HIDE DEF m
    <3>2. EventCount(SubSeq(All, 1, m)) + All[m + 1].size <= EventCount(All)
      BY <1>3, <3>1, EventCountPrefix
    <3> QED BY <3>1, <3>2 DEF m
  <2>4. CanProcess(ReplayedBefore(k), ReplayList[k])
    <3>1. EventCount(All) \in Nat /\ EventCount(SubSeq(All, 1, p + k - 1)) \in Nat
      BY <1>3, <2>1, EventsFinite, EventCountPrefix
    <3>2. All[p + k].size \in Nat /\ EventCapacity \in Nat
      BY <1>3, <2>1, CommandFields, DurableAssumption
    <3> QED BY <1>5, <2>1, <2>3, <3>1, <3>2 DEF CanProcess
  <2>5. ASSUME p + k <= Len(Commits(journal))
        PROVE  Batch(ReplayedBefore(k), ReplayList[k]) = Commits(journal)[p + k].batch
    <3> DEFINE m == p + k
    <3>1. m \in 1..Len(L)
      BY <1>3, <2>1, <2>5
    <3>2. Commits(journal)[m].batch = Batch(SubSeq(L, 1, m - 1), L[m])
      BY <1>2, <3>1, CommitBatch
    <3>3. SubSeq(All, 1, m - 1) = SubSeq(L, 1, m - 1) /\ All[m] = L[m]
      <4> HIDE DEF m, L
      <4>1. Len(L) <= Len(All)
        BY <1>2, AllType DEF L
      <4> QED BY <1>3, <3>1, <4>1
    <3>4. m - 1 = p + k - 1
      BY <1>4
    <3> QED BY <2>1, <3>2, <3>3, <3>4
  <2> QED BY <2>4, <2>5
<1>9. snapshot # None => snapshot.pending = <<>>
  BY <1>1, <1>2 DEF SnapshotSound
<1>10. ReadsClean(journal)
  BY <1>1, <1>2, IntactReadsClean
<1> HIDE DEF L, I
<1> QED BY <1>1, <1>3, <1>4, <1>6, <1>7, <1>8, <1>9, <1>10 DEF RecoveryAccepts

-----------------------------------------------------------------------------
(* 10. Each action preserves the invariant. *)

LEMMA EmptyFrames ==
  /\ FirstTorn(<<>>) = 0 /\ LedgerOf(<<>>) = <<>> /\ Interrupted(<<>>) = <<>>
  /\ SoundFrames(<<>>) /\ IntactFrames(<<>>)
<1>1. <<>> \in Seq(FrameSet) /\ Len(<<>>) = 0
  OBVIOUS
<1>2. FirstTorn(<<>>) = 0
  <2>1. FirstTorn(<<>>) \in 0..Len(<<>>)
    BY <1>1, FirstTornType
  <2> QED BY <1>1, <2>1
<1>3. Faithful(<<>>)
  BY <1>1 DEF Faithful
<1>4. Len(<<>>) = 2 * 0 /\ 0 \in Nat
  OBVIOUS
<1>5. LedgerOf(<<>>) = UpTo(<<>>, 0) /\ LedgerOf(<<>>) \in Seq(Command) /\ Len(LedgerOf(<<>>)) = 0 /\ Interrupted(<<>>) = <<>>
  BY <1>1, <1>2, <1>3, <1>4, LedgerWhole
<1>6. LedgerOf(<<>>) = <<>>
  BY <1>5
<1>7. Readable(<<>>) = <<>>
  BY <1>2 DEF Readable
<1>8. Scheduled(LedgerOf(<<>>) \o Interrupted(<<>>))
  <2>1. LedgerOf(<<>>) \o Interrupted(<<>>) = <<>>
    BY <1>5, <1>6
  <2> QED BY <2>1 DEF Scheduled
<1>9. EventCount(LedgerOf(<<>>)) <= EventCapacity
  BY <1>6, EventCountEmpty, DurableAssumption
<1> QED BY <1>1, <1>2, <1>3, <1>5, <1>6, <1>7, <1>8, <1>9 DEF SoundFrames, IntactFrames

LEMMA IntactIs == Intact <=> IntactFrames(journal)
BY DEF Intact, IntactFrames

LEMMA EmptyCommands ==
  /\ <<>> \in Seq(Command) /\ Scheduled(<<>>) /\ DOMAIN <<>> = {}
  /\ \A n, m : Behind(<<>>, n, m)
  /\ \A q : Precede(<<>>, q) /\ Precede(q, <<>>)
<1>1. DOMAIN <<>> = {} /\ <<>> \in Seq(Command)
  OBVIOUS
<1> QED BY <1>1 DEF Scheduled, Behind, Precede

LEMMA InitSound == Init => IInv
<1> SUFFICES ASSUME Init PROVE IInv
  OBVIOUS
<1>1. 1 \in 1..(MaxIngress + 1) /\ 0 \in Nat
  BY DurableAssumption
<1>2. Typed
  BY <1>1, EmptyCommands DEF Init, Typed
<1>3. SoundFrames(journal)
  BY EmptyFrames DEF Init
<1>4. NothingYet
  BY DEF Init, NothingYet
<1>5. QueueSound
  BY EmptyCommands DEF Init, QueueSound
<1>6. RunningSound /\ SnapshotSound
  BY DEF Init, RunningSound, SnapshotSound
<1> QED BY <1>2, <1>3, <1>4, <1>5, <1>6 DEF IInv

LEMMA CreateDurableSound == IInv /\ CreateDurable => IInv'
<1> SUFFICES ASSUME IInv, CreateDurable PROVE IInv'
  OBVIOUS
<1> USE DEF IInv
<1>1. /\ genesis = "absent" /\ mode = "down" /\ journal = <<>> /\ snapshot = None
      /\ queue = <<>> /\ executed = <<>> /\ now = 0 /\ nextIngress = 1 /\ published = 0
  BY DEF CreateDurable, NothingYet
<1>2. /\ journal' = journal /\ snapshot' = snapshot /\ queue' = queue /\ executed' = executed
      /\ now' = now /\ nextIngress' = nextIngress /\ published' = published
      /\ genesis' \in {"torn", "written"} /\ mode' \in {"running", "down"}
  BY DEF CreateDurable, memory
<1>3. Typed'
  BY <1>2 DEF Typed
<1>4. SoundFrames(journal')
  BY <1>2
<1>5. NothingYet'
  BY <1>1, <1>2 DEF NothingYet
<1>6. QueueSound'
  BY <1>2 DEF QueueSound
<1>7. RunningSound'
  <2>1. /\ LedgerOf(journal') = <<>> /\ Interrupted(journal') = <<>> /\ executed' = <<>>
        /\ published' = 0 /\ queue' = <<>>
    BY <1>1, <1>2, EmptyFrames
  <2>2. published' <= Len(LedgerOf(journal'))
    BY <2>1
  <2> QED BY <2>1, <2>2, EmptyCommands DEF RunningSound
<1>8. SnapshotSound'
  BY <1>1, <1>2 DEF SnapshotSound
<1> QED BY <1>3, <1>4, <1>5, <1>6, <1>7, <1>8

LEMMA EnqueueSound ==
  ASSUME IInv, NEW at \in Times, NEW size \in BatchSizes, Enqueue(at, size)
  PROVE  IInv'
<1> DEFINE c == [at |-> at, ingress |-> nextIngress, size |-> size]
<1> USE DEF IInv
<1>1. /\ mode = "running" /\ at >= now /\ nextIngress <= MaxIngress
      /\ nextIngress' = nextIngress + 1
      /\ queue' = Inserted(queue, c)
      /\ genesis' = genesis /\ journal' = journal /\ snapshot' = snapshot /\ mode' = mode
      /\ executed' = executed /\ now' = now /\ published' = published
  BY DEF Enqueue, disk
<1>2. nextIngress \in Nat /\ nextIngress \in 1..MaxIngress /\ nextIngress + 1 \in 1..(MaxIngress + 1)
  BY <1>1, DurableAssumption DEF Typed
<1>3. c \in Command /\ c.at = at /\ c.ingress = nextIngress
  BY <1>2 DEF Command
<1> HIDE DEF c
<1>4. queue \in Seq(Command) /\ Scheduled(queue) /\ now \in Nat /\ at \in Nat /\ executed \in Seq(Command)
  <2>1. now \in Nat /\ at \in Nat
    BY DurableAssumption DEF Typed
  <2> QED BY <2>1 DEF Typed, QueueSound
<1>5. \A k \in DOMAIN queue : queue[k] \in Command /\ queue[k].at >= now /\ queue[k].ingress < nextIngress
  BY <1>4 DEF QueueSound
<1>6. /\ queue' \in Seq(Command)
      /\ Scheduled(queue')
      /\ \A k \in DOMAIN queue' : queue'[k] = c \/ \E i \in DOMAIN queue : queue'[k] = queue[i]
  BY <1>1, <1>3, <1>4, <1>5, InsertedSound
<1>7. Typed'
  BY <1>1, <1>2, <1>6 DEF Typed
<1>8. SoundFrames(journal')
  BY <1>1
<1>9. NothingYet'
  BY <1>1 DEF NothingYet
<1>10. QueueSound'
  <2>1. \A d \in Command : d.ingress \in Nat
    BY CommandFields
  <2>2. \A i \in DOMAIN queue : queue[i].ingress < nextIngress + 1
    BY <1>2, <1>5, <2>1
  <2>3. c.at >= now /\ c.ingress < nextIngress + 1
    BY <1>1, <1>2, <1>3
  <2>4. \A k \in DOMAIN queue' : queue'[k].at >= now' /\ queue'[k].ingress < nextIngress'
    BY <1>1, <1>5, <1>6, <2>2, <2>3
  <2> QED BY <1>6, <2>4 DEF QueueSound
<1>11. RunningSound'
  <2>1. SUFFICES ASSUME mode = "running", Intact
                 PROVE  Behind(executed, now, nextIngress + 1) /\ Precede(executed, queue')
    BY <1>1 DEF RunningSound, Intact
  <2>2. Behind(executed, now, nextIngress) /\ Precede(executed, queue)
    BY <2>1 DEF RunningSound
  <2>3. \A i \in DOMAIN executed : /\ executed[i].at \in Nat /\ executed[i].ingress \in Nat
                                   /\ executed[i].at <= now /\ executed[i].ingress < nextIngress
    BY <1>4, <2>2, CommandFields DEF Behind
  <2>4. Behind(executed, now, nextIngress + 1)
    BY <1>2, <2>3 DEF Behind
  <2>5. \A i \in DOMAIN executed : Less(executed[i], c) /\ executed[i].ingress # c.ingress
    BY <1>1, <1>2, <1>3, <1>4, <2>3 DEF Less
  <2>6. Precede(executed, queue')
    BY <1>6, <2>2, <2>5 DEF Precede
  <2> QED BY <2>4, <2>6
<1>12. SnapshotSound'
  BY <1>1 DEF SnapshotSound, Intact
<1> QED BY <1>7, <1>8, <1>9, <1>10, <1>11, <1>12

LEMMA CrashSound == IInv /\ Crash => IInv'
<1> SUFFICES ASSUME IInv, Crash PROVE IInv'
  OBVIOUS
<1> USE DEF IInv
<1>1. /\ mode # "down" /\ mode' = "down"
      /\ queue' = <<>> /\ executed' = <<>> /\ now' = 0 /\ nextIngress' = 1 /\ published' = 0
      /\ genesis' = genesis /\ journal' = journal /\ snapshot' = snapshot
  BY DEF Crash, disk
<1>2. Typed'
  <2>1. 1 \in 1..(MaxIngress + 1) /\ 0 \in Nat
    BY DurableAssumption
  <2> QED BY <1>1, <2>1, EmptyCommands DEF Typed
<1>3. NothingYet'
  BY <1>1 DEF NothingYet
<1>4. QueueSound'
  BY <1>1, EmptyCommands DEF QueueSound
<1>5. RunningSound'
  BY <1>1 DEF RunningSound
<1>6. SnapshotSound'
  BY <1>1 DEF SnapshotSound, Intact
<1> QED BY <1>1, <1>2, <1>3, <1>4, <1>5, <1>6

LEMMA PersistSound == IInv /\ PersistCheckpoint => IInv'
<1> SUFFICES ASSUME IInv, PersistCheckpoint PROVE IInv'
  OBVIOUS
<1> USE DEF IInv
<1>1. /\ mode = "running" /\ queue = <<>> /\ mode' \in {"running", "poisoned"}
      /\ snapshot' = snapshot \/ snapshot' = Capture
      /\ genesis' = genesis /\ journal' = journal
      /\ queue' = queue /\ executed' = executed /\ now' = now /\ nextIngress' = nextIngress /\ published' = published
  BY DEF PersistCheckpoint, memory
<1>2. Capture \in SnapshotSet
  BY DEF Typed, Capture, SnapshotSet
<1>3. Typed'
  BY <1>1, <1>2 DEF Typed
<1>4. NothingYet'
  BY <1>1 DEF NothingYet
<1>5. QueueSound'
  BY <1>1 DEF QueueSound
<1>6. RunningSound'
  BY <1>1 DEF RunningSound, Intact
<1>7. SnapshotSound'
  <2>1. CASE snapshot' = snapshot
    BY <1>1, <2>1 DEF SnapshotSound, Intact
  <2>2. CASE snapshot' = Capture
    <3>1. SUFFICES ASSUME Intact
                   PROVE  /\ IsPrefix(snapshot'.executed, LedgerOf(journal))
                          /\ snapshot'.count <= Len(snapshot'.executed)
                          /\ snapshot'.pending = <<>>
                          /\ Behind(snapshot'.executed, snapshot'.now, snapshot'.nextIngress)
      BY <1>1 DEF SnapshotSound, Intact
    <3>2. /\ snapshot'.executed = executed /\ snapshot'.count = published /\ snapshot'.pending = queue
          /\ snapshot'.now = now /\ snapshot'.nextIngress = nextIngress
      BY <2>2 DEF Capture
    <3>3. /\ executed = LedgerOf(journal) /\ published <= Len(LedgerOf(journal))
          /\ Behind(executed, now, nextIngress)
      BY <1>1, <3>1 DEF RunningSound
    <3>4. IsPrefix(executed, executed)
      BY DEF Typed, IsPrefix
    <3> QED BY <1>1, <3>2, <3>3, <3>4
  <2> QED BY <1>1, <2>1, <2>2
<1> QED BY <1>1, <1>3, <1>4, <1>5, <1>6, <1>7

\* The front of the queue comes after everything the journal knows.
LEMMA FrontFollows ==
  ASSUME IInv, mode = "running", queue # <<>>, NEW c, c = Head(queue)
  PROVE  /\ c \in Command
         /\ IntactFrames(journal) =>
              /\ executed = LedgerOf(journal)
              /\ Interrupted(journal) = <<>>
              /\ Scheduled(Append(LedgerOf(journal), c))
<1> USE DEF IInv
<1>1. queue \in Seq(Command) /\ Scheduled(queue)
  BY DEF Typed, QueueSound
<1>2. c \in Command /\ c = queue[1] /\ 1 \in DOMAIN queue
  BY <1>1, TailSound
<1>3. SUFFICES ASSUME IntactFrames(journal)
               PROVE  /\ executed = LedgerOf(journal)
                      /\ Interrupted(journal) = <<>>
                      /\ Scheduled(Append(LedgerOf(journal), c))
  BY <1>2
<1>4. executed = LedgerOf(journal) /\ Interrupted(journal) = <<>> /\ Precede(executed, queue)
  BY <1>3, IntactIs DEF RunningSound
<1>5. LedgerOf(journal) \in Seq(Command) /\ Scheduled(LedgerOf(journal))
  <2>1. journal \in Seq(FrameSet) /\ Faithful(Readable(journal)) /\ Scheduled(LedgerOf(journal) \o Interrupted(journal))
    BY DEF SoundFrames
  <2> QED BY <1>4, <2>1, AllOfThem
<1>6. \A i \in DOMAIN executed : Less(executed[i], c) /\ executed[i].ingress # c.ingress
  BY <1>2, <1>4 DEF Precede
<1> QED BY <1>2, <1>4, <1>5, <1>6, ScheduledAppend

LEMMA PrefixAppend ==
  ASSUME NEW s, NEW t \in Seq(Command), IsPrefix(s, t), NEW c \in Command
  PROVE  IsPrefix(s, Append(t, c))
<1> DEFINE n == Len(s)
<1>1. n <= Len(t) /\ SubSeq(s, 1, n) = SubSeq(t, 1, n)
  BY DEF IsPrefix
<1>2. n \in Nat => SubSeq(Append(t, c), 1, n) = SubSeq(t, 1, n) /\ n <= Len(Append(t, c))
  <2> HIDE DEF n
  <2> QED BY <1>1
<1> QED BY <1>1, <1>2 DEF IsPrefix

\* The snapshot of a journal that was intact, or has only lost its tail since.
LEMMA SnapshotKept ==
  ASSUME IInv, snapshot' = snapshot,
         IntactFrames(journal') => IntactFrames(journal),
         \/ LedgerOf(journal') = LedgerOf(journal)
         \/ \E c \in Command : LedgerOf(journal') = Append(LedgerOf(journal), c)
  PROVE  SnapshotSound'
<1> USE DEF IInv
<1>1. SUFFICES ASSUME snapshot # None, IntactFrames(journal')
               PROVE  /\ IsPrefix(snapshot.executed, LedgerOf(journal'))
                      /\ snapshot.count <= Len(snapshot.executed)
                      /\ snapshot.pending = <<>>
                      /\ Behind(snapshot.executed, snapshot.now, snapshot.nextIngress)
  BY DEF SnapshotSound, Intact, IntactFrames
<1>2. Intact
  BY <1>1, IntactIs
<1>3. /\ IsPrefix(snapshot.executed, LedgerOf(journal))
      /\ snapshot.count <= Len(snapshot.executed)
      /\ snapshot.pending = <<>>
      /\ Behind(snapshot.executed, snapshot.now, snapshot.nextIngress)
  BY <1>1, <1>2 DEF SnapshotSound
<1>4. LedgerOf(journal) \in Seq(Command)
  BY AllType
<1>5. IsPrefix(snapshot.executed, LedgerOf(journal'))
  BY <1>3, <1>4, PrefixAppend
<1> QED BY <1>3, <1>5

LEMMA PrepareFailsSound ==
  ASSUME IInv, mode = "running", queue # <<>>, PrepareFails(Head(queue))
  PROVE  IInv'
<1> DEFINE c == Head(queue)
<1> USE DEF IInv
<1>1. PICK residue \in Residues(Prepared(c)) : journal' = journal \o residue
  BY DEF PrepareFails
<1>2. /\ mode' = "poisoned" /\ genesis' = genesis /\ snapshot' = snapshot
      /\ queue' = queue /\ executed' = executed /\ now' = now /\ nextIngress' = nextIngress /\ published' = published
  BY DEF PrepareFails, memory
<1>3. c \in Command /\ (IntactFrames(journal) => Interrupted(journal) = <<>> /\ Scheduled(Append(LedgerOf(journal), c)))
  BY FrontFollows
<1> HIDE DEF c
<1>4. /\ SoundFrames(journal') /\ LedgerOf(journal') = LedgerOf(journal)
      /\ IntactFrames(journal') => IntactFrames(journal)
  BY <1>1, <1>3, WritePrepared
<1>5. Typed'
  BY <1>2 DEF Typed
<1>6. NothingYet'
  BY <1>2 DEF NothingYet
<1>7. QueueSound'
  BY <1>2 DEF QueueSound
<1>8. RunningSound'
  BY <1>2 DEF RunningSound
<1>9. SnapshotSound'
  BY <1>2, <1>4, SnapshotKept
<1> QED BY <1>4, <1>5, <1>6, <1>7, <1>8, <1>9

\* The front of the queue has been taken off, and it was either executed or not.
LEMMA TakenSound ==
  ASSUME IInv, mode = "running", queue # <<>>, NEW c, c = Head(queue),
         queue' = Tail(queue), now' = c.at, nextIngress' = nextIngress,
         executed' = executed \/ executed' = Append(executed, c),
         published' = published \/ published' = published + 1,
         genesis' = genesis, snapshot' = snapshot, mode' \in {"running", "poisoned"}
  PROVE  Typed' /\ NothingYet' /\ QueueSound'
<1> USE DEF IInv
<1>1. queue \in Seq(Command) /\ Scheduled(queue) /\ executed \in Seq(Command) /\ published \in Nat
  BY DEF Typed, QueueSound
<1>2. /\ c \in Command /\ Tail(queue) \in Seq(Command)
      /\ c = queue[1] /\ 1 \in DOMAIN queue
      /\ Scheduled(Tail(queue))
      /\ \A k \in DOMAIN Tail(queue) : k + 1 \in DOMAIN queue /\ Tail(queue)[k] = queue[k + 1] /\ Less(c, Tail(queue)[k])
  BY <1>1, TailSound
<1>3. c.at \in Times
  BY <1>2, CommandFields
<1>4. executed' \in Seq(Command) /\ published' \in Nat
  <2>1. Append(executed, c) \in Seq(Command) /\ published + 1 \in Nat
    BY <1>1, <1>2
  <2> QED BY <1>1, <2>1, Zenon
<1>5. Typed'
  BY <1>2, <1>3, <1>4 DEF Typed
<1>6. NothingYet'
  BY DEF NothingYet
<1>7. QueueSound'
  <2>1. \A k \in DOMAIN Tail(queue) : Tail(queue)[k] \in Command
    BY <1>2
  <2>2. \A k \in DOMAIN Tail(queue) : Tail(queue)[k].at >= c.at
    BY <1>2, <2>1, LessIsAnOrder, CommandFields
  <2>3. \A k \in DOMAIN Tail(queue) : Tail(queue)[k].ingress < nextIngress
    BY <1>2 DEF QueueSound
  <2> QED BY <1>2, <2>2, <2>3 DEF QueueSound
<1> QED BY <1>5, <1>6, <1>7

LEMMA ProcessFailsSound ==
  ASSUME IInv, mode = "running", queue # <<>>, ProcessFails(Head(queue))
  PROVE  IInv'
<1> DEFINE c == Head(queue)
<1> USE DEF IInv
<1>1. /\ journal' = Append(journal, Prepared(c))
      /\ mode' = "poisoned" /\ genesis' = genesis /\ snapshot' = snapshot
      /\ queue' = Tail(queue) /\ now' = c.at
      /\ executed' = executed /\ nextIngress' = nextIngress /\ published' = published
  BY DEF ProcessFails
<1>2. c \in Command /\ (IntactFrames(journal) => Interrupted(journal) = <<>> /\ Scheduled(Append(LedgerOf(journal), c)))
  BY FrontFollows
<1>3. Typed' /\ NothingYet' /\ QueueSound'
  BY <1>1, TakenSound
<1> HIDE DEF c
<1>4. /\ SoundFrames(journal') /\ LedgerOf(journal') = LedgerOf(journal)
      /\ IntactFrames(journal') => IntactFrames(journal)
  <2>1. <<Prepared(c)>> \in Residues(Prepared(c))
    BY DEF Residues
  <2>2. journal' = journal \o <<Prepared(c)>>
    <3>1. journal \in Seq(FrameSet) /\ Prepared(c) \in FrameSet
      BY <1>2, FramesAreFrames DEF SoundFrames
    <3> QED BY <1>1, <3>1
  <2> QED BY <1>2, <2>1, <2>2, WritePrepared
<1>5. RunningSound'
  BY <1>1 DEF RunningSound
<1>6. SnapshotSound'
  BY <1>1, <1>4, SnapshotKept
<1> QED BY <1>3, <1>4, <1>5, <1>6

\* What the first write of run_next leaves when it succeeds.
FirstDone(y, c, b) ==
  /\ c \in Command /\ b \in [first : Nat, command : Command]
  /\ SoundFrames(y) /\ LedgerOf(y) = LedgerOf(journal)
  /\ FirstTorn(y) = 0 <=> FirstTorn(journal) = 0
  /\ FirstTorn(y) = 0 =>
       InDoubt(y, c) /\ b = Batch(LedgerOf(y), c) /\ CanProcess(LedgerOf(y), c)
  /\ FirstTorn(y) # 0 => ~IntactFrames(y)

LEMMA FirstWrite ==
  ASSUME IInv, mode = "running", queue # <<>>, NEW c, c = Head(queue), CanProcess(executed, c),
         NEW b, b = Batch(executed, c), NEW y, y = Append(journal, Prepared(c))
  PROVE  FirstDone(y, c, b)
<1>1. /\ c \in Command
      /\ IntactFrames(journal) => /\ executed = LedgerOf(journal)
                                  /\ Interrupted(journal) = <<>>
                                  /\ Scheduled(Append(LedgerOf(journal), c))
  BY FrontFollows
<1>2. SoundFrames(journal)
  BY DEF IInv
<1>3. DoesPrepare(journal, y, c)
  BY <1>1, <1>2, PreparedWritten
<1>4. b \in [first : Nat, command : Command]
  BY <1>1, BatchType DEF IInv, Typed
<1>5. FirstTorn(journal) = 0 => IntactFrames(journal)
  BY DEF IntactFrames
<1> QED BY <1>1, <1>3, <1>4, <1>5 DEF FirstDone, DoesPrepare

\* Both writes: Prepared, then whatever is left of Committed.
BothDone(z, c) ==
  /\ SoundFrames(z)
  /\ IntactFrames(z) => IntactFrames(journal)
  /\ \/ LedgerOf(z) = LedgerOf(journal)
     \/ LedgerOf(z) = Append(LedgerOf(journal), c)
  /\ TornKinds = {} /\ FirstTorn(journal) = 0 =>
       /\ FirstTorn(z) = 0
       /\ \/ LedgerOf(z) = LedgerOf(journal) /\ InDoubt(z, c)
          \/ LedgerOf(z) = Append(LedgerOf(journal), c) /\ Interrupted(z) = <<>>

LEMMA TwoWrites ==
  ASSUME IInv, mode = "running", queue # <<>>, NEW c, c = Head(queue), CanProcess(executed, c),
         NEW b, b = Batch(executed, c),
         NEW residue \in Residues(Committed(c, b)), NEW z, z = Append(journal, Prepared(c)) \o residue
  PROVE  BothDone(z, c)
<1> DEFINE y == Append(journal, Prepared(c))
<1>1. FirstDone(y, c, b)
  BY FirstWrite
<1>2. z = y \o residue
  OBVIOUS
<1> HIDE DEF y
<1>3. /\ SoundFrames(y) /\ c \in Command /\ b \in [first : Nat, command : Command]
      /\ FirstTorn(y) = 0 =>
           InDoubt(y, c) /\ b = Batch(LedgerOf(y), c) /\ CanProcess(LedgerOf(y), c)
  BY <1>1 DEF FirstDone
<1>4. MayCommit(y, z, c)
  BY <1>2, <1>3, WriteCommitted
<1>5. FirstTorn(journal) = 0 => IntactFrames(journal)
  BY DEF IntactFrames
<1> QED BY <1>1, <1>4, <1>5 DEF FirstDone, MayCommit, BothDone, InDoubt

LEMMA CommitFailsSound ==
  ASSUME IInv, mode = "running", queue # <<>>, CommitFails(Head(queue))
  PROVE  IInv'
<1> DEFINE c == Head(queue)
<1>1. /\ CanProcess(executed, c)
      /\ mode' = "poisoned" /\ genesis' = genesis /\ snapshot' = snapshot
      /\ queue' = Tail(queue) /\ now' = c.at
      /\ executed' = Append(executed, c) /\ nextIngress' = nextIngress /\ published' = published
  BY DEF CommitFails, Processed
<1>2. PICK residue \in Residues(Committed(c, Batch(executed, c))) :
        journal' = Append(journal, Prepared(c)) \o residue
  BY DEF CommitFails
<1>3. Typed' /\ NothingYet' /\ QueueSound'
  BY <1>1, TakenSound
<1>4. c \in Command
  BY FrontFollows
<1> HIDE DEF c
<1>5. BothDone(journal', c)
  BY <1>1, <1>2, TwoWrites DEF c
<1>6. /\ SoundFrames(journal')
      /\ IntactFrames(journal') => IntactFrames(journal)
      /\ \/ LedgerOf(journal') = LedgerOf(journal)
         \/ LedgerOf(journal') = Append(LedgerOf(journal), c)
  BY <1>5 DEF BothDone
<1>7. RunningSound'
  BY <1>1 DEF RunningSound
<1>8. SnapshotSound'
  BY <1>1, <1>4, <1>6, SnapshotKept
<1> QED BY <1>3, <1>6, <1>7, <1>8 DEF IInv

LEMMA CommitSound ==
  ASSUME IInv, mode = "running", queue # <<>>, Commit(Head(queue))
  PROVE  IInv'
<1> DEFINE c == Head(queue)
<1> DEFINE b == Batch(executed, c)
<1>1. /\ CanProcess(executed, c)
      /\ mode' = mode /\ genesis' = genesis /\ snapshot' = snapshot
      /\ queue' = Tail(queue) /\ now' = c.at
      /\ executed' = Append(executed, c) /\ nextIngress' = nextIngress /\ published' = published + 1
      /\ journal' = journal \o <<Prepared(c), Committed(c, b)>>
  BY DEF Commit, Processed
<1>2. Typed' /\ NothingYet' /\ QueueSound'
  BY <1>1, TakenSound
<1>3. /\ c \in Command
      /\ IntactFrames(journal) => executed = LedgerOf(journal)
  BY FrontFollows
<1> DEFINE y == Append(journal, Prepared(c))
<1>4. FirstDone(y, c, b)
  BY <1>1, FirstWrite
<1>5. journal' = Append(y, Committed(c, b))
  <2>1. journal \in Seq(FrameSet) /\ Prepared(c) \in FrameSet /\ Committed(c, b) \in FrameSet
    BY <1>3, <1>4, FramesAreFrames DEF IInv, SoundFrames, FirstDone
  <2>2. \A s \in Seq(FrameSet) : \A f, g \in FrameSet : s \o <<f, g>> = Append(Append(s, f), g)
    OBVIOUS
  <2> QED BY <1>1, <2>1, <2>2
<1>6. /\ SoundFrames(journal')
      /\ IntactFrames(journal') => IntactFrames(journal)
      /\ \/ LedgerOf(journal') = LedgerOf(journal)
         \/ LedgerOf(journal') = Append(LedgerOf(journal), c)
      /\ IntactFrames(journal') => LedgerOf(journal') = Append(LedgerOf(journal), c) /\ Interrupted(journal') = <<>>
  <2> HIDE DEF y, b, c
  <2>1. /\ SoundFrames(y) /\ c \in Command /\ b \in [first : Nat, command : Command]
        /\ FirstTorn(y) = 0 =>
             InDoubt(y, c) /\ b = Batch(LedgerOf(y), c) /\ CanProcess(LedgerOf(y), c)
    BY <1>4 DEF FirstDone
  <2>2. DoesCommit(y, journal', c)
    BY <1>5, <2>1, CommittedWritten
  <2>3. FirstTorn(journal) = 0 => IntactFrames(journal)
    BY DEF IntactFrames
  <2> QED BY <1>4, <2>2, <2>3 DEF FirstDone, DoesCommit
<1>7. SnapshotSound'
  BY <1>1, <1>3, <1>6, SnapshotKept
<1>8. RunningSound'
  <2>1. SUFFICES ASSUME IntactFrames(journal')
                 PROVE  /\ executed' = LedgerOf(journal')
                        /\ Interrupted(journal') = <<>>
                        /\ published' <= Len(LedgerOf(journal'))
                        /\ Behind(executed', now', nextIngress')
                        /\ Precede(executed', queue')
    BY DEF RunningSound, Intact, IntactFrames
  <2>2. /\ executed = LedgerOf(journal) /\ LedgerOf(journal') = Append(LedgerOf(journal), c)
        /\ Interrupted(journal') = <<>>
    BY <1>3, <1>6, <2>1
  <2>3. published <= Len(executed) /\ Behind(executed, now, nextIngress) /\ Precede(executed, queue)
    BY <1>6, <2>1, <2>2, IntactIs DEF IInv, RunningSound
  <2>4. queue \in Seq(Command) /\ Scheduled(queue) /\ executed \in Seq(Command) /\ published \in Nat
    BY DEF IInv, Typed, QueueSound
  <2>5. /\ c = queue[1] /\ 1 \in DOMAIN queue
        /\ \A k \in DOMAIN Tail(queue) : /\ k + 1 \in DOMAIN queue /\ Tail(queue)[k] = queue[k + 1]
                                         /\ Less(c, Tail(queue)[k])
                                         /\ c.ingress # Tail(queue)[k].ingress
    BY <2>4, TailSound
  <2>6. c.at >= now /\ c.ingress < nextIngress
    BY <2>5 DEF IInv, QueueSound
  <2> HIDE DEF c
  <2>7. /\ DOMAIN Append(executed, c) = 1..(Len(executed) + 1) /\ DOMAIN executed = 1..Len(executed)
        /\ Append(executed, c)[Len(executed) + 1] = c
        /\ \A k \in 1..Len(executed) : Append(executed, c)[k] = executed[k]
        /\ Len(Append(executed, c)) = Len(executed) + 1
        /\ \A k \in 1..(Len(executed) + 1) : k \in 1..Len(executed) \/ k = Len(executed) + 1
    BY <1>3, <2>4
  <2>8. published + 1 <= Len(Append(executed, c))
    BY <2>3, <2>4, <2>7
  <2>9. Behind(Append(executed, c), c.at, nextIngress)
    <3>1. \A i \in DOMAIN executed : executed[i].at \in Nat /\ now \in Nat /\ c.at \in Nat
      BY <1>3, <2>4, CommandFields, DurableAssumption DEF IInv, Typed
    <3>2. \A i \in DOMAIN executed : executed[i].at <= c.at /\ executed[i].ingress < nextIngress
      BY <2>3, <2>6, <3>1 DEF Behind
    <3>3. c.at <= c.at
      BY <1>3, CommandFields
    <3> QED BY <2>6, <2>7, <3>2, <3>3 DEF Behind
  <2>10. Precede(Append(executed, c), Tail(queue))
    <3>1. \A i \in DOMAIN executed : \A k \in DOMAIN Tail(queue) :
            Less(executed[i], Tail(queue)[k]) /\ executed[i].ingress # Tail(queue)[k].ingress
      BY <2>3, <2>5 DEF Precede
    <3> QED BY <2>5, <2>7, <3>1 DEF Precede
  <2> QED BY <1>1, <2>2, <2>8, <2>9, <2>10
<1> QED BY <1>2, <1>6, <1>7, <1>8 DEF IInv

LEMMA RunNextSound == IInv /\ RunNext => IInv'
BY PrepareFailsSound, ProcessFailsSound, CommitFailsSound, CommitSound DEF RunNext

\* The commit frame recovery writes, if any: for an intact journal, the one the
\* interrupted run would have written.
LEMMA FinishingIs ==
  ASSUME IInv, RecoveryAccepts
  PROVE  /\ Interrupted(journal) = <<>> => Finishing = <<>>
         /\ \A c \in Command : InDoubt(journal, c) =>
              \E b \in [first : Nat, command : Command] :
                /\ Finishing = <<Committed(c, b)>>
                /\ FirstTorn(journal) = 0 =>
                     b = Batch(LedgerOf(journal), c) /\ CanProcess(LedgerOf(journal), c)
<1> DEFINE L == LedgerOf(journal)
<1> DEFINE I == Interrupted(journal)
<1> DEFINE n == Len(ReplayList)
<1>1. Typed /\ SoundFrames(journal) /\ SnapshotSound
  BY DEF IInv
<1>2. /\ L \in Seq(Command) /\ I \in Seq(Command) /\ All \in Seq(Command) /\ Len(All) = Len(L) + Len(I)
      /\ \A k \in 1..Len(L) : All[k] = L[k]
      /\ \A k \in 1..Len(I) : All[Len(L) + k] = I[k]
      /\ Len(Commits(journal)) = Len(L)
  BY <1>1, AllType
<1>3. ReplayStart \in Nat /\ Base \in Seq(Command) /\ ReplayStart <= Len(L)
  <2>1. ReplayStart <= Len(Commits(journal))
    BY DEF RecoveryAccepts
  <2> QED BY <1>1, <1>2, <2>1, ReplayType
<1>4. ReplayList \in Seq(Command) /\ n = Len(All) - ReplayStart
  BY <1>1, <1>3, ReplayType
<1>5. I = <<>> => Finishing = <<>>
  BY DEF Finishing
<1>6. ASSUME NEW c \in Command, InDoubt(journal, c)
      PROVE  \E b \in [first : Nat, command : Command] :
                /\ Finishing = <<Committed(c, b)>>
                /\ FirstTorn(journal) = 0 => b = Batch(L, c) /\ CanProcess(L, c)
  <2> DEFINE b == Batch(ReplayedBefore(n), c)
  <2>1. I = <<c>>
    BY <1>6 DEF InDoubt
  <2>2. n \in 1..n /\ n \in Nat /\ Len(All) = Len(L) + 1 /\ All[Len(L) + 1] = c
    <3>1. Len(I) = 1 /\ I[1] = c /\ 1 \in 1..Len(I)
      BY <2>1
    <3>2. Len(All) = Len(L) + 1 /\ All[Len(L) + 1] = c
      BY <1>2, <3>1
    <3> HIDE DEF n, L, I
    <3> QED BY <1>2, <1>3, <1>4, <3>2
  <2>3. ReplayedBefore(n) \in Seq(Command)
    <3>1. SubSeq(ReplayList, 1, n - 1) \in Seq(Command)
      BY <1>4, <2>2
    <3> QED BY <1>3, <3>1 DEF ReplayedBefore
  <2>4. b \in [first : Nat, command : Command]
    BY <2>3, BatchType
  <2>5. Finishing = <<Committed(c, b)>>
    <3>1. DOMAIN I = {1} /\ I[1] = c
      BY <2>1
    <3>2. Finishing = [k \in {1} |-> Committed(c, b)]
      BY <3>1 DEF Finishing
    <3>3. [k \in {1} |-> Committed(c, b)] = <<Committed(c, b)>>
      <4> HIDE DEF b
      <4> QED OBVIOUS
    <3> QED BY <3>2, <3>3
  <2>6. ASSUME FirstTorn(journal) = 0
        PROVE  b = Batch(L, c) /\ CanProcess(L, c)
    <3>1. Intact
      BY <2>6 DEF Intact
    <3>2. ReplayStart = Len(Base)
      <4>1. ReplayStart <= Len(Base)
        BY <1>1, <3>1, BaseIsPrefix
      <4>2. ~(ReplayStart < Len(Base))
        BY <1>1, <3>1, MiscountIsCaught
      <4>3. Len(Base) \in Nat
        BY <1>3
      <4> QED BY <1>3, <4>1, <4>2, <4>3
    <3>3. /\ ReplayedBefore(n) = SubSeq(All, 1, ReplayStart + n - 1)
          /\ ReplayList[n] = All[ReplayStart + n]
      BY <1>1, <2>2, <3>1, <3>2, ReplayedBeforeIs
    <3>4. ReplayStart + n - 1 = Len(L) /\ ReplayStart + n = Len(L) + 1
      <4> HIDE DEF n, L
      <4> QED BY <1>2, <1>3, <1>4, <2>2
    <3>5. SubSeq(All, 1, Len(L)) = L
      <4> HIDE DEF L
      <4> QED BY <1>2, <2>2
    <3>6. ReplayedBefore(n) = L /\ ReplayList[n] = c
      BY <2>2, <3>3, <3>4, <3>5
    <3>7. CanProcess(ReplayedBefore(n), ReplayList[n])
      <4>1. n \in DOMAIN ReplayList
        BY <1>4, <2>2
      <4> QED BY <4>1 DEF RecoveryAccepts
    <3> QED BY <3>6, <3>7
  <2> QED BY <2>4, <2>5, <2>6
<1> QED BY <1>5, <1>6

\* What recovery leaves in the journal.
Recovered(z) ==
  /\ SoundFrames(z)
  /\ IntactFrames(z) => /\ IntactFrames(journal)
                        /\ LedgerOf(z) = All /\ Interrupted(z) = <<>>
  /\ FirstTorn(journal) = 0 => FirstTorn(z) = 0
  /\ \/ LedgerOf(z) = LedgerOf(journal)
     \/ \E c \in Command : LedgerOf(z) = Append(LedgerOf(journal), c)

LEMMA FinishingWritten ==
  ASSUME IInv, RecoveryAccepts, NEW z, z = journal \o Finishing
  PROVE  Recovered(z)
<1>1. SoundFrames(journal) /\ journal \in Seq(FrameSet) /\ Faithful(Readable(journal))
  BY DEF IInv, SoundFrames
<1>2. Interrupted(journal) = <<>> \/ \E c \in Command : InDoubt(journal, c)
  BY <1>1, AllOfThem DEF InDoubt
<1>3. CASE Interrupted(journal) = <<>>
  <2>1. Finishing = <<>>
    BY <1>3, FinishingIs
  <2>2. z = journal
    BY <1>1, <2>1
  <2>3. LedgerOf(journal) = All
    BY <1>1, <1>3, AllOfThem DEF All
  <2> QED BY <1>1, <1>3, <2>2, <2>3 DEF Recovered
<1>4. CASE \E c \in Command : InDoubt(journal, c)
  <2>1. PICK c \in Command : InDoubt(journal, c)
    BY <1>4
  <2>2. PICK b \in [first : Nat, command : Command] :
           /\ Finishing = <<Committed(c, b)>>
           /\ FirstTorn(journal) = 0 =>
                b = Batch(LedgerOf(journal), c) /\ CanProcess(LedgerOf(journal), c)
    BY <2>1, FinishingIs
  <2>3. z = Append(journal, Committed(c, b))
    <3>1. Committed(c, b) \in FrameSet
      BY FramesAreFrames
    <3> QED BY <1>1, <2>2, <3>1
  <2>4. FirstTorn(journal) = 0 =>
          /\ InDoubt(journal, c) /\ b = Batch(LedgerOf(journal), c) /\ CanProcess(LedgerOf(journal), c)
    BY <2>1, <2>2
  <2>5. DoesCommit(journal, z, c)
    BY <1>1, <2>3, <2>4, CommittedWritten
  <2>6. All = Append(LedgerOf(journal), c)
    BY <1>1, <2>1, AllOfThem DEF All, InDoubt
  <2>7. FirstTorn(journal) = 0 => IntactFrames(journal)
    BY DEF IntactFrames
  <2> QED BY <2>5, <2>6, <2>7 DEF DoesCommit, Recovered
<1> QED BY <1>2, <1>3, <1>4

LEMMA RecoverSound == IInv /\ Recover => IInv'
<1> SUFFICES ASSUME IInv, Recover PROVE IInv'
  OBVIOUS
<1> DEFINE T == {IF snapshot = None THEN 1 ELSE snapshot.nextIngress}
                  \union {ReplayList[k].ingress + 1 : k \in DOMAIN ReplayList}
<1>1. /\ mode = "down" /\ RecoveryAccepts /\ genesis = "written"
      /\ mode' = "running" /\ genesis' = genesis /\ snapshot' = snapshot
      /\ journal' = journal \o Finishing
      /\ queue' = <<>>
      /\ executed' = Base \o ReplayList
      /\ now' = IF ReplayList # <<>> THEN Last(ReplayList).at ELSE IF snapshot = None THEN 0 ELSE snapshot.now
      /\ nextIngress' = Max(T)
      /\ published' = Len(ReplayList)
  BY DEF Recover, RecoveryAccepts
<1>2. Recovered(journal')
  BY <1>1, FinishingWritten
<1>3. Typed /\ SoundFrames(journal) /\ SnapshotSound
  BY DEF IInv
<1>4. /\ ReplayStart \in Nat /\ Base \in Seq(Command)
      /\ ReplayList \in Seq(Command) /\ Len(ReplayList) = Len(All) - ReplayStart
      /\ \A k \in 1..Len(ReplayList) : ReplayStart + k \in 1..Len(All) /\ ReplayList[k] = All[ReplayStart + k]
  <2>1. ReplayStart <= Len(LedgerOf(journal))
    BY <1>1, <1>3, AllType DEF RecoveryAccepts
  <2> QED BY <1>3, <2>1, ReplayType
<1>5. /\ Max(T) \in 1..(MaxIngress + 1)
      /\ \A t \in T : t <= Max(T)
  <2>1. MaxIngress + 1 \in Nat /\ 1 \in 1..(MaxIngress + 1)
    BY DurableAssumption
  <2>2. (IF snapshot = None THEN 1 ELSE snapshot.nextIngress) \in 1..(MaxIngress + 1)
    BY <1>3, <2>1 DEF Typed, SnapshotSet
  <2>3. \A k \in DOMAIN ReplayList : ReplayList[k].ingress + 1 \in 1..(MaxIngress + 1)
    <3>1. \A k \in DOMAIN ReplayList : ReplayList[k].ingress \in 1..MaxIngress
      BY <1>4, CommandFields
    <3>2. \A i \in 1..MaxIngress : i + 1 \in 1..(MaxIngress + 1)
      BY DurableAssumption
    <3> QED BY <3>1, <3>2
  <2>4. \A t \in T : t \in 1..(MaxIngress + 1)
    BY <2>2, <2>3
  <2>5. T # {}
    OBVIOUS
  <2> HIDE DEF T
  <2>6. T \subseteq Nat /\ \A t \in T : t <= MaxIngress + 1
    BY <2>1, <2>4
  <2> QED BY <2>1, <2>4, <2>5, <2>6, MaxIsGreatest
<1>6. now' \in Times \union {0}
  <2>1. CASE ReplayList # <<>>
    <3>1. Last(ReplayList) \in Command
      BY <1>4, <2>1 DEF Last
    <3> QED BY <1>1, <2>1, <3>1, CommandFields
  <2>2. CASE ReplayList = <<>>
    BY <1>1, <1>3, <2>2 DEF Typed, SnapshotSet
  <2> QED BY <2>1, <2>2
<1>7. Typed'
  <2>1. executed' \in Seq(Command) /\ published' \in Nat
    BY <1>1, <1>4
  <2> HIDE DEF T
  <2> QED BY <1>1, <1>3, <1>5, <1>6, <2>1, EmptyCommands DEF Typed
<1> HIDE DEF T
<1>8. NothingYet'
  BY <1>1 DEF NothingYet
<1>9. QueueSound'
  BY <1>1, EmptyCommands DEF QueueSound
<1>10. SnapshotSound'
  BY <1>1, <1>2, SnapshotKept DEF Recovered
<1>11. RunningSound'
  <2>1. SUFFICES ASSUME IntactFrames(journal')
                 PROVE  /\ executed' = LedgerOf(journal')
                        /\ Interrupted(journal') = <<>>
                        /\ published' <= Len(LedgerOf(journal'))
                        /\ Behind(executed', now', nextIngress')
                        /\ Precede(executed', queue')
    BY DEF RunningSound, Intact, IntactFrames
  <2>2. Intact /\ LedgerOf(journal') = All /\ Interrupted(journal') = <<>>
    BY <1>2, <2>1, IntactIs DEF Recovered
  <2>3. Base \o ReplayList = All /\ executed' = All
    BY <1>1, <2>2, ExactFromInvariant DEF RecoveryIsExact, All, LedgerOf, Ledger
  <2>4. All \in Seq(Command) /\ Scheduled(All) /\ Len(All) = Len(Base) + Len(ReplayList)
    <3>1. All \in Seq(Command) /\ Scheduled(All)
      BY <1>3, AllType
    <3>2. \A s, t \in Seq(Command) : Len(s \o t) = Len(s) + Len(t)
      OBVIOUS
    <3>3. Len(Base \o ReplayList) = Len(Base) + Len(ReplayList)
      BY <1>4, <3>2, Zenon
    <3> QED BY <2>3, <3>1, <3>3
  <2>5. published' <= Len(All)
    BY <1>1, <1>4, <2>4
  <2>6. \A k \in 1..Len(All) : \/ k \in 1..Len(Base) /\ All[k] = Base[k]
                               \/ k - Len(Base) \in 1..Len(ReplayList) /\ All[k] = ReplayList[k - Len(Base)]
    <3>1. \A s, t \in Seq(Command) : \A k \in 1..(Len(s) + Len(t)) :
            \/ k \in 1..Len(s) /\ (s \o t)[k] = s[k]
            \/ k - Len(s) \in 1..Len(t) /\ (s \o t)[k] = t[k - Len(s)]
      OBVIOUS
    <3> QED BY <1>4, <2>3, <2>4, <3>1
  <2>7. snapshot = None => Base = <<>>
    BY DEF Base
  <2>8. snapshot # None => /\ Base = snapshot.executed /\ snapshot.now \in Nat /\ snapshot.nextIngress \in Nat
                           /\ Behind(Base, snapshot.now, snapshot.nextIngress)
    <3> SUFFICES ASSUME snapshot # None
                 PROVE  /\ Base = snapshot.executed /\ snapshot.now \in Nat /\ snapshot.nextIngress \in Nat
                        /\ Behind(Base, snapshot.now, snapshot.nextIngress)
      OBVIOUS
    <3>1. Base = snapshot.executed
      BY DEF Base
    <3>2. snapshot.now \in Times \union {0} /\ snapshot.nextIngress \in 1..(MaxIngress + 1)
      BY <1>3 DEF Typed, SnapshotSet
    <3>3. snapshot.now \in Nat /\ snapshot.nextIngress \in Nat
      <4>1. \A x \in Times \union {0} : x \in Nat
        BY DurableAssumption
      <4>2. \A x \in 1..(MaxIngress + 1) : x \in Nat
        BY DurableAssumption
      <4> QED BY <3>2, <4>1, <4>2
    <3>4. Behind(snapshot.executed, snapshot.now, snapshot.nextIngress)
      BY <1>3, <2>2 DEF SnapshotSound
    <3> QED BY <3>1, <3>3, <3>4
  <2>9. ASSUME NEW k \in 1..Len(All)
        PROVE  All[k].at <= now'
    <3>1. All[k] \in Command /\ All[k].at \in Nat
      BY <2>4, CommandFields
    <3>2. CASE ReplayList # <<>>
      <4>1. Len(ReplayList) \in 1..Len(ReplayList) /\ Len(All) \in 1..Len(All)
        BY <1>4, <2>4, <3>2
      <4>2. now' = All[Len(All)].at
        <5>1. ReplayStart + Len(ReplayList) = Len(All)
          BY <1>4, <2>4
        <5>2. Last(ReplayList) = All[Len(All)]
          BY <1>4, <4>1, <5>1 DEF Last
        <5> QED BY <1>1, <3>2, <5>2
      <4>3. k = Len(All) \/ Less(All[k], All[Len(All)])
        BY <2>4, <4>1 DEF Scheduled
      <4>4. All[Len(All)] \in Command
        BY <2>4, <4>1
      <4> QED BY <3>1, <4>2, <4>3, <4>4, LessIsAnOrder
    <3>3. CASE ReplayList = <<>>
      <4>1. k \in 1..Len(Base) /\ All[k] = Base[k]
        BY <1>4, <2>6, <3>3
      <4>2. snapshot # None
        BY <2>7, <4>1
      <4>3. now' = snapshot.now
        BY <1>1, <3>3, <4>2
      <4> QED BY <1>4, <2>8, <4>1, <4>2, <4>3 DEF Behind
    <3> QED BY <3>2, <3>3
  <2>10. ASSUME NEW k \in 1..Len(All)
         PROVE  All[k].ingress < nextIngress'
    <3>1. All[k] \in Command /\ All[k].ingress \in Nat
      BY <2>4, CommandFields
    <3>2. nextIngress' \in Nat
      BY <1>1, <1>5
    <3>3. CASE k \in 1..Len(Base) /\ All[k] = Base[k]
      <4>1. snapshot # None
        BY <2>7, <3>3
      <4>2. snapshot.nextIngress \in T
        BY <4>1 DEF T
      <4>3. snapshot.nextIngress <= nextIngress'
        BY <1>1, <1>5, <4>2
      <4>4. All[k].ingress < snapshot.nextIngress
        BY <1>4, <2>8, <3>3, <4>1 DEF Behind
      <4> QED BY <2>8, <3>1, <3>2, <4>1, <4>3, <4>4
    <3>4. CASE k - Len(Base) \in 1..Len(ReplayList) /\ All[k] = ReplayList[k - Len(Base)]
      <4>1. ReplayList[k - Len(Base)].ingress + 1 \in T
        BY SMTT(30), <1>4, <3>4 DEF T
      <4>2. All[k].ingress + 1 <= nextIngress'
        BY <1>1, <1>5, <3>4, <4>1
      <4> QED BY <3>1, <3>2, <4>2
    <3> QED BY <2>6, <3>3, <3>4
  <2>11. Behind(All, now', nextIngress')
    BY <2>4, <2>9, <2>10 DEF Behind
  <2> QED BY <1>1, <2>2, <2>3, <2>5, <2>11, EmptyCommands
<1>12. SoundFrames(journal')
  BY <1>2 DEF Recovered
<1> QED BY <1>7, <1>8, <1>9, <1>10, <1>11, <1>12 DEF IInv

LEMMA RecoverCommitFailsWrites ==
  ASSUME IInv, RecoverCommitFails
  PROVE  \E c \in Command : InDoubt(journal, c) /\ MayCommit(journal, journal', c)
<1>1. /\ RecoveryAccepts /\ Finishing # <<>>
      /\ \E residue \in Residues(Finishing[1]) : journal' = journal \o residue
  BY DEF RecoverCommitFails
<1>2. SoundFrames(journal) /\ Faithful(Readable(journal)) /\ journal \in Seq(FrameSet)
  BY DEF IInv, SoundFrames
<1>3. PICK c \in Command : InDoubt(journal, c)
  BY <1>1, <1>2, AllOfThem, FinishingIs DEF InDoubt
<1>4. PICK b \in [first : Nat, command : Command] :
         /\ Finishing = <<Committed(c, b)>>
         /\ FirstTorn(journal) = 0 =>
              b = Batch(LedgerOf(journal), c) /\ CanProcess(LedgerOf(journal), c)
  BY <1>1, <1>3, FinishingIs
<1>5. Finishing[1] = Committed(c, b)
  BY <1>4
<1>6. PICK residue \in Residues(Committed(c, b)) : journal' = journal \o residue
  BY <1>1, <1>5
<1>7. FirstTorn(journal) = 0 =>
        /\ InDoubt(journal, c) /\ b = Batch(LedgerOf(journal), c) /\ CanProcess(LedgerOf(journal), c)
  BY <1>3, <1>4
<1>8. MayCommit(journal, journal', c)
  BY <1>2, <1>6, <1>7, WriteCommitted
<1> QED BY <1>3, <1>8

LEMMA RecoverCommitFailsSound == IInv /\ RecoverCommitFails => IInv'
<1> SUFFICES ASSUME IInv, RecoverCommitFails PROVE IInv'
  OBVIOUS
<1>1. /\ mode = "down" /\ genesis' = genesis /\ snapshot' = snapshot /\ mode' = mode
      /\ queue' = queue /\ executed' = executed /\ now' = now /\ nextIngress' = nextIngress
      /\ published' = published /\ genesis = "written"
  BY DEF RecoverCommitFails, memory, RecoveryAccepts
<1>2. PICK c \in Command : MayCommit(journal, journal', c)
  BY RecoverCommitFailsWrites
<1>3. Typed' /\ QueueSound'
  BY <1>1 DEF IInv, Typed, QueueSound
<1>4. NothingYet'
  BY <1>1 DEF IInv, NothingYet
<1>5. RunningSound'
  BY <1>1 DEF RunningSound
<1>6. SnapshotSound'
  BY <1>1, <1>2, SnapshotKept DEF MayCommit
<1>7. SoundFrames(journal')
  BY <1>2 DEF MayCommit
<1> QED BY <1>3, <1>4, <1>5, <1>6, <1>7 DEF IInv

LEMMA NextSound == IInv /\ [Next]_vars => IInv'
<1> SUFFICES ASSUME IInv, [Next]_vars PROVE IInv'
  OBVIOUS
<1>1. CASE CreateDurable
  BY <1>1, CreateDurableSound
<1>2. CASE \E at \in Times, size \in BatchSizes : Enqueue(at, size)
  BY <1>2, EnqueueSound
<1>3. CASE RunNext
  BY <1>3, RunNextSound
<1>4. CASE PersistCheckpoint
  BY <1>4, PersistSound
<1>5. CASE Crash
  BY <1>5, CrashSound
<1>6. CASE Recover
  BY <1>6, RecoverSound
<1>7. CASE RecoverCommitFails
  BY <1>7, RecoverCommitFailsSound
<1>8. CASE UNCHANGED vars
  <2>1. /\ genesis' = genesis /\ journal' = journal /\ snapshot' = snapshot /\ mode' = mode
        /\ queue' = queue /\ executed' = executed /\ now' = now /\ nextIngress' = nextIngress
        /\ published' = published
    BY <1>8 DEF vars, disk, memory
  <2> QED BY <2>1 DEF IInv, Typed, NothingYet, QueueSound, RunningSound, SnapshotSound, Intact
<1> QED BY <1>1, <1>2, <1>3, <1>4, <1>5, <1>6, <1>7, <1>8 DEF Next

-----------------------------------------------------------------------------
(* 11. The invariants. *)

LEMMA Invariance == Spec => []IInv
BY InitSound, NextSound, PTL DEF Spec

\* A commit frame holds one command, in itself and in its batch, also where it
\* can no longer be read.
FramesAgree(s) == \A k \in 1..Len(s) : Frame(s[k])

LEMMA AppendAgrees ==
  ASSUME NEW s \in Seq(FrameSet), FramesAgree(s), NEW f \in FrameSet, Frame(f)
  PROVE  Append(s, f) \in Seq(FrameSet) /\ FramesAgree(Append(s, f))
<1>1. /\ Append(s, f) \in Seq(FrameSet) /\ Len(Append(s, f)) = Len(s) + 1
      /\ Append(s, f)[Len(s) + 1] = f
      /\ \A k \in 1..Len(s) : Append(s, f)[k] = s[k]
      /\ \A k \in 1..(Len(s) + 1) : k \in 1..Len(s) \/ k = Len(s) + 1
  OBVIOUS
<1>2. \A k \in 1..(Len(s) + 1) : Frame(Append(s, f)[k])
  <2>1. \A k \in 1..Len(s) : Frame(s[k])
    BY DEF FramesAgree
  <2> QED BY <1>1, <2>1
<1> QED BY <1>1, <1>2 DEF FramesAgree

LEMMA WrittenAgree ==
  /\ \A c \in Command : Prepared(c) \in FrameSet /\ Frame(Prepared(c))
  /\ \A c \in Command : \A q \in Seq(Command) :
       Committed(c, Batch(q, c)) \in FrameSet /\ Frame(Committed(c, Batch(q, c)))
  /\ \A kind \in TornKinds : Torn(kind) \in FrameSet /\ Frame(Torn(kind))
<1>1. \A c \in Command : \A q \in Seq(Command) :
        /\ Committed(c, Batch(q, c)) \in FrameSet
        /\ Batch(q, c).command = c
  BY BatchType, FramesAreFrames DEF Batch
<1> QED BY <1>1, FramesAreFrames DEF Frame, Prepared, Committed, Torn

LEMMA ResidueAgrees ==
  ASSUME NEW s \in Seq(FrameSet), FramesAgree(s), NEW f \in FrameSet, Frame(f),
         NEW residue \in Residues(f), NEW z, z = s \o residue
  PROVE  FramesAgree(z)
<1>1. CASE z = s
  BY <1>1
<1>2. CASE z = Append(s, f)
  BY <1>2, AppendAgrees
<1>3. CASE \E kind \in TornKinds : z = Append(s, Torn(kind))
  <2>1. PICK kind \in TornKinds : z = Append(s, Torn(kind))
    BY <1>3
  <2>2. Torn(kind) \in FrameSet /\ Frame(Torn(kind))
    BY WrittenAgree
  <2> QED BY <2>1, <2>2, AppendAgrees
<1> QED BY <1>1, <1>2, <1>3, ResidueCases

\* Every write keeps it so, also the one recovery makes.
LEMMA RunNextAgrees == IInv /\ FramesAgree(journal) /\ RunNext => FramesAgree(journal')
<1> SUFFICES ASSUME IInv, FramesAgree(journal), RunNext PROVE FramesAgree(journal')
  OBVIOUS
<1> DEFINE c == Head(queue)
<1> DEFINE p == Prepared(c)
<1> DEFINE f == Committed(c, Batch(executed, c))
<1>1. c \in Command /\ executed \in Seq(Command) /\ journal \in Seq(FrameSet)
  BY FrontFollows DEF RunNext, IInv, Typed, SoundFrames
<1>2. p \in FrameSet /\ Frame(p) /\ f \in FrameSet /\ Frame(f)
  BY <1>1, WrittenAgree
<1>3. \/ \E residue \in Residues(p) : journal' = journal \o residue
      \/ journal' = Append(journal, p)
      \/ \E residue \in Residues(f) : journal' = Append(journal, p) \o residue
      \/ journal' = journal \o <<p, f>>
  BY DEF RunNext, PrepareFails, ProcessFails, CommitFails, Commit
<1> HIDE DEF c, p, f
<1>4. Append(journal, p) \in Seq(FrameSet) /\ FramesAgree(Append(journal, p))
  BY <1>1, <1>2, AppendAgrees
<1>5. CASE \E residue \in Residues(p) : journal' = journal \o residue
  BY <1>1, <1>2, <1>5, ResidueAgrees
<1>6. CASE \E residue \in Residues(f) : journal' = Append(journal, p) \o residue
  BY <1>2, <1>4, <1>6, ResidueAgrees
<1>7. CASE journal' = journal \o <<p, f>>
  <2>1. \A s \in Seq(FrameSet) : \A x, y \in FrameSet : s \o <<x, y>> = Append(Append(s, x), y)
    OBVIOUS
  <2>2. journal' = Append(Append(journal, p), f)
    BY <1>1, <1>2, <1>7, <2>1
  <2> QED BY <1>2, <1>4, <2>2, AppendAgrees
<1> QED BY <1>3, <1>4, <1>5, <1>6, <1>7

LEMMA FinishingAgrees ==
  ASSUME IInv, RecoveryAccepts
  PROVE  \/ Finishing = <<>>
         \/ \E f \in FrameSet : Frame(f) /\ Finishing = <<f>>
<1>1. Faithful(Readable(journal)) /\ journal \in Seq(FrameSet)
  BY DEF IInv, SoundFrames
<1>2. CASE Interrupted(journal) = <<>>
  BY <1>2, FinishingIs
<1>3. CASE \E c \in Command : Interrupted(journal) = <<c>>
  <2>1. PICK c \in Command : InDoubt(journal, c)
    BY <1>3 DEF InDoubt
  <2>2. PICK b \in [first : Nat, command : Command] : Finishing = <<Committed(c, b)>>
    BY <2>1, FinishingIs
  <2>3. Finishing[1] = Committed(c, Batch(ReplayedBefore(Len(ReplayList)), c))
    <3>1. Interrupted(journal)[1] = c /\ 1 \in DOMAIN Interrupted(journal)
      BY <2>1 DEF InDoubt
    <3> QED BY <3>1 DEF Finishing
  <2>4. Finishing[1] = Committed(c, b)
    BY <2>2
  <2>5. b.command = c
    <3>1. Committed(c, b).batch.command = b.command
      BY DEF Committed
    <3>2. \A q : Committed(c, Batch(q, c)).batch.command = c
      BY DEF Committed, Batch
    <3> QED BY <2>3, <2>4, <3>1, <3>2
  <2>6. Committed(c, b) \in FrameSet /\ Frame(Committed(c, b))
    BY <2>5, FramesAreFrames DEF Frame
  <2> QED BY <2>2, <2>6
<1> QED BY <1>1, <1>2, <1>3, AllOfThem

LEMMA NextAgrees == IInv /\ FramesAgree(journal) /\ [Next]_vars => FramesAgree(journal')
<1> SUFFICES ASSUME IInv, FramesAgree(journal), [Next]_vars PROVE FramesAgree(journal')
  OBVIOUS
<1>1. journal \in Seq(FrameSet)
  BY DEF IInv, SoundFrames
<1>2. CASE RunNext
  BY <1>2, RunNextAgrees
<1>3. CASE Recover
  <2>1. RecoveryAccepts /\ journal' = journal \o Finishing
    BY <1>3 DEF Recover
  <2>2. CASE Finishing = <<>>
    BY <1>1, <2>1, <2>2
  <2>3. CASE \E f \in FrameSet : Frame(f) /\ Finishing = <<f>>
    <3>1. PICK f \in FrameSet : Frame(f) /\ Finishing = <<f>>
      BY <2>3
    <3>2. journal' = Append(journal, f)
      BY <1>1, <2>1, <3>1
    <3> QED BY <1>1, <3>1, <3>2, AppendAgrees
  <2> QED BY <2>1, <2>2, <2>3, FinishingAgrees
<1>4. CASE RecoverCommitFails
  <2>1. /\ RecoveryAccepts /\ Finishing # <<>>
        /\ \E residue \in Residues(Finishing[1]) : journal' = journal \o residue
    BY <1>4 DEF RecoverCommitFails
  <2>2. PICK f \in FrameSet : Frame(f) /\ Finishing = <<f>>
    BY <2>1, FinishingAgrees
  <2>3. Finishing[1] = f
    BY <2>2
  <2> QED BY <1>1, <2>1, <2>2, <2>3, ResidueAgrees
<1>5. CASE journal' = journal
  BY <1>5
<1>6. RunNext \/ Recover \/ RecoverCommitFails \/ journal' = journal
  BY DEF Next, CreateDurable, Enqueue, PersistCheckpoint, Crash, vars, disk
<1> QED BY <1>2, <1>3, <1>4, <1>5, <1>6

LEMMA AlwaysAgree == Spec => []FramesAgree(journal)
<1>1. Init => FramesAgree(journal)
  BY DEF Init, FramesAgree
<1>2. IInv /\ FramesAgree(journal) /\ [Next]_vars => FramesAgree(journal)'
  BY NextAgrees
<1> QED BY <1>1, <1>2, Invariance, PTL DEF Spec

\* While it runs on a journal that is whole, the exchange has executed exactly
\* what the journal commits and publishes nothing else: run_next's two writes
\* in their order, a recovery that finishes the interrupted command, and a
\* poisoned exchange that does not go on.
THEOREM PublishedCommandsAreDurable == Spec => []PublishedIsDurable
<1>1. IInv => PublishedIsDurable
  BY DEF IInv, RunningSound, PublishedIsDurable, Ledger, LedgerOf
<1> QED BY <1>1, Invariance, PTL

LEMMA TypeFromInvariant == IInv /\ FramesAgree(journal) => TypeOK
<1> SUFFICES ASSUME IInv, FramesAgree(journal) PROVE TypeOK
  OBVIOUS
<1>1. \A k \in DOMAIN journal : Frame(journal[k])
  BY DEF FramesAgree, IInv, SoundFrames
<1>2. snapshot # None => /\ snapshot.count \in Nat
                         /\ \A k \in DOMAIN snapshot.executed : snapshot.executed[k] \in Command
  BY DEF IInv, Typed, SnapshotSet
<1>3. queue \in Seq(Command) /\ Scheduled(queue)
  BY DEF IInv, Typed, QueueSound
<1>4. \A k \in DOMAIN queue : queue[k] \in Command /\ queue[k].at >= now
  BY <1>3 DEF IInv, QueueSound
<1>5. Sorted(queue)
  BY <1>3, ScheduledIsSorted
<1> QED BY <1>1, <1>2, <1>4, <1>5 DEF TypeOK, IInv, Typed

\* Files and memory are well formed, the queue is in scheduling order, the
\* journal stays in that order under distinct ingress numbers over every
\* restart, and the snapshot never knows more than the journal.
THEOREM JournalSound == Spec => []JournalIsSound
<1>1. IInv => JournalOrdered
  BY DEF IInv, SoundFrames, Scheduled, JournalOrdered, Ledger, LedgerOf
<1>2. IInv => SnapshotBehindJournal
  BY DEF IInv, SnapshotSound, SnapshotBehindJournal, Ledger, LedgerOf
<1>3. IInv /\ FramesAgree(journal) => JournalIsSound
  BY <1>1, <1>2, TypeFromInvariant DEF JournalIsSound
<1> QED BY <1>3, Invariance, AlwaysAgree, PTL

\* What recovery accepts it rebuilds: every committed command once, in order,
\* then the interrupted one, also from a snapshot that miscounts, because the
\* first batch it regenerates would not match the journal.
THEOREM RecoveryRebuilds == Spec => []RecoveryIsExact
BY Invariance, ExactFromInvariant, PTL

\* Recovery refuses a journal only for a fragment inside it, a snapshot that
\* miscounts, or an interrupted command that exhausts the event numbers; every
\* other of its checks accepts whatever a crash can leave.
THEOREM RecoveryRefusesThreeThingsOnly == Spec => []RecoveryRefusals
BY Invariance, RefusalsFromInvariant, PTL

-----------------------------------------------------------------------------
(* 12. The refinement of CommandLedger. *)

\* Where no write leaves a fragment, no journal holds one.
LEMMA NoFragments ==
  ASSUME TornKinds = {}, NEW s \in Seq(FrameSet)
  PROVE  FirstTorn(s) = 0
<1>1. \A f \in FrameSet : f.type # "torn"
  BY DEF FrameSet
<1>2. \A k \in 1..Len(s) : s[k].type # "torn"
  BY <1>1
<1> QED BY <1>2, FirstTornUnique

\* A running exchange on a whole journal, as the ledger sees it.
LEMMA RunningIs ==
  ASSUME TornKinds = {}, IInv, mode = "running"
  PROVE  /\ genesis # "absent"
         /\ IntactFrames(journal) /\ FirstTorn(journal) = 0
         /\ executed = Ledger /\ Interrupted(journal) = <<>>
         /\ Scheduled(Ledger)
<1>1. FirstTorn(journal) = 0
  BY NoFragments DEF IInv, SoundFrames
<1>2. Intact /\ IntactFrames(journal)
  BY <1>1 DEF Intact, IntactFrames
<1>3. genesis # "absent"
  BY DEF IInv, NothingYet
<1>4. Scheduled(All) /\ LedgerOf(journal) \in Seq(Command)
  BY AllType DEF IInv
<1>5. executed = LedgerOf(journal) /\ Interrupted(journal) = <<>>
  BY <1>2 DEF IInv, RunningSound
<1>6. All = LedgerOf(journal)
  BY <1>5, AllOfThem DEF All, IInv, SoundFrames
<1> QED BY <1>1, <1>2, <1>3, <1>4, <1>5, <1>6 DEF Ledger, LedgerOf

\* The command in doubt, as CommandLedger knows it.
Doubt == IF Interrupted(journal) = <<>> THEN None ELSE Interrupted(journal)[1]

LEMMA DoubtIs ==
  /\ Interrupted(journal) = <<>> => Doubt = None
  /\ \A c \in Command : InDoubt(journal, c) => Doubt = c /\ c # None
BY DurableAssumption DEF Doubt, InDoubt

\* A run that stops: the front of the queue is executed, in doubt or forgotten.
LEMMA StopSteps ==
  ASSUME TornKinds = {}, IInv, mode = "running", mode' # "running", genesis' = genesis,
         \/ Ledger' = Ledger /\ Interrupted(journal)' = <<>>
         \/ \E c \in Command : Ledger' = Ledger /\ InDoubt(journal', c)
         \/ \E c \in Command : Ledger' = Append(Ledger, c) /\ Interrupted(journal)' = <<>>
  PROVE  Promise!Stop
<1>1. genesis # "absent" /\ Interrupted(journal) = <<>>
  BY RunningIs
<1>2. Doubt = None
  BY <1>1, DoubtIs
<1>3. \/ Ledger' = Ledger /\ Doubt' = None
      \/ \E c \in Command : Ledger' = Ledger /\ Doubt' = c
      \/ \E c \in Command : Ledger' = Append(Ledger, c) /\ Doubt' = None
  BY DurableAssumption DEF Doubt, InDoubt
<1> HIDE DEF Ledger
<1> QED BY <1>1, <1>2, <1>3 DEF Promise!Stop, Doubt

LEMMA CreateSteps ==
  ASSUME IInv, CreateDurable
  PROVE  Promise!Create
<1>1. /\ genesis = "absent" /\ genesis' # "absent" /\ journal' = journal
      /\ mode = "down" /\ executed = <<>> /\ executed' = executed
      /\ mode' \in {"running", "down"}
  BY DEF CreateDurable, IInv, NothingYet, memory
<1>2. Ledger' = Ledger /\ Interrupted(journal)' = Interrupted(journal)
  BY <1>1 DEF Ledger
<1> QED BY <1>1, <1>2 DEF Promise!Create

LEMMA RunNextSteps ==
  ASSUME TornKinds = {}, IInv, IInv', RunNext
  PROVE  Promise!Next
<1> DEFINE c == Head(queue)
<1>1. /\ mode = "running" /\ queue # <<>>
      /\ PrepareFails(c) \/ ProcessFails(c) \/ CommitFails(c) \/ Commit(c)
  BY DEF RunNext
<1>2. /\ c \in Command
      /\ IntactFrames(journal) => Interrupted(journal) = <<>> /\ Scheduled(Append(LedgerOf(journal), c))
  BY <1>1, FrontFollows
<1>3. /\ FirstTorn(journal) = 0 /\ executed = Ledger /\ Interrupted(journal) = <<>> /\ genesis # "absent"
  BY <1>1, RunningIs
<1>4. SoundFrames(journal)
  BY DEF IInv
<1>5. CASE PrepareFails(c)
  <2>1. PICK residue \in Residues(Prepared(c)) : journal' = journal \o residue
    BY <1>5 DEF PrepareFails
  <2>2. mode' # "running" /\ genesis' = genesis
    BY <1>5 DEF PrepareFails
  <2> HIDE DEF c
  <2>3. LedgerOf(journal') = LedgerOf(journal) /\ (Interrupted(journal') = Interrupted(journal) \/ InDoubt(journal', c))
    BY <1>2, <1>4, <2>1, WritePrepared
  <2>4. \/ Ledger' = Ledger /\ Interrupted(journal)' = <<>>
        \/ Ledger' = Ledger /\ InDoubt(journal', c)
    BY <1>3, <2>3 DEF Ledger, LedgerOf, InDoubt
  <2>5. Promise!Stop
    BY <1>1, <1>2, <2>2, <2>4, StopSteps
  <2> QED BY <2>5 DEF Promise!Next
<1>6. CASE ProcessFails(c)
  <2>1. journal' = Append(journal, Prepared(c)) /\ mode' # "running" /\ genesis' = genesis
    BY <1>6 DEF ProcessFails
  <2> HIDE DEF c
  <2>2. DoesPrepare(journal, journal', c)
    BY <1>2, <1>4, <2>1, PreparedWritten
  <2>3. Ledger' = Ledger /\ InDoubt(journal', c)
    BY <1>3, <2>2 DEF DoesPrepare, Ledger, LedgerOf, InDoubt
  <2>4. Promise!Stop
    BY <1>1, <1>2, <2>1, <2>3, StopSteps
  <2> QED BY <2>4 DEF Promise!Next
<1>7. CASE CommitFails(c)
  <2>1. CanProcess(executed, c) /\ mode' # "running" /\ genesis' = genesis
    BY <1>7 DEF CommitFails, Processed
  <2>2. PICK residue \in Residues(Committed(c, Batch(executed, c))) :
          journal' = Append(journal, Prepared(c)) \o residue
    BY <1>7 DEF CommitFails
  <2>3. BothDone(journal', c)
    BY <1>1, <2>1, <2>2, TwoWrites
  <2> HIDE DEF c
  <2>4. \/ LedgerOf(journal') = LedgerOf(journal) /\ InDoubt(journal', c)
        \/ LedgerOf(journal') = Append(LedgerOf(journal), c) /\ Interrupted(journal') = <<>>
    BY <1>3, <2>3 DEF BothDone
  <2>5. \/ Ledger' = Ledger /\ InDoubt(journal', c)
        \/ Ledger' = Append(Ledger, c) /\ Interrupted(journal)' = <<>>
    BY <2>4 DEF Ledger, LedgerOf, InDoubt
  <2>6. Promise!Stop
    BY <1>1, <1>2, <2>1, <2>5, StopSteps
  <2> QED BY <2>6 DEF Promise!Next
<1>8. CASE Commit(c)
  <2>1. mode' = "running" /\ genesis' = genesis /\ executed' = Append(executed, c)
    BY <1>1, <1>8 DEF Commit, Processed
  <2> HIDE DEF c
  <2>2. FirstTorn(journal)' = 0
    <3>1. (journal \in Seq(FrameSet))'
      BY DEF IInv, SoundFrames
    <3> QED BY <3>1, NoFragments
  <2>3. (executed = LedgerOf(journal))' /\ (Interrupted(journal) = <<>>)'
    BY <2>1, <2>2 DEF IInv, RunningSound, Intact
  <2>4. Ledger' = Append(Ledger, c)
    BY <1>3, <2>1, <2>3 DEF Ledger, LedgerOf
  <2>5. Promise!Execute(c)
    BY <1>1, <1>3, <2>1, <2>3, <2>4 DEF Promise!Execute, LedgerOf, Ledger
  <2> QED BY <1>2, <2>5 DEF Promise!Next
<1> QED BY <1>1, <1>5, <1>6, <1>7, <1>8

LEMMA RecoverSteps ==
  ASSUME TornKinds = {}, IInv, IInv', Recover
  PROVE  Promise!Recover
<1>1. /\ mode = "down" /\ mode' = "running" /\ genesis = "written" /\ genesis' = genesis
      /\ RecoveryAccepts /\ executed' = Base \o ReplayList
  BY DEF Recover, RecoveryAccepts
<1>2. SoundFrames(journal) /\ Faithful(Readable(journal)) /\ journal \in Seq(FrameSet)
      /\ (journal \in Seq(FrameSet))'
  BY DEF IInv, SoundFrames
<1>3. Intact /\ FirstTorn(journal)' = 0
  BY <1>2, NoFragments DEF Intact
<1>4. executed' = Ledger \o Interrupted(journal)
  BY <1>1, <1>3, ExactFromInvariant DEF RecoveryIsExact
<1>5. (executed = LedgerOf(journal))' /\ (Interrupted(journal) = <<>>)'
  BY <1>1, <1>3 DEF IInv, RunningSound, Intact
<1>6. Ledger' = Ledger \o Interrupted(journal)
  BY <1>4, <1>5 DEF Ledger, LedgerOf
<1>7. Ledger' = IF Doubt = None THEN Ledger ELSE Append(Ledger, Doubt)
  <2>1. CASE Interrupted(journal) = <<>>
    <3>1. LedgerOf(journal) \o Interrupted(journal) = LedgerOf(journal)
      BY <1>2, <2>1, AllOfThem
    <3> QED BY <1>6, <2>1, <3>1, DoubtIs DEF Ledger, LedgerOf
  <2>2. CASE \E c \in Command : Interrupted(journal) = <<c>>
    <3>1. PICK c \in Command : Interrupted(journal) = <<c>>
      BY <2>2
    <3>2. LedgerOf(journal) \o Interrupted(journal) = Append(LedgerOf(journal), c)
      BY <1>2, <3>1, AllOfThem
    <3>3. Doubt = c /\ c # None
      BY <3>1, DoubtIs DEF InDoubt
    <3> QED BY <1>6, <3>2, <3>3 DEF Ledger, LedgerOf
  <2> QED BY <1>2, <2>1, <2>2, AllOfThem
<1>8. executed' = Ledger'
  BY <1>5 DEF Ledger, LedgerOf
<1> HIDE DEF Ledger
<1> QED BY <1>1, <1>5, <1>7, <1>8 DEF Promise!Recover, Doubt

\* A recovery whose own write fails has finished the command or changed
\* nothing.
LEMMA RecoverCommitFailsSteps ==
  ASSUME TornKinds = {}, IInv, RecoverCommitFails
  PROVE  [Promise!Next]_(Promise!vars)
<1>1. /\ mode = "down" /\ mode' = "down" /\ genesis = "written" /\ genesis' = genesis
  BY DEF RecoverCommitFails, RecoveryAccepts
<1>2. PICK c \in Command : InDoubt(journal, c) /\ MayCommit(journal, journal', c)
  BY RecoverCommitFailsWrites
<1>3. CASE LedgerOf(journal') = LedgerOf(journal) /\ Interrupted(journal') = Interrupted(journal)
  <2>1. Ledger' = Ledger /\ Interrupted(journal)' = Interrupted(journal)
    BY <1>3 DEF Ledger, LedgerOf
  <2> HIDE DEF Ledger
  <2> QED BY <1>1, <2>1 DEF Promise!vars
<1>4. CASE LedgerOf(journal') = Append(LedgerOf(journal), c) /\ Interrupted(journal') = <<>>
  <2>1. Ledger' = Append(Ledger, c) /\ Interrupted(journal)' = <<>>
    BY <1>4 DEF Ledger, LedgerOf
  <2>2. Doubt = c /\ c # None
    BY <1>2, DoubtIs
  <2> HIDE DEF Ledger
  <2>3. Promise!Recover
    BY <1>1, <2>1, <2>2 DEF Promise!Recover, Doubt
  <2> QED BY <2>3 DEF Promise!Next
<1> QED BY <1>2, <1>3, <1>4 DEF MayCommit

LEMMA StepRefines ==
  ASSUME TornKinds = {}, IInv, IInv', [Next]_vars
  PROVE  [Promise!Next]_(Promise!vars)
<1>1. CASE CreateDurable
  BY <1>1, CreateSteps DEF Promise!Next
<1>2. CASE RunNext
  BY <1>2, RunNextSteps
<1>3. CASE Recover
  BY <1>3, RecoverSteps DEF Promise!Next
<1>4. CASE RecoverCommitFails
  BY <1>4, RecoverCommitFailsSteps
<1>5. CASE genesis' = genesis /\ journal' = journal /\ mode' = mode /\ (mode = "running" => executed' = executed)
  <2>1. Ledger' = Ledger /\ Interrupted(journal)' = Interrupted(journal)
    BY <1>5 DEF Ledger
  <2> HIDE DEF Ledger
  <2> QED BY <1>5, <2>1 DEF Promise!vars
<1>6. CASE genesis' = genesis /\ journal' = journal /\ mode = "running" /\ mode' # "running"
  <2>1. Ledger' = Ledger /\ Interrupted(journal)' = <<>>
    BY <1>6, RunningIs DEF Ledger
  <2>2. Promise!Stop
    BY <1>6, <2>1, StopSteps
  <2> QED BY <2>2 DEF Promise!Next
<1>7. CASE Crash /\ mode = "poisoned"
  <2>1. /\ genesis' = genesis /\ journal' = journal /\ mode' = "down" /\ genesis # "absent"
    BY <1>7 DEF Crash, disk, IInv, NothingYet
  <2>2. Ledger' = Ledger /\ Interrupted(journal)' = Interrupted(journal)
    BY <2>1 DEF Ledger
  <2> HIDE DEF Ledger
  <2> QED BY <1>7, <2>1, <2>2 DEF Promise!vars
<1>8. CASE \E at \in Times, size \in BatchSizes : Enqueue(at, size)
  BY <1>5, <1>8 DEF Enqueue, disk
<1>9. CASE PersistCheckpoint
  BY <1>5, <1>6, <1>9 DEF PersistCheckpoint, memory
<1>10. CASE Crash
  BY <1>6, <1>7, <1>10 DEF Crash, disk, IInv, Typed
<1>11. CASE UNCHANGED vars
  BY <1>5, <1>11 DEF vars, disk, memory
<1> QED BY <1>1, <1>2, <1>3, <1>4, <1>8, <1>9, <1>10, <1>11 DEF Next

\* Where a write happens whole or not at all, the exchange is CommandLedger:
\* executed commands are never lost, reordered or executed twice, whatever
\* fails or crashes between the two writes of a command and inside recovery.
THEOREM ExchangeKeepsItsLedger ==
  ASSUME TornKinds = {}
  PROVE  Spec => ImplementsLedger
<1>1. Init => Promise!Init
  BY EmptyFrames DEF Init, Promise!Init, Ledger, LedgerOf
<1>2. IInv /\ IInv' /\ [Next]_vars => [Promise!Next]_(Promise!vars)
  BY StepRefines
<1> QED BY <1>1, <1>2, Invariance, PTL DEF Spec, ImplementsLedger, Promise!Spec

=============================================================================
