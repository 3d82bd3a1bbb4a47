-------------------------------- MODULE Replay --------------------------------
(* A venue, the network, normalize_capture_v3 and the product cursors that     *)
(* read what it writes.  The venue keeps one book per ticker, numbers its book *)
(* frames, and its trades if it likes, and sends a snapshot of every ticker on *)
(* each connection; the network loses, duplicates and reorders frames;         *)
(* connections fail.  The venue and the network are external; the raw records  *)
(* are those Capture writes.                                                   *)
EXTENDS ProductCursor

CONSTANTS
  MaxSent,   \* bound: frames the venue sends
  MaxWire,   \* bound: frames in flight
  MaxFaults, \* bound: frames lost, duplicated, or sent without a sequence
  MaxConns,  \* bound: connections
  MaxQty,    \* bound: quantity of a level
  Stamps,    \* ts_ms values of a snapshot: None, or a time
  Declared   \* the topologies a capture may declare

\* No book, code, number, ticker or record is None.
Projections == [book : [Levels -> Nat], trade : {None, 1}, seeded : BOOLEAN]
Boundaries ==
  [kind : {"segment_boundary"}, ticker : Tickers, segment : Nat, evidence : {"initial_snapshot"},
   scope : Nat \X {"book"}, ordinal : Nat, time : Int \union Stamps]
Codes == {"RequiredSourceSequenceMissing", "ConflictingDuplicate", "SourceSequenceRegression",
          "IngressOrdinalMismatch", "SubscriptionRequestInvalid", "SubscriptionAckMismatch",
          "FeatureSegmentInvalid", "FeatureBookStateInvalid", "FeatureProjectionInvalid",
          "FeatureProductIdentityMismatch", "FeatureOrderingInvalid",
          "FeatureInputContinuityRequired", "RecoverySnapshotDuplicate",
          "DeltaBeforeRecovery", "UnboundSourceScope", "SourceScopeConflict",
          "MarketMembershipMismatch", "MarketIdentityMissing", "MarketIdentityConflict"}
ASSUME ReplayAssumption ==
  /\ IsFiniteSet(Tickers) /\ None \notin Tickers /\ Declared \subseteq Topologies
  /\ None \notin Codes /\ None \notin Int /\ None \notin [Levels -> Nat]
  /\ None \notin Projections /\ None \notin Boundaries
  /\ {MaxSent, MaxWire, MaxFaults, MaxConns, MaxQty} \subseteq Nat

VARIABLES
  venue,     \* the venue's books
  numbering, \* "shared": one sequence per subscription; "perTicker": one per ticker
  conn,      \* the connection segment
  up,        \* is it open?
  next,      \* the next sequence of each ticker's book (all equal when shared)
  nextTrade, \* the same of its trades
  opened,    \* the tickers whose snapshot this connection has carried
  wire,      \* frames in flight
  sent,      \* frames sent so far
  faults,    \* faults so far
  n,         \* the normalization, after the records read so far
  cursors,   \* one product cursor per ticker, after the records written so far
  newest     \* ghost: per ticker, the latest book frame delivered

vars == <<venue, numbering, conn, up, next, nextTrade, opened, wire, sent, faults, n, cursors, newest>>
venueVars == <<venue, numbering, next, nextTrade, opened, sent>>

BookSid == "book"
TradeSid == "trades"
Market(t) == <<"market", t>>
\* The bodies of the three frames, of one shape.
Body(book, level, change, price) == [book |-> book, level |-> level, change |-> change, price |-> price]
Nothing == [stamp |-> 0, book |-> EmptyBook]

Alive == n.error = None

\* A raw record, stamped with its ordinal as the receive time.
Raw(kind, ordinal, data) == [kind |-> kind, ordinal |-> ordinal, at |-> ordinal, conn |-> conn, data |-> data]

\* The normalizer reads the records of a file, one after the other.
ReadAll(raws) ==
  LET after[i \in 0..Len(raws)] == IF i = 0 THEN n ELSE Read(after[i - 1], raws[i])
  IN after[Len(raws)]

\* The cursors follow a record, each until it raises.
Following(cs, rec) ==
  [t \in Tickers |-> IF cs[t].error # None THEN cs[t] ELSE Follow(cs, rec)[t]]
FollowAll(recs) ==
  LET after[i \in 0..Len(recs)] == IF i = 0 THEN cursors ELSE Following(after[i - 1], recs[i])
  IN after[Len(recs)]

\* What the normalizer writes of the records it reads, the cursors follow.
Reads(raws) ==
  /\ n' = ReadAll(raws)
  /\ cursors' = FollowAll(SubSeq(n'.out, Len(n.out) + 1, Len(n'.out)))

-----------------------------------------------------------------------------
Init ==
  /\ venue = [t \in Tickers |-> EmptyBook]
  /\ numbering \in {"shared", "perTicker"}
  /\ conn = 0 /\ up = FALSE /\ opened = {}
  /\ next = [t \in Tickers |-> 1] /\ nextTrade = [t \in Tickers |-> 1]
  /\ wire = {} /\ sent = 0 /\ faults = 0
  /\ \E policy \in Policies, topology \in Declared : n = Start(policy, topology)
  /\ cursors = [t \in Tickers |-> NewCursor(t, Market(t))]
  /\ newest = [t \in Tickers |-> Nothing]

\* A connection opens: the request and both acknowledgements are recorded.
Connect ==
  /\ Alive /\ ~up /\ conn < MaxConns
  /\ up' = TRUE /\ conn' = conn + 1
  /\ next' = [t \in Tickers |-> 1] /\ nextTrade' = [t \in Tickers |-> 1]
  /\ opened' = {} /\ wire' = {}
  /\ LET raw(i, kind, data) == [Raw(kind, n.ordinal + i, data) EXCEPT !.conn = conn + 1]
     IN Reads(<<raw(1, "subscription_sent", None),
                raw(2, "subscription_acknowledged", [channel |-> "orderbook_delta", sid |-> BookSid]),
                raw(3, "subscription_acknowledged", [channel |-> "trade", sid |-> TradeSid])>>)
  /\ UNCHANGED <<venue, numbering, sent, faults, newest>>

Disconnect ==
  /\ Alive /\ up
  /\ up' = FALSE /\ wire' = {}
  /\ Reads(<<Raw("connection_gap", n.ordinal + 1, None)>>)
  /\ UNCHANGED <<venueVars, conn, faults, newest>>

\* What follows a number of ticker t.
NextNumbers(numbers, t) ==
  IF numbering = "shared" THEN [u \in Tickers |-> numbers[u] + 1]
  ELSE [numbers EXCEPT ![t] = @ + 1]

\* The venue sends a frame of the book's subscription; it may leave out the
\* sequence, which is a fault.
Send(t, type, body, book, unsequenced) ==
  /\ sent < MaxSent /\ Cardinality(wire) < MaxWire
  /\ unsequenced => faults < MaxFaults
  /\ sent' = sent + 1
  /\ faults' = IF unsequenced THEN faults + 1 ELSE faults
  /\ next' = NextNumbers(next, t)
  /\ \E ts \in Stamps :
       wire' = wire \union
         {[type |-> type, sid |-> BookSid, seq |-> IF unsequenced THEN None ELSE next[t], ticker |-> t,
           market |-> Market(t), ts |-> ts, body |-> body, stamp |-> sent + 1, book |-> book]}

SendSnapshot(t) ==
  /\ Alive /\ up /\ t \notin opened
  /\ opened' = opened \union {t}
  /\ \E unsequenced \in BOOLEAN : Send(t, "orderbook_snapshot", Body(venue[t], None, None, None), venue[t], unsequenced)
  /\ UNCHANGED <<venue, numbering, conn, up, nextTrade, n, cursors, newest>>

SendDelta(t) ==
  /\ Alive /\ up /\ t \in opened
  /\ \E l \in Levels, change \in {-1, 1}, unsequenced \in BOOLEAN :
       LET after == [venue[t] EXCEPT ![l] = @ + change]
       IN /\ after[l] \in 0..MaxQty
          /\ venue' = [venue EXCEPT ![t] = after]
          /\ Send(t, "orderbook_delta", Body(None, l, change, None), after, unsequenced)
  /\ UNCHANGED <<numbering, conn, up, nextTrade, opened, n, cursors, newest>>

\* A public trade need not have a sequence, and may come before the book's
\* snapshot.
SendTrade(t) ==
  /\ Alive /\ up /\ sent < MaxSent /\ Cardinality(wire) < MaxWire
  /\ sent' = sent + 1
  /\ \E numbered \in BOOLEAN :
       /\ nextTrade' = IF numbered THEN NextNumbers(nextTrade, t) ELSE nextTrade
       /\ wire' = wire \union
            {[type |-> "trade", sid |-> TradeSid, seq |-> IF numbered THEN nextTrade[t] ELSE None, ticker |-> t,
              market |-> None, ts |-> None, body |-> Body(None, None, None, 1), stamp |-> sent + 1, book |-> EmptyBook]}
  /\ UNCHANGED <<venue, numbering, conn, up, next, opened, faults, n, cursors, newest>>

\* A frame is delivered, recorded and read; a duplicate stays in flight.
Deliver(f, again) ==
  /\ Alive /\ up
  /\ again => faults < MaxFaults
  /\ faults' = IF again THEN faults + 1 ELSE faults
  /\ wire' = IF again THEN wire ELSE wire \ {f}
  /\ Reads(<<Raw("inbound_frame", n.ordinal + 1, f)>>)
  /\ newest' = IF f.type # "trade" /\ f.stamp > newest[f.ticker].stamp
                 THEN [newest EXCEPT ![f.ticker] = [stamp |-> f.stamp, book |-> f.book]]
                 ELSE newest
  /\ UNCHANGED <<venueVars, conn, up>>

Lose(f) ==
  /\ Alive /\ up /\ faults < MaxFaults
  /\ faults' = faults + 1
  /\ wire' = wire \ {f}
  /\ UNCHANGED <<venueVars, conn, up, n, cursors, newest>>

Next ==
  \/ Connect \/ Disconnect
  \/ \E t \in Tickers : SendSnapshot(t) \/ SendDelta(t) \/ SendTrade(t)
  \/ \E f \in wire : Lose(f) \/ \E again \in BOOLEAN : Deliver(f, again)

Spec == Init /\ [][Next]_vars

-----------------------------------------------------------------------------
(* What the consumers rely on.                                                 *)

Shown(t) == cursors[t].error = None /\ cursors[t].state = "valid"

TypeOK ==
  /\ venue \in [Tickers -> [Levels -> 0..MaxQty]]
  /\ up \in BOOLEAN /\ conn \in 0..MaxConns /\ opened \subseteq Tickers
  /\ n.segment \in [Tickers -> Nat] /\ n.valid \in [Tickers -> BOOLEAN]
  /\ n.awaiting \in [Tickers -> {"initial_snapshot", "recovery_snapshot", None}]

\* A visible book is the venue's book as of the latest frame delivered for that
\* ticker, whatever was lost, repeated or reordered, as long as the venue numbers
\* the subscription's frames together and every book frame carried its number;
\* under a numbering that the declared topology does not describe, it still is
\* while the normalizer has found no reason to call the capture incomplete.
VisibleBookIsTheVenues ==
  \A t \in Tickers :
    /\ Alive /\ Shown(t)
    /\ \/ n.reasons = {}
       \/ numbering = "shared" /\ "RequiredSourceSequenceMissing" \notin n.reasons
    => cursors[t].projection.book = newest[t].book

\* The records hold a gap of t after the opening of its last segment.
Gapped(out, t) ==
  \E i \in DOMAIN out :
    /\ out[i].kind = "discontinuity" /\ t \in out[i].affected
    /\ \A j \in DOMAIN out : j > i => ~(out[j].kind = "segment_boundary" /\ out[j].ticker = t)

\* The cursor and the normalizer, two state machines that share no code, agree on
\* which books are visible and in which segment, at every record, but for one
\* thing: a gap in the numbers of the trades ends the cursor's book, while the
\* normalizer's stays valid.
CursorFollowsNormalizer ==
  \A t \in Tickers :
    Alive /\ cursors[t].error = None =>
      /\ Shown(t) <=> n.valid[t] /\ ~Gapped(n.out, t)
      /\ Shown(t) => cursors[t].segment = n.segment[t]

\* A capture called complete hides no loss: where the declared topology is how
\* the venue numbers its frames, every scope's numbered frames are all there, up
\* to the last one delivered; the book's from the first one on, the trades' only
\* from the first one delivered, as nothing tells that trades before it are lost.
CompleteHidesNoLoss ==
  /\ Result(n) = "complete_observed_interval"
  /\ (numbering = "shared") = (n.topology # "independent")
  => \A scope \in {p.key[1] : p \in n.payloads} :
       LET seqs == {p.key[2] : p \in {q \in n.payloads : q.key[1] = scope}}
       IN \E first \in seqs :
            /\ seqs = first..(first + Cardinality(seqs) - 1)
            /\ scope[2] = BookSid => first = 1

\* features-v3 accepts every normalization called complete, each of its rows is
\* in its ticker's only segment, and the last row of a ticker shows the venue's
\* book as of the latest frame delivered for it.
IsLastRow(rows, i, t) ==
  i \in DOMAIN rows /\ rows[i].ticker = t /\ \A j \in DOMAIN rows : j > i => rows[j].ticker # t
CompleteMaterializes ==
  LET m == Features(Completeness(n), n.ids, n.out)
  IN Result(n) = "complete_observed_interval" =>
       /\ m.error = None
       /\ \A i \in DOMAIN m.rows : m.rows[i].segment = 1
       /\ \A t \in Tickers : \E i \in DOMAIN m.rows : IsLastRow(m.rows, i, t) /\ m.rows[i].book = newest[t].book

\* What a cursor shows, as one invariant: the venue's book, in the segment the
\* normalizer holds valid.
ShownBookIsTrue == TypeOK /\ VisibleBookIsTheVenues /\ CursorFollowsNormalizer

\* What "complete_observed_interval" is worth, backwards and forwards.
CompleteIsTrue == CompleteHidesNoLoss /\ CompleteMaterializes

\* The cursors implement SegmentedBooks: a shown book is None or the projection,
\* and a segment is counted when its snapshot is applied.
Promise == INSTANCE SegmentedBooks WITH
  book <- [t \in Tickers |-> IF Shown(t) THEN cursors[t].projection.book ELSE None],
  segment <- [t \in Tickers |-> Cardinality(cursors[t].seen)]

\* A shown book moves one level at a time inside its segment, and a hidden one
\* comes back only with a new segment's snapshot.
NeverCrossesASegment == Promise!Spec

\* "A recovery snapshot may start a new segment": the cursors accept every
\* segment boundary the normalizer writes (violated: a second invalidation makes
\* the cursor wait for an initial snapshot, and it refuses the recovery).
BoundariesAccepted == \A t \in Tickers : cursors[t].error # "FeatureSegmentInvalid"

\* "Logical time is monotonic": in the order the records were written (violated:
\* a boundary has its receive time, which its snapshot's own record forgets).
LogicalTimeMonotone == \A i, j \in DOMAIN n.out : i < j => n.out[i].time <= n.out[j].time
=============================================================================
