--------------------------- MODULE Capture_proofs ---------------------------
(* What a capture's file and its verdict are worth, for any requested tickers, *)
(* any frames the venue may send and however long the capture runs.            *)
EXTENDS CapturePipeline, FiniteSetTheorems, SequenceTheorems, TLAPS

Active == {"connect", "subscribe", "receive", "closing", "leaving"}

RecordKinds ==
  {"connection_attempt", "connection_opened", "subscription_sent", "inbound_frame",
   "subscription_acknowledged", "binary_frame_rejected", "connection_gap", "connection_closed"}

Statuses == {"attempting", "connected", "completed", "incomplete_acknowledgements", "disconnected"}

SegmentSet ==
  [status : Statuses,
   sids : [Channels -> {f.sid : f \in {g \in Frames : g.type = "subscribed"}} \union {None}],
   snapshots : [Tickers -> Nat]]

-----------------------------------------------------------------------------
(* 1. The invariant. *)

\* What the record and the summaries do not depend on.
Scalars ==
  /\ pc \in {"loop", "connect", "subscribe", "receive", "closing", "leaving", "sleep",
            "finish", "done", "dead"}
  /\ clock \in 0..Duration /\ delay \in 1..MaxDelay /\ wake \in 0..Duration
  /\ shutdown \in {"running", "completed", "stopped"}
  /\ verdict \in {"unusable", "record_only", "strict_eligible"}

TypedRecord ==
  /\ segments \in Seq(SegmentSet) /\ lost \in Nat
  /\ records \in Seq(ToSet(records))
  /\ \A i \in DOMAIN records :
       /\ records[i].kind \in RecordKinds /\ records[i].conn \in Nat
       /\ records[i].kind = "inbound_frame" => records[i].data \in Frames
  /\ \A p \in tracker.previous : p.seq \in Int

Typed == Scalars /\ TypedRecord

Ended ==
  /\ Len(segments) > 0 /\ Len(records) > 0
  /\ records[Len(records)].kind = "connection_closed" /\ records[Len(records)].conn = Len(segments)

AllDisconnected == \A c \in DOMAIN segments : segments[c].status = "disconnected"

\* Only the connection that is open may not be disconnected.
SegmentsOK ==
  /\ \A c \in DOMAIN segments : c < Len(segments) => segments[c].status = "disconnected"
  /\ pc \in {"loop", "sleep"} => AllDisconnected
  /\ pc \in Active => Len(segments) > 0 /\ segments[Len(segments)].status # "disconnected"
  /\ pc = "closing" => Ended
  /\ pc \in {"finish", "done"} => shutdown \in {"completed", "stopped"}
  /\ pc \in {"finish", "done"} /\ shutdown = "completed" => AllDisconnected \/ Ended

\* The last record is one of the last connection.
ConnectionsOK ==
  /\ \A i \in DOMAIN records : records[i].conn \in 1..Len(segments)
  /\ Len(records) > 0 => records[Len(records)].conn = Len(segments)
  /\ \A i, j \in DOMAIN records : i < j => records[i].conn <= records[j].conn

\* A connection that is disconnected, or that an exception, a stop or a kill left
\* without its last record.
Failing(c) == segments[c].status = "disconnected" \/ (c = Len(segments) /\ Abandoned)

FailingNext(c) == segments'[c].status = "disconnected" \/ (c = Len(segments') /\ Abandoned')

\* A connection is disconnected when its last record is a gap.
GapsOK ==
  /\ \A i \in DOMAIN records : records[i].kind = "connection_gap" =>
       /\ segments[records[i].conn].status = "disconnected"
       /\ \A j \in DOMAIN records : i < j => records[j].conn # records[i].conn
  /\ \A i \in DOMAIN records : records[i].kind = "binary_frame_rejected" => Failing(records[i].conn)
  /\ \A c \in DOMAIN segments : segments[c].status = "disconnected" =>
       \E i \in DOMAIN records : records[i].conn = c /\ records[i].kind = "connection_gap"

AckOf(r, c, channel, sid) ==
  /\ r.kind = "subscription_acknowledged" /\ r.conn = c
  /\ r.data.channel = channel /\ r.data.sid = sid

\* What is bound was acknowledged, and that is recorded.
AcksOK ==
  /\ \A i \in DOMAIN records : records[i].kind = "subscription_acknowledged" =>
       records[i].data.channel \in Channels
  /\ \A c \in DOMAIN segments, channel \in Channels : segments[c].sids[channel] # None /\ ~Failing(c) =>
       \E i \in DOMAIN records : AckOf(records[i], c, channel, segments[c].sids[channel])

SnapshotsOK ==
  \A c \in DOMAIN segments, t \in Tickers :
    ~Failing(c) => segments[c].snapshots[t] = Cardinality(Snapshots(c, t))

\* A record that was not written leaves a connection that fails.
OrdinalsOK ==
  /\ lost = 0 => \A i \in DOMAIN records : records[i].ordinal = i
  /\ lost # 0 => \E c \in DOMAIN segments : Failing(c)

\* The tracker knows the last sequence of every subscription.
TrackerOK ==
  lost = 0 /\ ~tracker.gap /\ ~tracker.regression =>
    /\ \A p \in tracker.previous : \E i \in DOMAIN records :
         /\ Sequenced(records[i])
         /\ p.key = <<records[i].conn, records[i].data.sid>> /\ p.seq = records[i].data.seq
         /\ \A j \in DOMAIN records : i < j /\ Sequenced(records[j]) => ~SameScope(records[i], records[j])
    /\ \A i \in DOMAIN records : Sequenced(records[i]) =>
         \E p \in tracker.previous : p.key = <<records[i].conn, records[i].data.sid>>
    /\ \A i, j \in DOMAIN records : Follows(i, j) => records[j].data.seq = records[i].data.seq + 1

Paced ==
  /\ Len(segments) <= clock + 1
  /\ pc = "sleep" => Len(segments) <= wake
  /\ pc = "loop" /\ clock < Duration => Len(segments) <= clock

VerdictOK ==
  verdict = "strict_eligible" => pc = "done" /\ shutdown = "completed" /\ Verdict = "strict_eligible"

\* What is said of the file, and of the recorder's control.
Recorded ==
  /\ ConnectionsOK /\ GapsOK /\ AcksOK /\ UnscopedFrameEndsConnection
  /\ SnapshotsOK /\ OrdinalsOK /\ TrackerOK

Controlled == Scalars /\ SegmentsOK /\ Paced /\ VerdictOK

\* The inductive invariant of a capture.
IInv == TypedRecord /\ Recorded /\ Controlled

-----------------------------------------------------------------------------
(* 2. A move: one or two records are added to the connection that is open, or  *)
(* to the one it opens, and the summary of that connection follows them.       *)

MovesRecords ==
  /\ records' \in Seq(ToSet(records')) /\ Len(records) < Len(records')
  /\ \A i \in 1..Len(records) : records'[i] = records[i]
  /\ \A k \in (Len(records) + 1)..Len(records') :
       /\ records'[k].conn = Len(segments') /\ records'[k].kind \in RecordKinds
       /\ records'[k].kind = "inbound_frame" => records'[k].data \in Frames

MovesSegments ==
  /\ segments' \in Seq(SegmentSet) /\ Len(segments') > 0
  /\ Len(segments') \in {Len(segments), Len(segments) + 1}
  /\ \A c \in 1..(Len(segments') - 1) : segments'[c] = segments[c] /\ segments[c].status = "disconnected"
  /\ Len(segments') = Len(segments) => segments[Len(segments)].status # "disconnected"

\* The open connection ends with a gap or goes on without one; the gap is all
\* that is still recorded of a connection that was left.
MovesGaps ==
  LET last == segments'[Len(segments')]
  IN /\ last.status = "disconnected" <=> records'[Len(records')].kind = "connection_gap"
     /\ \A k \in (Len(records) + 1)..Len(records') :
          /\ records'[k].kind = "connection_gap" => k = Len(records')
          /\ records'[k].kind = "binary_frame_rejected" => last.status = "disconnected" \/ Abandoned'
     /\ Abandoned => /\ Len(segments') = Len(segments) /\ Len(records') = Len(records) + 1
                     /\ last.status = "disconnected"

MovesAcks ==
  LET c == Len(segments')
  IN /\ \A k \in (Len(records) + 1)..Len(records') :
          records'[k].kind = "subscription_acknowledged" => records'[k].data.channel \in Channels
     /\ \A channel \in Channels : segments'[c].sids[channel] # None /\ ~Abandoned' =>
          \/ c = Len(segments) /\ segments'[c].sids[channel] = segments[c].sids[channel]
          \/ \E k \in (Len(records) + 1)..Len(records') :
               AckOf(records'[k], c, channel, segments'[c].sids[channel])

\* A data frame is within its connection's scopes, or the last record before the
\* gap.
MovesScopes ==
  LET c == Len(segments')
  IN \A k \in (Len(records) + 1)..Len(records') : DataFrame(records'[k]) =>
       \/ /\ records'[k].data.ticker \in Tickers
          /\ \E channel \in Channels :
               /\ channel = N!ExpectedChannel(records'[k].data) /\ c = Len(segments)
               /\ segments[c].sids[channel] # None /\ segments[c].sids[channel] = records'[k].data.sid
       \/ k = Len(records') /\ Abandoned'

SnapshotOf(r, c, t) ==
  /\ DataFrame(r) /\ r.data.type = "orderbook_snapshot" /\ r.conn = c /\ r.data.ticker = t

MovesSnapshots ==
  LET c == Len(segments')
      before(t) == IF c = Len(segments) THEN segments[c].snapshots[t] ELSE 0
  IN segments'[c].status # "disconnected" /\ ~Abandoned' => \A t \in Tickers :
       \/ /\ segments'[c].snapshots[t] = before(t)
          /\ \A k \in (Len(records) + 1)..Len(records') : ~SnapshotOf(records'[k], c, t)
       \/ /\ segments'[c].snapshots[t] = before(t) + 1
          /\ Len(records') = Len(records) + 1 /\ SnapshotOf(records'[Len(records')], c, t)

MovesOrdinals ==
  /\ lost' \in Nat
  /\ lost' = 0 => /\ lost = 0
                  /\ \A k \in (Len(records) + 1)..Len(records') : records'[k].ordinal = k
  /\ lost' # 0 => lost # 0 \/ segments'[Len(segments')].status = "disconnected" \/ Abandoned'

MovesTracker ==
  /\ \A p \in tracker'.previous : p.seq \in Int
  /\ lost' = 0 =>
       \/ tracker' = tracker /\ \A k \in (Len(records) + 1)..Len(records') : ~Sequenced(records'[k])
       \/ \E f \in Frames :
            /\ Len(segments') = Len(segments) /\ tracker' = Observe(f)
            /\ Sequenced(records'[Len(records) + 1]) /\ records'[Len(records) + 1].data = f
            /\ \A k \in (Len(records) + 2)..Len(records') : ~Sequenced(records'[k])

Moves ==
  /\ MovesRecords /\ MovesSegments /\ MovesGaps /\ MovesAcks /\ MovesScopes
  /\ MovesSnapshots /\ MovesOrdinals /\ MovesTracker

LEMMA NewRecords ==
  ASSUME Typed, MovesRecords
  PROVE  /\ Len(records) \in Nat /\ Len(records') \in Nat /\ Len(records) < Len(records')
         /\ DOMAIN records = 1..Len(records) /\ DOMAIN records' = 1..Len(records')
         /\ \A i \in 1..Len(records) : i \in 1..Len(records') /\ records'[i] = records[i]
         /\ \A k \in 1..Len(records') : k \in 1..Len(records) \/ k \in (Len(records) + 1)..Len(records')
         /\ \A k \in (Len(records) + 1)..Len(records') : k \in 1..Len(records') /\ k > Len(records)
         /\ Len(records') \in (Len(records) + 1)..Len(records')
  BY DEF Typed, TypedRecord, MovesRecords

LEMMA NewSegments ==
  ASSUME Typed, MovesSegments
  PROVE  /\ Len(segments) \in Nat /\ Len(segments') \in Nat /\ Len(segments) <= Len(segments')
         /\ DOMAIN segments = 1..Len(segments) /\ DOMAIN segments' = 1..Len(segments')
         /\ Len(segments') \in 1..Len(segments')
         /\ \A c \in 1..Len(segments') : c = Len(segments') \/ c \in 1..(Len(segments') - 1)
         /\ \A c \in 1..(Len(segments') - 1) : c \in 1..Len(segments) /\ c \in 1..Len(segments') /\ c # Len(segments')
         /\ \A c \in 1..Len(segments) : c \in 1..(Len(segments') - 1) \/ (c = Len(segments') /\ Len(segments') = Len(segments))
  BY DEF Typed, TypedRecord, MovesSegments

\* A connection that fails is disconnected by the next move.
LEMMA FailingMoves ==
  ASSUME Typed, MovesSegments, MovesGaps, NEW c \in 1..Len(segments), Failing(c)
  PROVE  c \in 1..Len(segments') /\ segments'[c].status = "disconnected"
<1>1. c \in 1..Len(segments') /\ c \in DOMAIN segments
  BY NewSegments
<1>2. CASE Abandoned /\ c = Len(segments)
  BY <1>1, <1>2 DEF MovesGaps
<1>3. CASE segments[c].status = "disconnected"
  <2>1. c \in 1..(Len(segments') - 1)
    BY <1>3, NewSegments DEF MovesSegments
  <2> QED BY <1>1, <1>3, <2>1 DEF MovesSegments
<1> QED BY <1>2, <1>3 DEF Failing

\* A connection is not abandoned while the coroutine still reads it, nor between
\* two connections.
LEMMA NotAbandoned ==
  ASSUME pc \in {"loop", "connect", "subscribe", "receive", "closing", "sleep"}
  PROVE  ~Abandoned
BY DEF Abandoned, Stopped

LEMMA MovesKeepConnections ==
  ASSUME Typed, ConnectionsOK, MovesRecords, MovesSegments
  PROVE  ConnectionsOK'
<1>1. ASSUME NEW i \in 1..Len(records)
      PROVE  records'[i].conn \in 1..Len(segments')
  <2>1. records[i].conn \in 1..Len(segments)
    BY NewRecords DEF ConnectionsOK
  <2>2. records'[i] = records[i]
    BY NewRecords, Zenon
  <2>3. Len(segments) \in Nat /\ Len(segments') \in Nat /\ Len(segments) <= Len(segments')
    BY NewSegments, Zenon
  <2> QED BY <2>1, <2>2, <2>3
<1>2. \A k \in (Len(records) + 1)..Len(records') : records'[k].conn = Len(segments')
  BY Zenon DEF MovesRecords
<1>3. \A i \in 1..Len(records') : records'[i].conn \in 1..Len(segments')
  BY <1>1, <1>2, NewRecords, NewSegments, Zenon
<1>4. ASSUME NEW i \in 1..Len(records'), NEW j \in 1..Len(records'), i < j
      PROVE  records'[i].conn <= records'[j].conn
  <2>1. CASE j \in 1..Len(records)
    <3>1. i \in 1..Len(records)
      BY <1>4, <2>1, NewRecords
    <3> QED BY <1>4, <2>1, <3>1, NewRecords DEF ConnectionsOK
  <2>2. CASE j \in (Len(records) + 1)..Len(records')
    <3>1. records'[j].conn = Len(segments')
      BY <1>2, <2>2
    <3>2. records'[i].conn \in 1..Len(segments')
      BY <1>3, Zenon
    <3>3. Len(segments') \in Nat
      BY NewSegments, Zenon
    <3> QED BY <3>1, <3>2, <3>3
  <2> QED BY <2>1, <2>2, NewRecords
<1>5. records'[Len(records')].conn = Len(segments')
  BY <1>2, NewRecords
<1> QED BY <1>3, <1>4, <1>5, NewRecords DEF ConnectionsOK

LEMMA MovesKeepGaps ==
  ASSUME Typed, ConnectionsOK, GapsOK, MovesRecords, MovesSegments, MovesGaps
  PROVE  GapsOK'
<1>1. ASSUME NEW i \in 1..Len(records), segments[records[i].conn].status = "disconnected"
      PROVE  /\ segments'[records'[i].conn].status = "disconnected"
             /\ \A k \in (Len(records) + 1)..Len(records') : records'[k].conn # records'[i].conn
  <2>1. records[i].conn \in 1..Len(segments) /\ records'[i] = records[i]
    BY NewRecords DEF ConnectionsOK
  <2>2. records[i].conn \in 1..(Len(segments') - 1)
    BY <1>1, <2>1, NewSegments, Zenon DEF MovesSegments
  <2>3. records[i].conn # Len(segments')
    BY <2>2, NewSegments, Zenon
  <2> QED BY <1>1, <2>1, <2>2, <2>3 DEF MovesSegments, MovesRecords
<1>2. ASSUME NEW k \in (Len(records) + 1)..Len(records')
      PROVE  /\ records'[k].kind = "connection_gap" =>
                  /\ segments'[records'[k].conn].status = "disconnected" /\ k = Len(records')
             /\ records'[k].kind = "binary_frame_rejected" => FailingNext(records'[k].conn)
  BY NewRecords DEF MovesRecords, MovesGaps, FailingNext
<1>3. ASSUME NEW i \in 1..Len(records'), records'[i].kind = "connection_gap"
      PROVE  /\ segments'[records'[i].conn].status = "disconnected"
             /\ \A j \in 1..Len(records') : i < j => records'[j].conn # records'[i].conn
  <2>1. CASE i \in 1..Len(records)
    <3>1. segments[records[i].conn].status = "disconnected"
          /\ \A j \in 1..Len(records) : i < j => records[j].conn # records[i].conn
      BY <1>3, <2>1, NewRecords DEF GapsOK
    <3> QED BY <1>1, <2>1, <3>1, NewRecords
  <2>2. CASE i \in (Len(records) + 1)..Len(records')
    <3>1. i = Len(records') /\ segments'[records'[i].conn].status = "disconnected"
      BY <1>2, <1>3, <2>2
    <3> QED BY <3>1, NewRecords
  <2> QED BY <2>1, <2>2, NewRecords
<1>4. ASSUME NEW i \in 1..Len(records'), records'[i].kind = "binary_frame_rejected"
      PROVE  FailingNext(records'[i].conn)
  <2>1. CASE i \in 1..Len(records)
    <3>1. Failing(records[i].conn) /\ records'[i] = records[i] /\ records[i].conn \in 1..Len(segments)
      BY <1>4, <2>1, NewRecords DEF GapsOK, ConnectionsOK
    <3>2. segments'[records'[i].conn].status = "disconnected"
      BY <3>1, FailingMoves
    <3> QED BY <3>2 DEF FailingNext
  <2>2. CASE i \in (Len(records) + 1)..Len(records')
    BY <1>2, <1>4, <2>2, Zenon
  <2> QED BY <2>1, <2>2, NewRecords
<1>5. ASSUME NEW c \in 1..Len(segments'), segments'[c].status = "disconnected"
      PROVE  \E i \in 1..Len(records') : records'[i].conn = c /\ records'[i].kind = "connection_gap"
  <2>1. CASE c = Len(segments')
    <3>1. records'[Len(records')].kind = "connection_gap"
      BY <1>5, <2>1 DEF MovesGaps
    <3>2. records'[Len(records')].conn = c
      BY <2>1, NewRecords DEF MovesRecords
    <3> QED BY <3>1, <3>2, NewRecords
  <2>2. CASE c \in 1..(Len(segments') - 1)
    <3>1. c \in 1..Len(segments) /\ segments[c].status = "disconnected"
      BY <2>2, NewSegments, Zenon DEF MovesSegments
    <3>2. DOMAIN segments = 1..Len(segments) /\ DOMAIN records = 1..Len(records)
      BY NewSegments, NewRecords, Zenon
    <3>3. c \in DOMAIN segments
      BY <3>1, <3>2, Zenon
    <3>4. PICK i \in DOMAIN records : records[i].conn = c /\ records[i].kind = "connection_gap"
      BY <3>1, <3>3, Zenon DEF GapsOK
    <3>5. i \in 1..Len(records)
      BY <3>2, <3>4, Zenon
    <3> QED BY <3>4, <3>5, NewRecords, Zenon
  <2> QED BY <2>1, <2>2, NewSegments, Zenon
<1>6. DOMAIN records' = 1..Len(records') /\ DOMAIN segments' = 1..Len(segments')
  BY NewRecords, NewSegments, Zenon
<1> QED BY <1>3, <1>4, <1>5, <1>6 DEF GapsOK, Failing, FailingNext

LEMMA MovesKeepAcks ==
  ASSUME Typed, AcksOK, MovesRecords, MovesSegments, MovesGaps, MovesAcks
  PROVE  AcksOK'
<1>1. ASSUME NEW i \in 1..Len(records'), records'[i].kind = "subscription_acknowledged"
      PROVE  records'[i].data.channel \in Channels
  <2>1. CASE i \in 1..Len(records)
    BY <1>1, <2>1, NewRecords DEF AcksOK
  <2>2. CASE i \in (Len(records) + 1)..Len(records')
    BY <1>1, <2>2 DEF MovesAcks
  <2> QED BY <2>1, <2>2, NewRecords
<1>2. ASSUME NEW c \in 1..Len(segments), NEW channel \in Channels, segments[c].sids[channel] # None,
             ~Failing(c)'
      PROVE  \E i \in 1..Len(records') : AckOf(records'[i], c, channel, segments[c].sids[channel])
  <2>1. DOMAIN segments = 1..Len(segments) /\ DOMAIN records = 1..Len(records)
    BY NewSegments, NewRecords, Zenon
  <2>2. ~Failing(c)
    BY <1>2, FailingMoves DEF Failing
  <2>3. PICK i \in 1..Len(records) : AckOf(records[i], c, channel, segments[c].sids[channel])
    BY <1>2, <2>1, <2>2, Zenon DEF AcksOK
  <2> QED BY <2>3, NewRecords, Zenon
<1>3. ASSUME NEW c \in 1..Len(segments'), NEW channel \in Channels, segments'[c].sids[channel] # None,
             ~Failing(c)'
      PROVE  \E i \in 1..Len(records') : AckOf(records'[i], c, channel, segments'[c].sids[channel])
  <2>1. CASE c \in 1..(Len(segments') - 1)
    <3>1. c \in 1..Len(segments) /\ segments'[c] = segments[c]
      BY <2>1, NewSegments DEF MovesSegments
    <3> QED BY <1>2, <1>3, <3>1
  <2>2. CASE c = Len(segments')
    <3>1. CASE c = Len(segments) /\ segments'[c].sids[channel] = segments[c].sids[channel]
      <4>1. c \in 1..Len(segments)
        BY <3>1, NewSegments, Zenon
      <4> QED BY <1>2, <1>3, <3>1, <4>1, Zenon
    <3>2. CASE \E k \in (Len(records) + 1)..Len(records') :
                 AckOf(records'[k], c, channel, segments'[c].sids[channel])
      BY <3>2, NewRecords, Zenon
    <3> QED BY <1>3, <2>2, <3>1, <3>2 DEF MovesAcks, Failing
  <2> QED BY <2>1, <2>2, NewSegments, Zenon
<1>4. DOMAIN records' = 1..Len(records') /\ DOMAIN segments' = 1..Len(segments')
  BY NewRecords, NewSegments, Zenon
<1> QED BY <1>1, <1>3, <1>4 DEF AcksOK

\* The three ways a data frame may have been recorded.
Scoped(i) ==
  /\ records[i].data.ticker \in Tickers
  /\ \E k \in 1..i : AckOf(records[k], records[i].conn, N!ExpectedChannel(records[i].data), records[i].data.sid)
GapFollows(i) ==
  /\ i < Len(records) /\ records[i + 1].kind = "connection_gap" /\ records[i + 1].conn = records[i].conn
  /\ \A j \in (i + 2)..Len(records) : records[j].conn # records[i].conn

NothingFollows(i) == i = Len(records) /\ Abandoned

LEMMA FramesAreScoped ==
  ASSUME UnscopedFrameEndsConnection
  PROVE  \A i \in DOMAIN records :
           DataFrame(records[i]) => Scoped(i) \/ GapFollows(i) \/ NothingFollows(i)
<1> SUFFICES ASSUME NEW i \in DOMAIN records, DataFrame(records[i])
             PROVE  Scoped(i) \/ GapFollows(i) \/ NothingFollows(i)
  OBVIOUS
<1>1. CASE /\ records[i].data.ticker \in Tickers
           /\ \E a \in {records[j].data : j \in {k \in 1..i :
                records[k].kind = "subscription_acknowledged" /\ records[k].conn = records[i].conn}} :
                a.sid = records[i].data.sid /\ a.channel = N!ExpectedChannel(records[i].data)
  BY <1>1 DEF Scoped, AckOf
<1> QED BY <1>1 DEF UnscopedFrameEndsConnection, GapFollows, NothingFollows

LEMMA ScopedFrames ==
  ASSUME (\A i \in DOMAIN records :
            DataFrame(records[i]) => Scoped(i) \/ GapFollows(i) \/ NothingFollows(i))'
  PROVE  UnscopedFrameEndsConnection'
<1>1. ASSUME NEW i \in DOMAIN records', Scoped(i)'
      PROVE  /\ records'[i].data.ticker \in Tickers
             /\ \E a \in {records'[j].data : j \in {k \in 1..i :
                  records'[k].kind = "subscription_acknowledged" /\ records'[k].conn = records'[i].conn}} :
                  a.sid = records'[i].data.sid /\ a.channel = N!ExpectedChannel(records'[i].data)
  <2>1. PICK k \in 1..i : AckOf(records'[k], records'[i].conn, N!ExpectedChannel(records'[i].data), records'[i].data.sid)
    BY <1>1 DEF Scoped
  <2> QED BY <1>1, <2>1 DEF Scoped, AckOf
<1> QED BY <1>1 DEF UnscopedFrameEndsConnection, GapFollows, NothingFollows

LEMMA MovesKeepScopes ==
  ASSUME Typed, ConnectionsOK, AcksOK, UnscopedFrameEndsConnection,
         MovesRecords, MovesSegments, MovesGaps, MovesScopes, GapsOK'
  PROVE  UnscopedFrameEndsConnection'
<1>1. DOMAIN records = 1..Len(records) /\ DOMAIN records' = 1..Len(records')
      /\ Len(records) \in Nat /\ Len(records') \in Nat /\ Len(records) < Len(records')
  BY NewRecords
<1>2. ASSUME NEW i \in 1..Len(records), DataFrame(records'[i])
      PROVE  Scoped(i)' \/ GapFollows(i)' \/ NothingFollows(i)'
  <2>1. records'[i] = records[i] /\ i \in 1..Len(records') /\ \A k \in 1..i : records'[k] = records[k]
    BY <1>1, NewRecords
  <2>2. CASE Scoped(i)
    BY <2>1, <2>2 DEF Scoped
  <2>3. CASE GapFollows(i)
    <3>1. i + 1 \in 1..Len(records) /\ i + 1 \in 1..Len(records') /\ i < Len(records')
      BY <1>1, <2>3 DEF GapFollows
    <3>2. records'[i + 1] = records[i + 1]
      BY <3>1, NewRecords
    <3>3. records'[i + 1].kind = "connection_gap" /\ records'[i + 1].conn = records'[i].conn
      BY <2>1, <2>3, <3>2 DEF GapFollows
    <3>4. \A j \in 1..Len(records') : i + 1 < j => records'[j].conn # records'[i + 1].conn
      BY <1>1, <3>1, <3>3 DEF GapsOK
    <3> QED BY <1>1, <3>1, <3>3, <3>4 DEF GapFollows
  <2>4. CASE NothingFollows(i)
    <3>1. i = Len(records) /\ Abandoned /\ records[i].conn = Len(segments)
      BY <1>1, <2>4 DEF NothingFollows, ConnectionsOK
    <3>2. Len(segments') = Len(segments) /\ Len(records') = i + 1
          /\ records'[i + 1].kind = "connection_gap"
      BY <3>1 DEF MovesGaps
    <3>3. records'[i + 1].conn = Len(segments')
      BY <1>1, <3>1, <3>2 DEF MovesRecords
    <3> QED BY <1>1, <2>1, <3>1, <3>2, <3>3 DEF GapFollows
  <2>5. DataFrame(records[i])
    BY <1>2, <2>1
  <2> QED BY <1>1, <2>2, <2>3, <2>4, <2>5, FramesAreScoped
<1>3. ASSUME NEW k \in (Len(records) + 1)..Len(records'), DataFrame(records'[k])
      PROVE  Scoped(k)' \/ GapFollows(k)' \/ NothingFollows(k)'
  <2> DEFINE c == Len(segments')
             expected == N!ExpectedChannel(records'[k].data)
  <2>1. CASE /\ records'[k].data.ticker \in Tickers
             /\ \E channel \in Channels :
                  /\ channel = expected /\ c = Len(segments)
                  /\ segments[c].sids[channel] # None /\ segments[c].sids[channel] = records'[k].data.sid
    <3>1. expected \in Channels /\ c = Len(segments) /\ segments[c].sids[expected] # None
          /\ segments[c].sids[expected] = records'[k].data.sid
      BY <2>1, Zenon
    <3>2. c \in DOMAIN segments /\ ~Failing(c)
      <4>1. c \in DOMAIN segments /\ segments[c].status # "disconnected"
        BY <3>1, NewSegments, Zenon DEF MovesSegments
      <4>2. ~Abandoned
        <5>1. Len(records') = Len(records) + 1 => k = Len(records')
          BY <1>1, <1>3
        <5>2. Abandoned => records'[Len(records')].kind = "connection_gap" /\ k = Len(records')
          BY <5>1 DEF MovesGaps
        <5> QED BY <1>3, <5>2 DEF DataFrame
      <4> QED BY <4>1, <4>2 DEF Failing
    <3>3. PICK i \in 1..Len(records) : AckOf(records[i], c, expected, records'[k].data.sid)
      BY <1>1, <3>1, <3>2 DEF AcksOK
    <3>4. i \in 1..k /\ records'[i] = records[i] /\ records'[k].conn = c
      BY <1>1, NewRecords DEF MovesRecords
    <3>5. AckOf(records'[i], records'[k].conn, expected, records'[k].data.sid)
      BY <3>3, <3>4
    <3> QED BY <2>1, <3>4, <3>5 DEF Scoped
  <2>2. CASE k = Len(records') /\ Abandoned'
    BY <2>2 DEF NothingFollows
  <2> QED BY <1>3, <2>1, <2>2 DEF MovesScopes
<1>4. ASSUME NEW i \in 1..Len(records'), DataFrame(records'[i])
      PROVE  Scoped(i)' \/ GapFollows(i)' \/ NothingFollows(i)'
  BY <1>2, <1>3, <1>4, NewRecords
<1> QED BY <1>1, <1>4, ScopedFrames

LEMMA MovesKeepSnapshots ==
  ASSUME Typed, ConnectionsOK, SnapshotsOK, MovesRecords, MovesSegments, MovesGaps, MovesSnapshots
  PROVE  SnapshotsOK'
<1>1. /\ Len(records) \in Nat /\ Len(records') \in Nat /\ Len(records) < Len(records')
      /\ DOMAIN records = 1..Len(records) /\ DOMAIN records' = 1..Len(records')
  BY NewRecords
<1> DEFINE Old(c, t) == {i \in 1..Len(records) : SnapshotOf(records[i], c, t)}
           New(c, t) == {i \in 1..Len(records') : SnapshotOf(records'[i], c, t)}
<1>2. \A c, t : Snapshots(c, t) = Old(c, t) /\ Snapshots(c, t)' = New(c, t)
  BY <1>1 DEF Snapshots, SnapshotOf
<1>3. ASSUME NEW c, NEW t, \A k \in (Len(records) + 1)..Len(records') : ~SnapshotOf(records'[k], c, t)
      PROVE  New(c, t) = Old(c, t)
  BY <1>1, <1>3, NewRecords
<1>4. \A c, t : IsFiniteSet(Old(c, t))
  <2>1. IsFiniteSet(1..Len(records))
    BY <1>1, FS_Interval
  <2> QED BY <2>1, FS_Subset
<1>5. ASSUME NEW c \in 1..Len(segments'), NEW t \in Tickers, ~Failing(c)'
      PROVE  segments'[c].snapshots[t] = Cardinality(New(c, t))
  <2>1. c = Len(segments')
    <3>1. c \notin 1..(Len(segments') - 1)
      BY <1>5 DEF MovesSegments, Failing
    <3> QED BY <3>1, NewSegments, Zenon
  <2> DEFINE before == IF c = Len(segments) THEN segments[c].snapshots[t] ELSE 0
  <2>2. before = Cardinality(Old(c, t))
    <3>1. CASE c = Len(segments)
      <4>1. c \in DOMAIN segments /\ ~Failing(c)
        BY <1>5, <2>1, <3>1, NewSegments, FailingMoves DEF Failing
      <4> QED BY <1>2, <3>1, <4>1 DEF SnapshotsOK
    <3>2. CASE c # Len(segments)
      <4>1. Len(segments) \in Nat /\ Len(segments') = Len(segments) + 1
        BY <2>1, <3>2, NewSegments DEF MovesSegments
      <4>2. \A i \in 1..Len(records) : records[i].conn # c
        BY <1>1, <2>1, <4>1 DEF ConnectionsOK
      <4>3. Old(c, t) = {}
        BY <4>2 DEF SnapshotOf
      <4> QED BY <3>2, <4>3, FS_EmptySet
    <3> QED BY <3>1, <3>2
  <2>3. CASE /\ segments'[c].snapshots[t] = before
             /\ \A k \in (Len(records) + 1)..Len(records') : ~SnapshotOf(records'[k], c, t)
    BY <1>3, <2>2, <2>3
  <2>4. CASE /\ segments'[c].snapshots[t] = before + 1
             /\ Len(records') = Len(records) + 1 /\ SnapshotOf(records'[Len(records')], c, t)
    <3>1. New(c, t) = Old(c, t) \union {Len(records')}
      BY <1>1, <2>4, NewRecords
    <3>2. Len(records') \notin Old(c, t)
      BY <1>1
    <3>3. IsFiniteSet(Old(c, t))
      BY <1>4
    <3> HIDE DEF Old, New
    <3>4. Cardinality(New(c, t)) = Cardinality(Old(c, t)) + 1
      BY <3>1, <3>2, <3>3, FS_AddElement
    <3> QED BY <2>2, <2>4, <3>4
  <2>5. segments'[c].status # "disconnected" /\ ~Abandoned'
    BY <1>5, <2>1 DEF Failing
  <2> QED BY <2>1, <2>3, <2>4, <2>5, Zenon DEF MovesSnapshots
<1>6. DOMAIN segments' = 1..Len(segments')
  BY NewSegments, Zenon
<1> QED BY <1>2, <1>5, <1>6 DEF SnapshotsOK

LEMMA MovesKeepOrdinals ==
  ASSUME Typed, OrdinalsOK, MovesRecords, MovesSegments, MovesGaps, MovesOrdinals
  PROVE  OrdinalsOK'
<1>1. ASSUME lost' = 0, NEW i \in 1..Len(records')
      PROVE  records'[i].ordinal = i
  <2>1. CASE i \in 1..Len(records)
    BY <1>1, <2>1, NewRecords DEF OrdinalsOK, MovesOrdinals
  <2>2. CASE i \in (Len(records) + 1)..Len(records')
    BY <1>1, <2>2 DEF MovesOrdinals
  <2> QED BY <2>1, <2>2, NewRecords
<1>2. ASSUME lost' # 0
      PROVE  \E c \in 1..Len(segments') : Failing(c)'
  <2>1. CASE segments'[Len(segments')].status = "disconnected" \/ Abandoned'
    BY <2>1, NewSegments DEF Failing
  <2>2. CASE lost # 0
    <3>1. PICK c \in 1..Len(segments) : Failing(c)
      BY <2>2, NewSegments DEF OrdinalsOK
    <3> QED BY <3>1, FailingMoves DEF Failing
  <2> QED BY <1>2, <2>1, <2>2 DEF MovesOrdinals
<1>3. DOMAIN records' = 1..Len(records') /\ DOMAIN segments' = 1..Len(segments')
  BY NewRecords, NewSegments
<1> QED BY <1>1, <1>2, <1>3 DEF OrdinalsOK

LEMMA QuietKeepsTracker ==
  ASSUME Typed, TrackerOK, MovesRecords, lost = 0, lost' = 0, tracker' = tracker,
         \A k \in (Len(records) + 1)..Len(records') : ~Sequenced(records'[k])
  PROVE  TrackerOK'
<1> SUFFICES ASSUME ~tracker.gap, ~tracker.regression PROVE TrackerOK'
  BY DEF TrackerOK
<1>1. /\ DOMAIN records = 1..Len(records) /\ DOMAIN records' = 1..Len(records')
      /\ Len(records) \in Nat /\ Len(records') \in Nat
  BY NewRecords
<1>2. \A i \in 1..Len(records') : Sequenced(records'[i]) => i \in 1..Len(records)
  BY NewRecords
<1>3. \A i \in 1..Len(records) : i \in 1..Len(records') /\ records'[i] = records[i]
  BY NewRecords
<1>4. ASSUME NEW p \in tracker.previous
      PROVE  \E i \in 1..Len(records') :
               /\ Sequenced(records'[i])
               /\ p.key = <<records'[i].conn, records'[i].data.sid>> /\ p.seq = records'[i].data.seq
               /\ \A j \in 1..Len(records') : i < j /\ Sequenced(records'[j]) => ~SameScope(records'[i], records'[j])
  <2>1. PICK i \in 1..Len(records) :
          /\ Sequenced(records[i])
          /\ p.key = <<records[i].conn, records[i].data.sid>> /\ p.seq = records[i].data.seq
          /\ \A j \in 1..Len(records) : i < j /\ Sequenced(records[j]) => ~SameScope(records[i], records[j])
    BY <1>1 DEF TrackerOK
  <2> QED BY <1>2, <1>3, <2>1
<1>5. ASSUME NEW i \in 1..Len(records'), Sequenced(records'[i])
      PROVE  \E p \in tracker.previous : p.key = <<records'[i].conn, records'[i].data.sid>>
  BY <1>1, <1>2, <1>3, <1>5 DEF TrackerOK
<1>6. ASSUME NEW i \in 1..Len(records'), NEW j \in 1..Len(records'), Follows(i, j)'
      PROVE  records'[j].data.seq = records'[i].data.seq + 1
  <2>1. i \in 1..Len(records) /\ j \in 1..Len(records)
    BY <1>2, <1>6 DEF Follows
  <2>2. \A k \in (i + 1)..(j - 1) : k \in 1..Len(records)
    BY <1>1, <2>1
  <2>3. Follows(i, j)
    BY <1>3, <1>6, <2>1, <2>2 DEF Follows
  <2> QED BY <1>1, <1>3, <2>1, <2>3 DEF TrackerOK
<1> QED BY <1>1, <1>4, <1>5, <1>6 DEF TrackerOK

\* A frame with a sequence is recorded: the tracker forgets the previous frame
\* of its subscription, and has compared it with this one.
LEMMA SequencedKeepsTracker ==
  ASSUME Typed, TrackerOK, MovesRecords, lost = 0, lost' = 0, NEW f \in Frames,
         Len(segments') = Len(segments), tracker' = Observe(f),
         Sequenced(records'[Len(records) + 1]), records'[Len(records) + 1].data = f,
         \A k \in (Len(records) + 2)..Len(records') : ~Sequenced(records'[k])
  PROVE  TrackerOK'
<1> SUFFICES ASSUME ~tracker'.gap, ~tracker'.regression PROVE TrackerOK'
  BY DEF TrackerOK
<1> DEFINE n == Len(records) + 1
           key == <<Len(segments), f.sid>>
           prev == {p \in tracker.previous : p.key = key}
           new == [key |-> key, seq |-> f.seq]
<1>1. /\ DOMAIN records = 1..Len(records) /\ DOMAIN records' = 1..Len(records')
      /\ Len(records) \in Nat /\ Len(records') \in Nat /\ n \in 1..Len(records')
      /\ n \notin 1..Len(records)
  BY NewRecords
<1>2. \A i \in 1..Len(records') : Sequenced(records'[i]) => i \in 1..Len(records) \/ i = n
  BY <1>1
<1>3. \A i \in 1..Len(records) : i \in 1..Len(records') /\ records'[i] = records[i] /\ i < n
  BY <1>1, NewRecords
<1>4. records'[n].conn = Len(segments) /\ records'[n].data = f /\ Sequenced(records'[n])
  BY <1>1 DEF MovesRecords
<1>5. "seq" \in DOMAIN f /\ f.seq # None /\ f.seq \in Int
  <2>1. "seq" \in DOMAIN f /\ f.seq # None
    BY <1>4 DEF Sequenced
  <2>2. f.seq \notin Int => tracker'.regression
    BY <2>1 DEF Observe
  <2> QED BY <2>1, <2>2
<1>6. /\ tracker'.previous = (tracker.previous \ prev) \union {new}
      /\ tracker'.gap = (tracker.gap \/ \E p \in prev : f.seq > p.seq + 1)
      /\ tracker'.regression = (tracker.regression \/ \E p \in prev : f.seq <= p.seq)
  BY <1>5 DEF Observe, Conn
<1>7. ~tracker.gap /\ ~tracker.regression
      /\ \A p \in prev : ~(f.seq > p.seq + 1) /\ ~(f.seq <= p.seq)
  BY <1>6
<1>8. \A p \in prev : p.seq + 1 = f.seq
  BY <1>5, <1>7 DEF Typed, TypedRecord
<1>9. \A i \in 1..Len(records) : SameScope(records'[i], records'[n]) <=> <<records[i].conn, records[i].data.sid>> = key
  BY <1>3, <1>4 DEF SameScope
<1>10. ASSUME NEW p \in tracker'.previous
       PROVE  \E i \in 1..Len(records') :
                /\ Sequenced(records'[i])
                /\ p.key = <<records'[i].conn, records'[i].data.sid>> /\ p.seq = records'[i].data.seq
                /\ \A j \in 1..Len(records') : i < j /\ Sequenced(records'[j]) => ~SameScope(records'[i], records'[j])
  <2>1. CASE p \in tracker.previous /\ p.key # key
    <3>1. PICK i \in 1..Len(records) :
            /\ Sequenced(records[i])
            /\ p.key = <<records[i].conn, records[i].data.sid>> /\ p.seq = records[i].data.seq
            /\ \A j \in 1..Len(records) : i < j /\ Sequenced(records[j]) => ~SameScope(records[i], records[j])
      BY <1>1, <1>7, <2>1 DEF TrackerOK
    <3>2. ~SameScope(records'[i], records'[n])
      BY <1>9, <2>1, <3>1
    <3> QED BY <1>2, <1>3, <3>1, <3>2
  <2>2. CASE p = new
    <3>1. p.key = <<records'[n].conn, records'[n].data.sid>> /\ p.seq = records'[n].data.seq
      BY <1>4, <2>2
    <3>2. \A j \in 1..Len(records') : n < j => ~Sequenced(records'[j])
      BY <1>2, <1>3
    <3> QED BY <1>1, <1>4, <3>1, <3>2
  <2> QED BY <1>6, <1>10, <2>1, <2>2
<1>11. ASSUME NEW i \in 1..Len(records'), Sequenced(records'[i])
       PROVE  \E p \in tracker'.previous : p.key = <<records'[i].conn, records'[i].data.sid>>
  <2>1. new \in tracker'.previous /\ new.key = key
    BY <1>6
  <2>2. CASE i = n
    BY <1>4, <2>1, <2>2
  <2>3. CASE i \in 1..Len(records)
    <3>1. PICK p \in tracker.previous : p.key = <<records[i].conn, records[i].data.sid>>
      BY <1>1, <1>3, <1>7, <1>11, <2>3 DEF TrackerOK
    <3>2. CASE p.key = key
      BY <1>3, <2>1, <2>3, <3>1, <3>2
    <3>3. CASE p.key # key
      BY <1>3, <1>6, <2>3, <3>1, <3>3
    <3> QED BY <3>2, <3>3
  <2> QED BY <1>2, <1>11, <2>2, <2>3
<1>12. ASSUME NEW i \in 1..Len(records'), NEW j \in 1..Len(records'), Follows(i, j)'
       PROVE  records'[j].data.seq = records'[i].data.seq + 1
  <2>1. i < j /\ Sequenced(records'[i]) /\ Sequenced(records'[j])
    BY <1>12 DEF Follows
  <2>2. i \in 1..Len(records)
    BY <1>1, <1>2, <1>3, <2>1
  <2>3. CASE j \in 1..Len(records)
    <3>1. \A k \in (i + 1)..(j - 1) : k \in 1..Len(records)
      BY <1>1, <2>2, <2>3
    <3>2. Follows(i, j)
      BY <1>3, <1>12, <2>2, <2>3, <3>1 DEF Follows
    <3>3. i \in DOMAIN records /\ j \in DOMAIN records
      BY <1>1, <2>2, <2>3
    <3>4. records[j].data.seq = records[i].data.seq + 1
      BY <1>7, <3>2, <3>3 DEF TrackerOK
    <3> QED BY <1>3, <2>2, <2>3, <3>4
  <2>4. CASE j = n
    <3>1. SameScope(records'[i], records'[n])
          /\ \A k \in (i + 1)..(n - 1) : Sequenced(records'[k]) => ~SameScope(records'[i], records'[k])
      BY <1>12, <2>4 DEF Follows
    <3>2. <<records[i].conn, records[i].data.sid>> = key /\ records'[i] = records[i]
      BY <1>3, <1>9, <2>2, <3>1
    <3>3. PICK p \in tracker.previous : p.key = key
      BY <1>1, <1>7, <2>1, <2>2, <3>2, Zenon DEF TrackerOK
    <3>4. PICK m \in 1..Len(records) :
            /\ Sequenced(records[m])
            /\ p.key = <<records[m].conn, records[m].data.sid>> /\ p.seq = records[m].data.seq
            /\ \A k \in 1..Len(records) : m < k /\ Sequenced(records[k]) => ~SameScope(records[m], records[k])
      BY <1>1, <1>7 DEF TrackerOK
    <3>5. SameScope(records[m], records[i]) /\ SameScope(records[i], records[m])
      BY <3>2, <3>3, <3>4 DEF SameScope
    <3>6. ~(m < i)
      BY <2>1, <2>2, <3>2, <3>4, <3>5
    <3>7. ~(i < m)
      <4>1. i < m => m \in (i + 1)..(n - 1) /\ records'[m] = records[m]
        BY <1>1, <1>3, <2>2, <3>4
      <4> QED BY <3>1, <3>2, <3>4, <3>5, <4>1
    <3>8. m = i
      BY <1>1, <2>2, <3>4, <3>6, <3>7
    <3> QED BY <1>4, <1>8, <2>4, <3>2, <3>3, <3>4, <3>8
  <2> QED BY <1>2, <2>1, <2>3, <2>4
<1> QED BY <1>1, <1>10, <1>11, <1>12 DEF TrackerOK

LEMMA MovesKeepTracker ==
  ASSUME Typed, TrackerOK, MovesRecords, MovesOrdinals, MovesTracker
  PROVE  TrackerOK'
<1> SUFFICES ASSUME lost' = 0 PROVE TrackerOK'
  BY DEF TrackerOK
<1>1. lost = 0
  BY DEF MovesOrdinals
<1> QED BY <1>1, QuietKeepsTracker, SequencedKeepsTracker DEF MovesTracker

-----------------------------------------------------------------------------
(* 3. What the operators of the actions do. *)

LEMMA OwnSet ==
  ASSUME NEW T, NEW s \in Seq(T)
  PROVE  s \in Seq(ToSet(s))
<1>1. s \in [1..Len(s) -> ToSet(s)] /\ Len(s) \in Nat
  BY DEF ToSet
<1> QED BY <1>1

Adds(r) == records' = Append(records, r)
AddsTwo(r, q) == records' = records \o <<r, q>>

LEMMA AddsARecord ==
  ASSUME Typed, NEW r, Adds(r)
  PROVE  /\ Len(records') = Len(records) + 1 /\ records'[Len(records) + 1] = r
         /\ \A i \in 1..Len(records) : records'[i] = records[i]
         /\ records' \in Seq(ToSet(records'))
<1> DEFINE T == ToSet(records) \union {r}
<1>1. records \in Seq(T) /\ r \in T
  BY DEF Typed, TypedRecord
<1> HIDE DEF T
<1>2. records' \in Seq(T)
  BY <1>1 DEF Adds
<1>3. records' \in Seq(ToSet(records'))
  BY <1>2, OwnSet
<1> QED BY <1>1, <1>3 DEF Adds

LEMMA AddsTwoRecords ==
  ASSUME Typed, NEW r, NEW q, AddsTwo(r, q)
  PROVE  /\ Len(records') = Len(records) + 2 /\ records'[Len(records) + 1] = r
         /\ records'[Len(records) + 2] = q
         /\ \A i \in 1..Len(records) : records'[i] = records[i]
         /\ records' \in Seq(ToSet(records'))
<1> DEFINE T == ToSet(records) \union {r, q}
<1>1. records \in Seq(T) /\ r \in T /\ q \in T
  BY DEF Typed, TypedRecord
<1> HIDE DEF T
<1>2. records' = Append(Append(records, r), q)
  BY <1>1 DEF AddsTwo
<1>3. records' \in Seq(T)
  BY <1>1, <1>2
<1>4. records' \in Seq(ToSet(records'))
  BY <1>3, OwnSet
<1> QED BY <1>1, <1>2, <1>4

\* The connection that is open is disconnected.
Disconnects == segments' = [segments EXCEPT ![Conn].status = "disconnected"]

LEMMA Disconnecting ==
  ASSUME Typed, SegmentsOK, pc \in Active, Disconnects
  PROVE  /\ Len(segments') = Len(segments) /\ Len(segments) \in 1..Len(segments)
         /\ segments' \in Seq(SegmentSet)
         /\ \A c \in 1..(Len(segments) - 1) : segments'[c] = segments[c] /\ segments[c].status = "disconnected"
         /\ segments[Len(segments)].status # "disconnected"
         /\ segments'[Len(segments)].status = "disconnected"
         /\ segments'[Len(segments)].sids = segments[Len(segments)].sids
<1> DEFINE n == Len(segments)
           closed == [segments[n] EXCEPT !.status = "disconnected"]
<1>1. segments \in Seq(SegmentSet) /\ n \in Nat /\ n > 0 /\ n \in 1..n /\ DOMAIN segments = 1..n
  BY DEF Typed, TypedRecord, SegmentsOK
<1>2. segments[n] \in SegmentSet
  BY <1>1
<1>3. closed \in SegmentSet /\ closed.status = "disconnected" /\ closed.sids = segments[n].sids
  BY <1>2 DEF SegmentSet, Statuses
<1>4. segments' = [segments EXCEPT ![n] = closed]
  BY <1>1 DEF Disconnects, Conn
<1> HIDE DEF closed, n
<1>5. segments' = [segments EXCEPT ![n] = closed] => segments' \in Seq(SegmentSet) /\ Len(segments') = n
      /\ segments'[n] = closed /\ \A c \in 1..n : c # n => segments'[c] = segments[c]
  <2> n \in 1..Len(segments) /\ n \in Nat
    BY <1>1 DEF n
  <2> QED BY <1>1, <1>3, ExceptSeq
<1>6. segments[n].status # "disconnected" /\ \A c \in 1..(n - 1) : segments[c].status = "disconnected"
  BY <1>1 DEF SegmentsOK, n
<1>7. \A c \in 1..(n - 1) : c \in 1..n /\ c # n
  BY <1>1
<1>8. /\ Len(segments') = n /\ n \in 1..n /\ segments' \in Seq(SegmentSet)
      /\ \A c \in 1..(n - 1) : segments'[c] = segments[c] /\ segments[c].status = "disconnected"
      /\ segments[n].status # "disconnected" /\ segments'[n].status = "disconnected"
      /\ segments'[n].sids = segments[n].sids
  BY <1>1, <1>3, <1>4, <1>5, <1>6, <1>7
<1> QED BY <1>8 DEF n

\* A gap is recorded, and the connection is disconnected: all that a failure does
\* to the record and to the summaries.
Fails ==
  /\ Disconnects /\ MovesRecords
  /\ Len(records') = Len(records) + 1 /\ records'[Len(records')].kind = "connection_gap"

LEMMA FailuresMove ==
  ASSUME Typed, SegmentsOK, pc \in Active, Fails
  PROVE  MovesSegments /\ MovesGaps /\ MovesAcks /\ MovesScopes /\ MovesSnapshots
<1>1. /\ Len(segments') = Len(segments) /\ Len(segments) \in 1..Len(segments)
      /\ segments' \in Seq(SegmentSet)
      /\ \A c \in 1..(Len(segments) - 1) : segments'[c] = segments[c] /\ segments[c].status = "disconnected"
      /\ segments[Len(segments)].status # "disconnected"
      /\ segments'[Len(segments)].status = "disconnected"
      /\ segments'[Len(segments)].sids = segments[Len(segments)].sids
  BY Disconnecting, Zenon DEF Fails
<1>2. \A k \in (Len(records) + 1)..Len(records') : k = Len(records') /\ records'[k].kind = "connection_gap"
  BY NewRecords DEF Fails
<1>3. MovesSegments
  BY <1>1 DEF MovesSegments
<1>4. MovesGaps
  BY <1>1, <1>2, NewRecords, Zenon DEF MovesGaps, Fails
<1>5. MovesAcks
  BY <1>1, <1>2 DEF MovesAcks
<1>6. MovesScopes
  BY <1>2 DEF MovesScopes, DataFrame
<1>7. MovesSnapshots
  BY <1>1 DEF MovesSnapshots
<1> QED BY <1>3, <1>4, <1>5, <1>6, <1>7

\* A gap that is the only record of its failure.
LEMMA GapIsAFailure ==
  ASSUME Typed, Disconnects, SegmentsOK, pc \in Active, NEW r, Adds(r),
         r.kind = "connection_gap", r.conn = Len(segments)
  PROVE  Fails
<1>1. Len(segments') = Len(segments)
  BY Disconnecting
<1>2. /\ Len(records') = Len(records) + 1 /\ records'[Len(records) + 1] = r
      /\ \A i \in 1..Len(records) : records'[i] = records[i]
      /\ records' \in Seq(ToSet(records'))
  BY AddsARecord
<1>3. Len(records) \in Nat
  BY DEF Typed, TypedRecord
<1>4. \A k \in (Len(records) + 1)..Len(records') : k = Len(records') /\ records'[k] = r
  BY <1>2, <1>3
<1>5. MovesRecords
  BY <1>1, <1>2, <1>3, <1>4 DEF MovesRecords, RecordKinds
<1> QED BY <1>2, <1>4, <1>5 DEF Fails

\* What the tracker knows of a subscription is a number.
LEMMA ObserveTyped ==
  ASSUME Typed, NEW f \in Frames
  PROVE  \A p \in Observe(f).previous : p.seq \in Int
<1>1. CASE "seq" \notin DOMAIN f \/ f.seq = None
  BY <1>1 DEF Observe, Typed, TypedRecord
<1>2. CASE ~("seq" \notin DOMAIN f \/ f.seq = None)
  <2>1. \A p \in Observe(f).previous : p \in tracker.previous \/ p.seq \in Int
    BY <1>2 DEF Observe
  <2> QED BY <2>1 DEF Typed, TypedRecord
<1> QED BY <1>1, <1>2

-----------------------------------------------------------------------------
(* 4. Every action is a move or leaves the record alone. *)

LEMMA GapMoves ==
  ASSUME Typed, SegmentsOK, pc \in Active, Disconnects, tracker' = tracker, lost' = lost, NEW code,
         Write("connection_gap", code)
  PROVE  Moves
<1>1. pc \in Active /\ Disconnects /\ tracker' = tracker /\ lost' = lost
  OBVIOUS
<1> DEFINE r == Record("connection_gap", code)
<1>2. r.kind = "connection_gap" /\ r.conn = Len(segments) /\ r.ordinal = Len(records) + lost + 1
  BY DEF Record, Conn
<1>3. Adds(r)
  BY DEF Adds, Write
<1> HIDE DEF r
<1>4. Fails
  BY <1>1, <1>2, <1>3, GapIsAFailure
<1>5. /\ Len(records') = Len(records) + 1 /\ records'[Len(records) + 1] = r
      /\ Len(records) \in Nat /\ lost \in Nat
  BY <1>3, AddsARecord DEF Typed, TypedRecord
<1>6. \A k \in (Len(records) + 1)..Len(records') : k = Len(records) + 1 /\ records'[k] = r
  BY <1>5
<1>7. MovesOrdinals
  <2>1. lost' = 0 => \A k \in (Len(records) + 1)..Len(records') : records'[k].ordinal = k
    BY <1>1, <1>2, <1>5, <1>6
  <2> QED BY <1>1, <1>5, <2>1 DEF MovesOrdinals
<1>8. MovesTracker
  BY <1>1, <1>2, <1>6 DEF MovesTracker, Typed, TypedRecord, Sequenced
<1> QED BY <1>1, <1>4, <1>7, <1>8, FailuresMove DEF Moves, Fails

LEMMA TransportFailsMoves ==
  ASSUME Typed, SegmentsOK, TransportFails
  PROVE  Moves
BY GapMoves DEF TransportFails, Active, Disconnects

LEMMA LeftMoves ==
  ASSUME Typed, SegmentsOK, Left
  PROVE  Moves
BY GapMoves DEF Left, Active, Disconnects

\* An ordinal is used up by a record that could not be written.
LEMMA LostWritesMove ==
  ASSUME Typed, SegmentsOK, pc \in Active, Disconnects, lost' = lost + 1,
         Adds([Record("connection_gap", "TransportDisconnected") EXCEPT !.ordinal = @ + 1]),
         \A p \in tracker'.previous : p.seq \in Int
  PROVE  Moves
<1> DEFINE r == [Record("connection_gap", "TransportDisconnected") EXCEPT !.ordinal = @ + 1]
<1>1. r.kind = "connection_gap" /\ r.conn = Len(segments)
  BY DEF Record, Conn
<1>2. Adds(r)
  OBVIOUS
<1> HIDE DEF r
<1>3. Fails
  BY <1>1, <1>2, GapIsAFailure
<1>4. lost \in Nat /\ lost' # 0 /\ lost' \in Nat
  BY DEF Typed, TypedRecord
<1>5. MovesOrdinals
  BY <1>4, Disconnecting DEF MovesOrdinals
<1>6. MovesTracker
  BY <1>4 DEF MovesTracker
<1> QED BY <1>3, <1>5, <1>6, FailuresMove DEF Moves, Fails

LEMMA RecordUnwrittenMoves ==
  ASSUME Typed, SegmentsOK, RecordUnwritten
  PROVE  Moves
<1>1. pc \in Active /\ Disconnects /\ lost' = lost + 1 /\ tracker' = tracker
  BY DEF RecordUnwritten, Active, Disconnects
<1>2. Adds([Record("connection_gap", "TransportDisconnected") EXCEPT !.ordinal = @ + 1])
  BY DEF RecordUnwritten, Adds
<1> QED BY <1>1, <1>2, LostWritesMove DEF Typed, TypedRecord

LEMMA ReceiveUnwrittenMoves ==
  ASSUME Typed, SegmentsOK, NEW f \in Frames, ReceiveUnwritten(f)
  PROVE  Moves
<1>1. pc \in Active /\ Disconnects /\ lost' = lost + 1 /\ tracker' = Observe(f)
  BY DEF ReceiveUnwritten, Active, Disconnects
<1>2. Adds([Record("connection_gap", "TransportDisconnected") EXCEPT !.ordinal = @ + 1])
  BY DEF ReceiveUnwritten, Adds
<1> QED BY <1>1, <1>2, LostWritesMove, ObserveTyped

\* One record that is neither a frame, a gap nor an acknowledgement.
Notes(r) ==
  /\ Adds(r) /\ r.kind \in {"connection_attempt", "connection_opened", "subscription_sent", "connection_closed"}
  /\ r.ordinal = Len(records) + lost + 1 /\ r.conn = Len(segments')
  /\ lost' = lost /\ tracker' = tracker

LEMMA NotesMove ==
  ASSUME Typed, NEW r, Notes(r)
  PROVE  /\ MovesRecords /\ MovesOrdinals /\ MovesTracker /\ MovesScopes
         /\ \A k \in (Len(records) + 1)..Len(records') : k = Len(records') /\ records'[k] = r
         /\ Len(records') \in (Len(records) + 1)..Len(records')
<1>1. /\ Len(records') = Len(records) + 1 /\ records'[Len(records) + 1] = r
      /\ \A i \in 1..Len(records) : records'[i] = records[i]
      /\ records' \in Seq(ToSet(records'))
  BY AddsARecord DEF Notes
<1>2. Len(records) \in Nat /\ lost \in Nat
  BY DEF Typed, TypedRecord
<1>3. \A k \in (Len(records) + 1)..Len(records') : k = Len(records) + 1 /\ records'[k] = r
  BY <1>1, <1>2
<1>4. MovesRecords
  BY <1>1, <1>2, <1>3 DEF MovesRecords, RecordKinds, Notes
<1>5. MovesOrdinals
  <2>1. lost' = 0 => \A k \in (Len(records) + 1)..Len(records') : records'[k].ordinal = k
    BY <1>2, <1>3 DEF Notes
  <2> QED BY <1>2, <2>1 DEF MovesOrdinals, Notes
<1>6. MovesTracker
  BY <1>3 DEF MovesTracker, Typed, TypedRecord, Notes, Sequenced
<1>7. MovesScopes
  BY <1>3 DEF MovesScopes, DataFrame, Notes
<1> QED BY <1>1, <1>2, <1>3, <1>4, <1>5, <1>6, <1>7

\* The open connection's summary changes, not what it acknowledged nor its snapshots.
Restates(segment) ==
  /\ segments' = [segments EXCEPT ![Len(segments)] = segment]
  /\ segment \in SegmentSet /\ segment.status # "disconnected"

LEMMA Restating ==
  ASSUME Typed, SegmentsOK, pc \in Active, NEW segment, Restates(segment)
  PROVE  /\ MovesSegments /\ Len(segments') = Len(segments) /\ Len(segments) \in 1..Len(segments)
         /\ segments'[Len(segments)] = segment /\ segment.status # "disconnected"
         /\ segments[Len(segments)] \in SegmentSet
<1> DEFINE n == Len(segments)
<1>1. segments \in Seq(SegmentSet) /\ n \in Nat /\ n > 0 /\ n \in 1..n /\ segments[n] \in SegmentSet
  BY DEF Typed, TypedRecord, SegmentsOK
<1>2. segment \in SegmentSet /\ segment.status # "disconnected"
  BY DEF Restates
<1>3. segments' = [segments EXCEPT ![n] = segment]
  BY DEF Restates
<1>4. segments[n].status # "disconnected" /\ \A c \in 1..(n - 1) : segments[c].status = "disconnected"
  BY <1>1 DEF SegmentsOK
<1>5. \A c \in 1..(n - 1) : c \in 1..n /\ c # n
  BY <1>1
<1>6. n \in 1..Len(segments)
  BY <1>1
<1> HIDE DEF n
<1>7. segments' \in Seq(SegmentSet) /\ Len(segments') = Len(segments)
      /\ \A c \in 1..Len(segments) : segments'[c] = IF c = n THEN segment ELSE segments[c]
  BY <1>1, <1>2, <1>3, <1>6, ExceptSeq
<1>8. n = Len(segments)
  BY DEF n
<1>9. segments'[n] = segment /\ \A c \in 1..(n - 1) : segments'[c] = segments[c]
  BY <1>5, <1>6, <1>7, <1>8
<1> QED BY <1>1, <1>2, <1>4, <1>7, <1>8, <1>9 DEF MovesSegments

\* A note that leaves the connection as it was but for its status.
LEMMA StatusMoves ==
  ASSUME Typed, SegmentsOK, pc \in Active, ~Abandoned, NEW segment, Restates(segment),
         segment.sids = segments[Len(segments)].sids,
         segment.snapshots = segments[Len(segments)].snapshots,
         NEW r, Notes(r)
  PROVE  Moves
<1>1. /\ MovesSegments /\ Len(segments') = Len(segments) /\ Len(segments) \in 1..Len(segments)
      /\ segments'[Len(segments)] = segment /\ segment.status # "disconnected"
  BY Restating
<1>2. /\ MovesRecords /\ MovesOrdinals /\ MovesTracker /\ MovesScopes
      /\ \A k \in (Len(records) + 1)..Len(records') : k = Len(records') /\ records'[k] = r
      /\ Len(records') \in (Len(records) + 1)..Len(records')
  BY NotesMove
<1>3. r.kind \notin {"connection_gap", "binary_frame_rejected", "inbound_frame", "subscription_acknowledged"}
  BY DEF Notes
<1>4. MovesGaps
  BY <1>1, <1>2, <1>3 DEF MovesGaps
<1>5. MovesAcks
  BY <1>1, <1>2, <1>3 DEF MovesAcks
<1>6. MovesSnapshots
  BY <1>1, <1>2, <1>3 DEF MovesSnapshots, SnapshotOf, DataFrame
<1> QED BY <1>1, <1>2, <1>4, <1>5, <1>6 DEF Moves

LEMMA ConnectedMoves ==
  ASSUME Typed, SegmentsOK, Connected
  PROVE  Moves
<1> DEFINE segment == [segments[Len(segments)] EXCEPT !.status = "connected"]
           r == Record("connection_opened", None)
<1>1. pc \in Active /\ ~Abandoned /\ Len(segments) \in 1..Len(segments) /\ segments \in Seq(SegmentSet)
      /\ segments[Len(segments)] \in SegmentSet
  BY NotAbandoned DEF Connected, Active, SegmentsOK, Typed, TypedRecord
<1>2. segment \in SegmentSet /\ segment.status # "disconnected"
      /\ segment.sids = segments[Len(segments)].sids /\ segment.snapshots = segments[Len(segments)].snapshots
  BY <1>1 DEF SegmentSet, Statuses
<1>3. segments' = [segments EXCEPT ![Len(segments)] = segment]
  BY <1>1 DEF Connected, Conn
<1>4. Restates(segment)
  BY <1>2, <1>3 DEF Restates
<1>5. Len(segments') = Len(segments)
  BY <1>1, <1>4, Restating
<1>6. r.kind = "connection_opened" /\ r.ordinal = Len(records) + lost + 1 /\ r.conn = Len(segments')
  BY <1>5 DEF Record, Conn
<1>7. Adds(r) /\ lost' = lost /\ tracker' = tracker
  BY DEF Connected, Write, Adds
<1> HIDE DEF segment, r
<1>8. Notes(r)
  BY <1>6, <1>7 DEF Notes
<1> QED BY <1>1, <1>2, <1>4, <1>8, StatusMoves

LEMMA DeadlineMoves ==
  ASSUME Typed, SegmentsOK, Deadline
  PROVE  Moves
<1> DEFINE status == IF Complete(Current) THEN "completed" ELSE "incomplete_acknowledgements"
           segment == [segments[Len(segments)] EXCEPT !.status = status]
           r == Record("connection_closed", None)
<1>1. pc \in Active /\ ~Abandoned /\ Len(segments) \in 1..Len(segments) /\ segments \in Seq(SegmentSet)
      /\ segments[Len(segments)] \in SegmentSet
  BY NotAbandoned DEF Deadline, Active, SegmentsOK, Typed, TypedRecord
<1>2. status \in {"completed", "incomplete_acknowledgements"}
  OBVIOUS
<1>3. segments' = [segments EXCEPT ![Len(segments)].status = status]
  BY DEF Deadline, Conn
<1> HIDE DEF status
<1>4. segment \in SegmentSet /\ segment.status # "disconnected"
      /\ segment.sids = segments[Len(segments)].sids /\ segment.snapshots = segments[Len(segments)].snapshots
  BY <1>1, <1>2 DEF SegmentSet, Statuses
<1>5. segments' = [segments EXCEPT ![Len(segments)] = segment]
  BY <1>1, <1>3
<1>6. Restates(segment)
  BY <1>4, <1>5 DEF Restates
<1>7. Len(segments') = Len(segments)
  BY <1>1, <1>6, Restating
<1>8. r.kind = "connection_closed" /\ r.ordinal = Len(records) + lost + 1 /\ r.conn = Len(segments')
  BY <1>7 DEF Record, Conn
<1>9. Adds(r) /\ lost' = lost /\ tracker' = tracker
  BY DEF Deadline, Write, Adds
<1> HIDE DEF segment, r
<1>10. Notes(r)
  BY <1>8, <1>9 DEF Notes
<1> QED BY <1>1, <1>4, <1>6, <1>10, StatusMoves

LEMMA SubscribedMoves ==
  ASSUME Typed, SegmentsOK, Subscribed
  PROVE  Moves
<1> DEFINE segment == segments[Len(segments)]
           r == Record("subscription_sent", None)
<1>1. pc \in Active /\ ~Abandoned /\ Len(segments) \in 1..Len(segments) /\ segments \in Seq(SegmentSet)
      /\ segment \in SegmentSet /\ segment.status # "disconnected"
  BY NotAbandoned DEF Subscribed, Active, SegmentsOK, Typed, TypedRecord
<1>2. segments' = [segments EXCEPT ![Len(segments)] = segment]
  BY <1>1 DEF Subscribed
<1>3. Restates(segment)
  BY <1>1, <1>2 DEF Restates
<1>4. r.kind = "subscription_sent" /\ r.ordinal = Len(records) + lost + 1 /\ r.conn = Len(segments')
  BY DEF Subscribed, Record, Conn
<1>5. Adds(r) /\ lost' = lost /\ tracker' = tracker
  BY DEF Subscribed, Write, Adds
<1> HIDE DEF r
<1>6. Notes(r)
  BY <1>4, <1>5 DEF Notes
<1> QED BY <1>1, <1>3, <1>6, StatusMoves

LEMMA AttemptMoves ==
  ASSUME Typed, SegmentsOK, Attempt
  PROVE  Moves
<1> DEFINE fresh == [status |-> "attempting", sids |-> [c \in Channels |-> None],
                     snapshots |-> [t \in Tickers |-> 0]]
           r == [Record("connection_attempt", None) EXCEPT !.conn = Conn + 1]
<1>1. segments \in Seq(SegmentSet) /\ Len(segments) \in Nat
      /\ \A c \in 1..Len(segments) : segments[c].status = "disconnected"
  BY DEF Typed, TypedRecord, SegmentsOK, AllDisconnected, Attempt
<1>2. fresh \in SegmentSet /\ fresh.status = "attempting"
      /\ (\A c \in Channels : fresh.sids[c] = None) /\ (\A t \in Tickers : fresh.snapshots[t] = 0)
  BY DEF SegmentSet, Statuses
<1>3. segments' = Append(segments, fresh)
  BY DEF Attempt
<1>4. r.kind = "connection_attempt" /\ r.ordinal = Len(records) + lost + 1 /\ r.conn = Len(segments) + 1
  BY DEF Record, Conn
<1>5. Adds(r) /\ lost' = lost /\ tracker' = tracker
  BY DEF Attempt, Adds
<1> HIDE DEF fresh, r
<1>6. /\ segments' \in Seq(SegmentSet) /\ Len(segments') = Len(segments) + 1
      /\ segments'[Len(segments')] = fresh
      /\ \A c \in 1..Len(segments) : segments'[c] = segments[c]
  BY <1>1, <1>2, <1>3
<1>7. Notes(r)
  BY <1>4, <1>5, <1>6 DEF Notes
<1>8. /\ MovesRecords /\ MovesOrdinals /\ MovesTracker /\ MovesScopes
      /\ \A k \in (Len(records) + 1)..Len(records') : k = Len(records') /\ records'[k] = r
      /\ Len(records') \in (Len(records) + 1)..Len(records')
  BY <1>7, NotesMove
<1>9. MovesSegments
  BY <1>1, <1>6 DEF MovesSegments
<1>10. MovesGaps
  <2>1. ~Abandoned
    BY NotAbandoned DEF Attempt
  <2> QED BY <1>2, <1>4, <1>6, <1>8, <2>1 DEF MovesGaps
<1>11. MovesAcks
  BY <1>2, <1>4, <1>6, <1>8 DEF MovesAcks
<1>12. MovesSnapshots
  <2>1. Len(segments') # Len(segments)
    BY <1>1, <1>6
  <2> QED BY <1>2, <1>4, <1>6, <1>8, <2>1 DEF MovesSnapshots, SnapshotOf, DataFrame
<1> QED BY <1>8, <1>9, <1>10, <1>11, <1>12 DEF Moves

FrameKind(f) == IF f.type = "binary" THEN "binary_frame_rejected" ELSE "inbound_frame"

\* A frame's record, then at most the one of its acknowledgement.
RecordsFrame(f, rest) ==
  /\ MovesRecords /\ lost' = lost /\ tracker' = Observe(f) /\ Len(segments') = Len(segments)
  /\ records'[Len(records) + 1].kind = FrameKind(f) /\ records'[Len(records) + 1].data = f
  /\ records'[Len(records) + 1].ordinal = Len(records) + lost + 1
  /\ \A k \in (Len(records) + 2)..Len(records') :
       k = Len(records') /\ k = Len(records) + 2 /\ records'[k] = rest
       /\ rest.kind # "inbound_frame" /\ rest.ordinal = Len(records) + lost + 2

LEMMA FramesMove ==
  ASSUME Typed, NEW f \in Frames, NEW rest, RecordsFrame(f, rest)
  PROVE  MovesOrdinals /\ MovesTracker
<1>1. Len(records) \in Nat /\ lost \in Nat
      /\ \A k \in (Len(records) + 1)..Len(records') : k = Len(records) + 1 \/ k \in (Len(records) + 2)..Len(records')
  BY DEF Typed, TypedRecord
<1>2. MovesOrdinals
  <2>1. lost' = 0 => \A k \in (Len(records) + 1)..Len(records') : records'[k].ordinal = k
    BY <1>1 DEF RecordsFrame
  <2> QED BY <1>1, <2>1 DEF MovesOrdinals, RecordsFrame
<1>3. \A k \in (Len(records) + 2)..Len(records') : ~Sequenced(records'[k])
  BY DEF RecordsFrame, Sequenced
<1>4. \A p \in tracker'.previous : p.seq \in Int
  BY ObserveTyped DEF RecordsFrame
<1>5. CASE "seq" \in DOMAIN f /\ f.seq # None
  <2>1. Sequenced(records'[Len(records) + 1])
    BY <1>5, FramesAssumption DEF Sequenced, RecordsFrame, FrameKind
  <2>2. Len(segments') = Len(segments) /\ tracker' = Observe(f) /\ records'[Len(records) + 1].data = f
    BY DEF RecordsFrame
  <2> QED BY <1>2, <1>3, <1>4, <2>1, <2>2 DEF MovesTracker
<1>6. CASE ~("seq" \in DOMAIN f /\ f.seq # None)
  <2>1. tracker' = tracker
    BY <1>6 DEF RecordsFrame, Observe
  <2>2. ~Sequenced(records'[Len(records) + 1])
    BY <1>6 DEF RecordsFrame, Sequenced
  <2>3. \A k \in (Len(records) + 1)..Len(records') : ~Sequenced(records'[k])
    BY <1>1, <1>3, <2>2
  <2> QED BY <1>2, <1>4, <2>1, <2>3 DEF MovesTracker
<1> QED BY <1>5, <1>6

\* The frame's record and the record after it, as Receive writes them.
Frame(f) == Record(FrameKind(f), f)
After(f) == [Frame(f) EXCEPT !.ordinal = @ + 1, !.kind = "subscription_acknowledged"]

LEMMA FrameAlone ==
  ASSUME Typed, NEW f \in Frames, Adds(Frame(f)), Len(segments') = Len(segments),
         lost' = lost, tracker' = Observe(f)
  PROVE  RecordsFrame(f, Frame(f)) /\ Len(records') = Len(records) + 1 /\ Len(records) \in Nat
<1>1. Len(records) \in Nat
  BY DEF Typed, TypedRecord
<1>2. /\ Frame(f).kind = FrameKind(f) /\ Frame(f).data = f /\ Frame(f).conn = Len(segments)
      /\ Frame(f).ordinal = Len(records) + lost + 1
  BY DEF Frame, Record, Conn
<1>3. /\ Len(records') = Len(records) + 1 /\ records'[Len(records) + 1] = Frame(f)
      /\ \A i \in 1..Len(records) : records'[i] = records[i]
      /\ records' \in Seq(ToSet(records'))
  BY AddsARecord
<1>4. \A k \in (Len(records) + 1)..Len(records') : k = Len(records) + 1
  BY <1>1, <1>3
<1>5. MovesRecords
  BY <1>1, <1>2, <1>3, <1>4 DEF MovesRecords, RecordKinds, FrameKind
<1>6. (Len(records) + 2)..Len(records') = {}
  BY <1>1, <1>3
<1> QED BY <1>1, <1>2, <1>3, <1>5, <1>6 DEF RecordsFrame

LEMMA FrameAndMore ==
  ASSUME Typed, NEW f \in Frames,
         AddsTwo(Frame(f), After(f)), Len(segments') = Len(segments),
         lost' = lost, tracker' = Observe(f)
  PROVE  /\ RecordsFrame(f, After(f)) /\ Len(records') = Len(records) + 2
         /\ Len(records) \in Nat /\ records'[Len(records) + 2] = After(f)
         /\ After(f).kind = "subscription_acknowledged" /\ After(f).data = f
         /\ After(f).conn = Len(segments)
<1>1. Len(records) \in Nat /\ lost \in Nat
  BY DEF Typed, TypedRecord
<1>2. /\ Frame(f).kind = FrameKind(f) /\ Frame(f).data = f /\ Frame(f).conn = Len(segments)
      /\ Frame(f).ordinal = Len(records) + lost + 1
  BY DEF Frame, Record, Conn
<1>3. /\ After(f).kind = "subscription_acknowledged" /\ After(f).data = f
      /\ After(f).conn = Len(segments)
      /\ After(f).ordinal = Len(records) + lost + 2
  BY <1>1 DEF After, Frame, Record, Conn
<1>4. /\ Len(records') = Len(records) + 2 /\ records'[Len(records) + 1] = Frame(f)
      /\ records'[Len(records) + 2] = After(f)
      /\ \A i \in 1..Len(records) : records'[i] = records[i]
      /\ records' \in Seq(ToSet(records'))
  BY AddsTwoRecords
<1>5. \A k \in (Len(records) + 1)..Len(records') : k = Len(records) + 1 \/ k = Len(records) + 2
  BY <1>1, <1>4
<1>6. MovesRecords
  BY <1>1, <1>2, <1>3, <1>4, <1>5 DEF MovesRecords, RecordKinds, FrameKind
<1>7. \A k \in (Len(records) + 2)..Len(records') : k = Len(records) + 2
  BY <1>1, <1>4
<1> QED BY <1>1, <1>2, <1>3, <1>4, <1>6, <1>7 DEF RecordsFrame

\* A refused frame is recorded, and its connection is left.
LEMMA RefusalMoves ==
  ASSUME Typed, SegmentsOK, pc = "receive", Abandoned', NEW f \in Frames,
         Adds(Frame(f)), lost' = lost, tracker' = Observe(f), segments' = segments
  PROVE  Moves
<1> DEFINE segment == segments[Len(segments)]
<1>1. Len(segments) \in 1..Len(segments) /\ segments \in Seq(SegmentSet) /\ segment \in SegmentSet
      /\ segment.status # "disconnected" /\ pc \in Active /\ ~Abandoned
  BY NotAbandoned DEF Active, SegmentsOK, Typed, TypedRecord
<1>2. segments' = [segments EXCEPT ![Len(segments)] = segment]
  BY <1>1
<1>3. Restates(segment)
  BY <1>1, <1>2 DEF Restates
<1> HIDE DEF segment
<1>4. /\ MovesSegments /\ Len(segments') = Len(segments) /\ Len(segments) \in 1..Len(segments)
      /\ segments'[Len(segments)] = segment
  BY <1>1, <1>3, Restating
<1>5. RecordsFrame(f, Frame(f)) /\ Len(records') = Len(records) + 1 /\ Len(records) \in Nat
  BY <1>4, FrameAlone
<1>6. MovesRecords /\ MovesOrdinals /\ MovesTracker
  BY <1>5, FramesMove DEF RecordsFrame
<1>7. \A k \in (Len(records) + 1)..Len(records') :
        k = Len(records') /\ records'[k].kind \in {"inbound_frame", "binary_frame_rejected"}
  BY <1>5 DEF RecordsFrame, FrameKind
<1>8. Len(records') \in (Len(records) + 1)..Len(records')
  BY <1>5
<1>9. MovesGaps
  BY <1>1, <1>4, <1>7, <1>8 DEF MovesGaps, segment
<1>10. MovesAcks /\ MovesScopes /\ MovesSnapshots
  BY <1>4, <1>7 DEF MovesAcks, MovesScopes, MovesSnapshots, segment
<1> QED BY <1>4, <1>6, <1>9, <1>10 DEF Moves

\* What a frame that is not refused is.
LEMMA AcceptedFrame ==
  ASSUME NEW f \in Frames, Failure(f) = None
  PROVE  /\ f.type # "binary" /\ FrameKind(f) = "inbound_frame"
         /\ f.type = "subscribed" => Acknowledges(f)
         /\ f.type \in DataTypes => f.ticker \in Tickers /\ BoundChannel(f.sid) = N!ExpectedChannel(f)
<1>1. None \notin {"UnsupportedBinaryFrame", "SubscriptionAckMismatch", "UnboundSourceScope",
                   "MarketMembershipMismatch"}
  BY FramesAssumption
<1>2. f.type # "binary"
  <2>1. f.type = "binary" => Failure(f) = "UnsupportedBinaryFrame"
    BY DEF Failure, DataTypes
  <2> QED BY <1>1, <2>1
<1>3. f.type = "subscribed" => Acknowledges(f)
  <2>1. f.type = "subscribed" /\ ~Acknowledges(f) => Failure(f) = "SubscriptionAckMismatch"
    BY DEF Failure, DataTypes
  <2> QED BY <1>1, <2>1
<1>4. ASSUME f.type \in DataTypes
      PROVE  f.ticker \in Tickers /\ BoundChannel(f.sid) = N!ExpectedChannel(f)
  <2> DEFINE expected == IF f.type = "trade" THEN "trade" ELSE "orderbook_delta"
  <2>1. f.type \notin {"binary", "malformed", "subscribed", "error"}
    BY <1>4 DEF DataTypes
  <2>2. Failure(f) = IF BoundChannel(f.sid) # expected THEN "UnboundSourceScope"
                     ELSE IF f.ticker \notin Tickers THEN "MarketMembershipMismatch" ELSE None
    BY <1>4, <2>1 DEF Failure
  <2>3. expected = N!ExpectedChannel(f)
    BY DEF N!ExpectedChannel
  <2> QED BY <1>1, <2>2, <2>3
<1> QED BY <1>2, <1>3, <1>4 DEF FrameKind

LEMMA BoundChannelFound ==
  ASSUME NEW sid, BoundChannel(sid) \in Channels
  PROVE  Current.sids[BoundChannel(sid)] # None /\ Current.sids[BoundChannel(sid)] = sid
<1> DEFINE bound == {c \in Channels : Current.sids[c] # None /\ Current.sids[c] = sid}
<1>1. None \notin Channels
  BY FramesAssumption DEF Channels
<1>2. BoundChannel(sid) = IF bound = {} THEN None ELSE CHOOSE c \in bound : TRUE
  BY DEF BoundChannel
<1> HIDE DEF bound
<1>3. bound # {}
  BY <1>1, <1>2
<1>4. BoundChannel(sid) \in bound
  BY <1>2, <1>3
<1> QED BY <1>4 DEF bound

\* An accepted frame of data, or one that says nothing to the connection.
LEMMA FrameAloneMoves ==
  ASSUME Typed, SegmentsOK, pc \in Active, ~Abandoned, NEW f \in Frames, Failure(f) = None,
         f.type # "subscribed",
         Adds(Frame(f)), lost' = lost, tracker' = Observe(f),
         NEW segment, Restates(segment), segment.sids = segments[Len(segments)].sids
  PROVE  /\ MovesRecords /\ MovesSegments /\ MovesGaps /\ MovesAcks /\ MovesScopes /\ MovesOrdinals /\ MovesTracker
         /\ \A k \in (Len(records) + 1)..Len(records') :
              /\ k = Len(records') /\ records'[k].kind = "inbound_frame" /\ records'[k].data = f
              /\ records'[k].conn = Len(segments)
         /\ Len(records) \in Nat /\ Len(records') = Len(records) + 1
         /\ Len(segments') = Len(segments) /\ Len(segments) \in 1..Len(segments)
         /\ segments'[Len(segments)] = segment /\ segments[Len(segments)] \in SegmentSet
<1>1. /\ MovesSegments /\ Len(segments') = Len(segments) /\ Len(segments) \in 1..Len(segments)
      /\ segments'[Len(segments)] = segment /\ segment.status # "disconnected"
      /\ segments[Len(segments)] \in SegmentSet
  BY Restating
<1>2. RecordsFrame(f, Frame(f)) /\ Len(records') = Len(records) + 1 /\ Len(records) \in Nat
  BY <1>1, FrameAlone
<1>3. MovesRecords /\ MovesOrdinals /\ MovesTracker
  BY <1>2, FramesMove DEF RecordsFrame
<1>4. /\ FrameKind(f) = "inbound_frame"
      /\ f.type \in DataTypes => f.ticker \in Tickers /\ BoundChannel(f.sid) = N!ExpectedChannel(f)
  BY AcceptedFrame
<1>5. \A k \in (Len(records) + 1)..Len(records') :
        /\ k = Len(records') /\ records'[k].kind = "inbound_frame" /\ records'[k].data = f
        /\ records'[k].conn = Len(segments)
  BY <1>1, <1>2, <1>3, <1>4 DEF RecordsFrame, MovesRecords
<1>6. MovesGaps
  BY <1>1, <1>2, <1>5 DEF MovesGaps
<1>7. MovesAcks
  BY <1>1, <1>5 DEF MovesAcks
<1>8. MovesScopes
  <2>1. ASSUME f.type \in DataTypes
        PROVE  /\ f.ticker \in Tickers /\ N!ExpectedChannel(f) \in Channels
               /\ segments[Len(segments)].sids[N!ExpectedChannel(f)] # None
               /\ segments[Len(segments)].sids[N!ExpectedChannel(f)] = f.sid
    <3>1. BoundChannel(f.sid) = N!ExpectedChannel(f) /\ f.ticker \in Tickers
      BY <1>4, <2>1
    <3>2. N!ExpectedChannel(f) \in Channels
      BY DEF N!ExpectedChannel, Channels
    <3>3. BoundChannel(f.sid) \in Channels
      BY <3>1, <3>2
    <3>4. Current.sids[BoundChannel(f.sid)] # None /\ Current.sids[BoundChannel(f.sid)] = f.sid
      BY <3>3, BoundChannelFound
    <3> QED BY <3>1, <3>2, <3>4 DEF Current, Conn
  <2> QED BY <1>1, <1>5, <2>1 DEF MovesScopes, DataFrame
<1> QED BY <1>1, <1>2, <1>3, <1>5, <1>6, <1>7, <1>8

LEMMA SnapshotMoves ==
  ASSUME Typed, SegmentsOK, pc \in Active, ~Abandoned, NEW f \in Frames, Failure(f) = None,
         f.type = "orderbook_snapshot",
         Adds(Frame(f)), lost' = lost, tracker' = Observe(f),
         segments' = [segments EXCEPT ![Conn].snapshots[f.ticker] = @ + 1]
  PROVE  Moves
<1> DEFINE old == segments[Len(segments)]
           segment == [old EXCEPT !.snapshots[f.ticker] = @ + 1]
<1>1. Len(segments) \in 1..Len(segments) /\ segments \in Seq(SegmentSet) /\ old \in SegmentSet
      /\ old.status # "disconnected"
  BY DEF Active, SegmentsOK, Typed, TypedRecord
<1>2. f.ticker \in Tickers /\ f.type \in DataTypes /\ f.type # "subscribed"
  BY AcceptedFrame DEF DataTypes
<1>3. segments' = [segments EXCEPT ![Len(segments)] = segment]
  BY <1>1 DEF Conn
<1> HIDE DEF old
<1>4. /\ segment \in SegmentSet /\ segment.status # "disconnected" /\ segment.sids = old.sids
      /\ segment.snapshots[f.ticker] = old.snapshots[f.ticker] + 1
      /\ \A t \in Tickers : t # f.ticker => segment.snapshots[t] = old.snapshots[t]
  <2> DEFINE snapshots == [old.snapshots EXCEPT ![f.ticker] = @ + 1]
  <2>1. old.snapshots \in [Tickers -> Nat]
    BY <1>1 DEF SegmentSet
  <2>2. /\ snapshots \in [Tickers -> Nat] /\ snapshots[f.ticker] = old.snapshots[f.ticker] + 1
        /\ \A t \in Tickers : t # f.ticker => snapshots[t] = old.snapshots[t]
    BY <1>2, <2>1
  <2>3. segment = [old EXCEPT !.snapshots = snapshots]
    BY <1>1 DEF SegmentSet
  <2> HIDE DEF snapshots, segment
  <2>4. segment.snapshots = snapshots /\ segment.status = old.status /\ segment.sids = old.sids
        /\ (snapshots \in [Tickers -> Nat] => segment \in SegmentSet)
    BY <1>1, <2>3 DEF SegmentSet
  <2> QED BY <1>1, <2>2, <2>4
<1> HIDE DEF segment
<1>5. Restates(segment) /\ segment.sids = segments[Len(segments)].sids
  BY <1>3, <1>4 DEF Restates, old
<1>6. /\ MovesRecords /\ MovesSegments /\ MovesGaps /\ MovesAcks /\ MovesScopes /\ MovesOrdinals /\ MovesTracker
      /\ \A k \in (Len(records) + 1)..Len(records') :
           /\ k = Len(records') /\ records'[k].kind = "inbound_frame" /\ records'[k].data = f
           /\ records'[k].conn = Len(segments)
      /\ Len(records) \in Nat /\ Len(records') = Len(records) + 1
      /\ Len(segments') = Len(segments) /\ Len(segments) \in 1..Len(segments)
      /\ segments'[Len(segments)] = segment
  BY <1>2, <1>5, FrameAloneMoves
<1>7. MovesSnapshots
  <2>1. \A t \in Tickers : t = f.ticker => SnapshotOf(records'[Len(records')], Len(segments), t)
    BY <1>2, <1>6 DEF SnapshotOf, DataFrame
  <2>2. \A t \in Tickers : t # f.ticker =>
          \A k \in (Len(records) + 1)..Len(records') : ~SnapshotOf(records'[k], Len(segments), t)
    BY <1>6 DEF SnapshotOf
  <2> QED BY <1>4, <1>6, <2>1, <2>2 DEF MovesSnapshots, old
<1> QED BY <1>6, <1>7 DEF Moves

LEMMA OtherFrameMoves ==
  ASSUME Typed, SegmentsOK, pc \in Active, ~Abandoned, NEW f \in Frames, Failure(f) = None,
         f.type \notin {"subscribed", "orderbook_snapshot"},
         Adds(Frame(f)), lost' = lost, tracker' = Observe(f), segments' = segments
  PROVE  Moves
<1> DEFINE segment == segments[Len(segments)]
<1>1. Len(segments) \in 1..Len(segments) /\ segments \in Seq(SegmentSet) /\ segment \in SegmentSet
      /\ segment.status # "disconnected"
  BY DEF Active, SegmentsOK, Typed, TypedRecord
<1>2. segments' = [segments EXCEPT ![Len(segments)] = segment]
  BY <1>1
<1>3. Restates(segment) /\ segment.sids = segments[Len(segments)].sids
  BY <1>1, <1>2 DEF Restates
<1>4. f.type # "subscribed"
  OBVIOUS
<1> HIDE DEF segment
<1>5. /\ MovesRecords /\ MovesSegments /\ MovesGaps /\ MovesAcks /\ MovesScopes /\ MovesOrdinals /\ MovesTracker
      /\ \A k \in (Len(records) + 1)..Len(records') :
           /\ k = Len(records') /\ records'[k].kind = "inbound_frame" /\ records'[k].data = f
           /\ records'[k].conn = Len(segments)
      /\ Len(segments') = Len(segments) /\ segments'[Len(segments)] = segment
  BY <1>3, <1>4, FrameAloneMoves
<1>6. MovesSnapshots
  BY <1>5 DEF MovesSnapshots, SnapshotOf, segment
<1> QED BY <1>5, <1>6 DEF Moves

\* An acknowledgement is bound.
Binds(f) == segments' = [segments EXCEPT ![Conn].sids[f.channel] = f.sid]

LEMMA Binding ==
  ASSUME Typed, SegmentsOK, pc \in Active, NEW f \in Frames, Failure(f) = None, f.type = "subscribed",
         Binds(f)
  PROVE  /\ MovesSegments /\ Len(segments') = Len(segments) /\ Len(segments) \in 1..Len(segments)
         /\ f.channel \in Channels /\ FrameKind(f) = "inbound_frame" /\ f.type \notin DataTypes
         /\ segments'[Len(segments)].status # "disconnected"
         /\ segments'[Len(segments)].snapshots = segments[Len(segments)].snapshots
         /\ segments'[Len(segments)].sids[f.channel] = f.sid
         /\ \A c \in Channels : c # f.channel =>
              segments'[Len(segments)].sids[c] = segments[Len(segments)].sids[c]
<1> DEFINE old == segments[Len(segments)]
           segment == [old EXCEPT !.sids[f.channel] = f.sid]
<1>1. Len(segments) \in 1..Len(segments) /\ segments \in Seq(SegmentSet) /\ old \in SegmentSet
      /\ old.status # "disconnected"
  BY DEF Active, SegmentsOK, Typed, TypedRecord
<1>2. f.channel \in Channels /\ FrameKind(f) = "inbound_frame" /\ f.type \notin DataTypes
  BY AcceptedFrame DEF Acknowledges, DataTypes
<1>3. segments' = [segments EXCEPT ![Len(segments)] = segment]
  BY <1>1 DEF Binds, Conn
<1> HIDE DEF old
<1>4. /\ segment \in SegmentSet /\ segment.status # "disconnected" /\ segment.snapshots = old.snapshots
      /\ segment.sids[f.channel] = f.sid
      /\ \A c \in Channels : c # f.channel => segment.sids[c] = old.sids[c]
  <2> DEFINE Sids == {g.sid : g \in {h \in Frames : h.type = "subscribed"}} \union {None}
             sids == [old.sids EXCEPT ![f.channel] = f.sid]
  <2>1. f.sid \in Sids
    OBVIOUS
  <2>2. old.sids \in [Channels -> Sids]
    BY <1>1 DEF SegmentSet
  <2> HIDE DEF Sids
  <2>3. /\ sids \in [Channels -> Sids] /\ sids[f.channel] = f.sid
        /\ \A c \in Channels : c # f.channel => sids[c] = old.sids[c]
    BY <1>2, <2>1, <2>2
  <2>4. segment = [old EXCEPT !.sids = sids]
    BY <1>1 DEF SegmentSet
  <2> HIDE DEF sids, segment
  <2>5. segment.sids = sids /\ segment.status = old.status /\ segment.snapshots = old.snapshots
        /\ (sids \in [Channels -> Sids] => segment \in SegmentSet)
    BY <1>1, <2>4 DEF SegmentSet, Sids
  <2> QED BY <1>1, <2>3, <2>5
<1> HIDE DEF segment
<1>5. Restates(segment)
  BY <1>3, <1>4 DEF Restates
<1>6. /\ MovesSegments /\ Len(segments') = Len(segments) /\ Len(segments) \in 1..Len(segments)
      /\ segments'[Len(segments)] = segment
  BY <1>5, Restating
<1> QED BY <1>2, <1>4, <1>6 DEF old

LEMMA AcknowledgementMoves ==
  ASSUME Typed, SegmentsOK, pc \in Active, ~Abandoned, NEW f \in Frames, Failure(f) = None,
         f.type = "subscribed",
         AddsTwo(Frame(f), After(f)), lost' = lost, tracker' = Observe(f),
         Binds(f)
  PROVE  Moves
<1> DEFINE n == Len(segments)
           ack == After(f)
<1>1. /\ MovesSegments /\ Len(segments') = n /\ n \in 1..n
      /\ f.channel \in Channels /\ FrameKind(f) = "inbound_frame" /\ f.type \notin DataTypes
      /\ segments'[n].status # "disconnected" /\ segments'[n].snapshots = segments[n].snapshots
      /\ segments'[n].sids[f.channel] = f.sid
      /\ \A c \in Channels : c # f.channel => segments'[n].sids[c] = segments[n].sids[c]
  BY Binding
<1>2. /\ RecordsFrame(f, ack) /\ Len(records') = Len(records) + 2
      /\ Len(records) \in Nat /\ records'[Len(records) + 2] = ack
      /\ ack.kind = "subscription_acknowledged" /\ ack.data = f /\ ack.conn = n
  BY <1>1, FrameAndMore
<1> HIDE DEF ack
<1>3. MovesRecords /\ MovesOrdinals /\ MovesTracker
  BY <1>2, FramesMove DEF RecordsFrame
<1>4. \A k \in (Len(records) + 1)..Len(records') :
        \/ k = Len(records) + 1 /\ records'[k].kind = "inbound_frame" /\ records'[k].data = f
        \/ k = Len(records) + 2 /\ records'[k] = ack
  BY <1>1, <1>2 DEF RecordsFrame
<1>5. MovesGaps
  <2>1. records'[Len(records')].kind = "subscription_acknowledged"
    BY <1>2
  <2> QED BY <1>1, <1>2, <1>4, <2>1 DEF MovesGaps
<1>6. MovesAcks
  <2>1. Len(records) + 2 \in (Len(records) + 1)..Len(records')
        /\ AckOf(records'[Len(records) + 2], n, f.channel, f.sid)
    BY <1>2 DEF AckOf
  <2>2. \A k \in (Len(records) + 1)..Len(records') :
          records'[k].kind = "subscription_acknowledged" => records'[k].data.channel \in Channels
    BY <1>1, <1>2, <1>4
  <2> QED BY <1>1, <2>1, <2>2 DEF MovesAcks
<1>7. \A k \in (Len(records) + 1)..Len(records') : ~DataFrame(records'[k])
  BY <1>1, <1>2, <1>4 DEF DataFrame
<1>8. MovesScopes /\ MovesSnapshots
  BY <1>1, <1>7 DEF MovesScopes, MovesSnapshots, SnapshotOf
<1> QED BY <1>1, <1>3, <1>5, <1>6, <1>8 DEF Moves

\* The record of the binding is lost, and the connection is left.
LEMMA AcknowledgementUnwrittenMoves ==
  ASSUME Typed, SegmentsOK, NEW f \in Frames, AcknowledgementUnwritten(f)
  PROVE  Moves
<1> DEFINE n == Len(segments)
<1>1. /\ pc = "receive" /\ pc \in Active /\ ~Abandoned /\ Abandoned'
      /\ f.type = "subscribed" /\ Failure(f) = None /\ Binds(f) /\ tracker' = Observe(f)
      /\ lost' = lost + 1
  BY NotAbandoned DEF AcknowledgementUnwritten, Active, Abandoned, Binds
<1>2. /\ MovesSegments /\ Len(segments') = n /\ n \in 1..n
      /\ FrameKind(f) = "inbound_frame" /\ segments'[n].status # "disconnected"
  BY <1>1, Binding
<1>3. Adds(Frame(f))
  BY <1>2 DEF AcknowledgementUnwritten, Write, Adds, Frame
<1>4. /\ Frame(f).kind = "inbound_frame" /\ Frame(f).data = f /\ Frame(f).conn = n
  BY <1>2 DEF Frame, Record, Conn
<1>5. /\ Len(records') = Len(records) + 1 /\ records'[Len(records) + 1] = Frame(f)
      /\ \A i \in 1..Len(records) : records'[i] = records[i]
      /\ records' \in Seq(ToSet(records')) /\ Len(records) \in Nat /\ lost \in Nat
  BY <1>3, AddsARecord DEF Typed, TypedRecord
<1>6. \A k \in (Len(records) + 1)..Len(records') : k = Len(records') /\ records'[k] = Frame(f)
  BY <1>5
<1>7. MovesRecords
  BY <1>2, <1>4, <1>5, <1>6 DEF MovesRecords, RecordKinds
<1>8. MovesGaps
  BY <1>1, <1>2, <1>4, <1>5, <1>6 DEF MovesGaps
<1>9. MovesAcks /\ MovesScopes /\ MovesSnapshots
  BY <1>1, <1>4, <1>6 DEF MovesAcks, MovesScopes, MovesSnapshots
<1>10. MovesOrdinals
  BY <1>1, <1>5 DEF MovesOrdinals
<1>11. MovesTracker
  BY <1>1, <1>5, ObserveTyped DEF MovesTracker
<1> QED BY <1>2, <1>7, <1>8, <1>9, <1>10, <1>11 DEF Moves

LEMMA ReceiveMoves ==
  ASSUME Typed, SegmentsOK, NEW f \in Frames, Receive(f)
  PROVE  Moves
<1>1. pc = "receive" /\ pc \in Active /\ ~Abandoned /\ lost' = lost /\ tracker' = Observe(f)
  BY NotAbandoned DEF Receive, Active
<1>2. CASE Failure(f) # None
  <2>1. Adds(Frame(f)) /\ segments' = segments /\ Abandoned'
    BY <1>2 DEF Receive, Adds, Frame, FrameKind, Abandoned
  <2> QED BY <1>1, <2>1, RefusalMoves
<1>3. CASE Failure(f) = None
  <2>1. CASE f.type = "subscribed"
    <3>1. AddsTwo(Frame(f), After(f))
          /\ Binds(f)
      BY <1>3, <2>1 DEF Receive, AddsTwo, Frame, FrameKind, After, Binds
    <3> QED BY <1>1, <1>3, <2>1, <3>1, AcknowledgementMoves
  <2>2. CASE f.type = "orderbook_snapshot"
    <3>1. Adds(Frame(f)) /\ segments' = [segments EXCEPT ![Conn].snapshots[f.ticker] = @ + 1]
      BY <1>3, <2>2 DEF Receive, Adds, Frame, FrameKind
    <3> QED BY <1>1, <1>3, <2>2, <3>1, SnapshotMoves
  <2>3. CASE f.type \notin {"subscribed", "orderbook_snapshot"}
    <3>1. Adds(Frame(f)) /\ segments' = segments
      BY <1>3, <2>3 DEF Receive, Adds, Frame, FrameKind
    <3> QED BY <1>1, <1>3, <2>3, <3>1, OtherFrameMoves
  <2> QED BY <2>1, <2>2, <2>3
<1> QED BY <1>2, <1>3

-----------------------------------------------------------------------------
(* 5. The record: every step keeps what is said of it. *)

LEMMA MovesKeepRecord ==
  ASSUME Typed, Recorded, Moves
  PROVE  Recorded'
<1>1. ConnectionsOK'
  BY MovesKeepConnections DEF Recorded, Moves
<1>2. GapsOK'
  BY MovesKeepGaps DEF Recorded, Moves
<1>3. AcksOK'
  BY MovesKeepAcks DEF Recorded, Moves
<1>4. UnscopedFrameEndsConnection'
  BY <1>2, MovesKeepScopes DEF Recorded, Moves
<1>5. SnapshotsOK'
  BY MovesKeepSnapshots DEF Recorded, Moves
<1>6. OrdinalsOK'
  BY MovesKeepOrdinals DEF Recorded, Moves
<1>7. TrackerOK'
  BY MovesKeepTracker DEF Recorded, Moves
<1> QED BY <1>1, <1>2, <1>3, <1>4, <1>5, <1>6, <1>7 DEF Recorded

LEMMA MovesKeepTypes ==
  ASSUME Typed, Moves
  PROVE  TypedRecord'
<1>1. segments' \in Seq(SegmentSet) /\ lost' \in Nat /\ records' \in Seq(ToSet(records'))
      /\ Len(segments') \in Nat /\ \A p \in tracker'.previous : p.seq \in Int
  BY DEF Moves, MovesSegments, MovesOrdinals, MovesRecords, MovesTracker
<1>2. ASSUME NEW i \in 1..Len(records')
      PROVE  /\ records'[i].kind \in RecordKinds /\ records'[i].conn \in Nat
             /\ records'[i].kind = "inbound_frame" => records'[i].data \in Frames
  <2>1. CASE i \in 1..Len(records)
    BY <2>1, NewRecords DEF Moves, Typed, TypedRecord
  <2>2. CASE i \in (Len(records) + 1)..Len(records')
    BY <1>1, <2>2 DEF Moves, MovesRecords
  <2> QED BY <2>1, <2>2, NewRecords DEF Moves
<1>3. DOMAIN records' = 1..Len(records')
  BY <1>1
<1> QED BY <1>1, <1>2, <1>3 DEF TypedRecord

\* Steps that leave the file, the summaries and the tracker alone; what was
\* abandoned stays so.
Quiet == UNCHANGED <<segments, records, lost, tracker>> /\ (Abandoned => Abandoned')

LEMMA QuietKeepsRecord ==
  ASSUME TypedRecord, Recorded, Quiet
  PROVE  TypedRecord' /\ Recorded'
<1> USE DEF Quiet
<1>1. TypedRecord'
  BY DEF TypedRecord
<1>2. ConnectionsOK'
  BY DEF Recorded, ConnectionsOK
<1>3. GapsOK'
  BY DEF Recorded, GapsOK, Failing
<1>4. AcksOK'
  BY DEF Recorded, AcksOK, Failing
<1>5. UnscopedFrameEndsConnection'
  BY DEF Recorded, UnscopedFrameEndsConnection
<1>6. SnapshotsOK'
  BY DEF Recorded, SnapshotsOK, Snapshots, Failing
<1>7. OrdinalsOK'
  BY DEF Recorded, OrdinalsOK, Failing
<1>8. TrackerOK'
  BY DEF Recorded, TrackerOK, Follows
<1> QED BY <1>1, <1>2, <1>3, <1>4, <1>5, <1>6, <1>7, <1>8 DEF Recorded

-----------------------------------------------------------------------------
(* 6. The control: every step keeps what is said of the connections, of the    *)
(* pace of the attempts and of the verdict.                                    *)

LEMMA EarlierDisconnected ==
  ASSUME Typed, Moves
  PROVE  /\ \A c \in DOMAIN segments' : c < Len(segments') => segments'[c].status = "disconnected"
         /\ Len(segments') > 0
<1>1. Len(segments') \in Nat /\ segments' \in Seq(SegmentSet) /\ Len(segments') > 0
      /\ \A c \in 1..(Len(segments') - 1) : segments'[c].status = "disconnected"
  BY DEF Moves, MovesSegments
<1> QED BY <1>1

\* Until the capture is done there is no verdict to keep.
LEMMA NoVerdictYet ==
  ASSUME VerdictOK, pc # "done", verdict' = verdict
  PROVE  VerdictOK'
BY DEF VerdictOK

LEMMA FailuresControl ==
  ASSUME Typed, Controlled, pc \in Active, Moves, Disconnects, AfterFailure, UNCHANGED <<clock, shutdown, verdict>>
  PROVE  Controlled'
<1>1. VerdictOK'
  BY NoVerdictYet DEF Controlled, Active
<1>2. clock \in Nat /\ Duration \in Nat /\ MaxDelay \in Nat \ {0} /\ delay \in 1..MaxDelay /\ clock <= Duration
      /\ Len(segments) \in Nat /\ Len(segments) <= clock + 1 /\ Len(segments') = Len(segments)
  BY CaptureAssumption, Disconnecting DEF Typed, TypedRecord, Scalars, Controlled, Paced
<1>3. \/ /\ clock < Duration /\ pc' = "sleep" /\ wake' = clock + Smaller(delay, Duration - clock)
         /\ delay' = Smaller(2 * delay, MaxDelay)
      \/ clock >= Duration /\ pc' = "loop" /\ wake' = wake /\ delay' = delay
  BY <1>2 DEF AfterFailure
<1>4. Smaller(2 * delay, MaxDelay) \in 1..MaxDelay
      /\ (clock < Duration => clock + Smaller(delay, Duration - clock) \in (clock + 1)..Duration)
  BY <1>2 DEF Smaller
<1>5. Scalars'
  BY <1>2, <1>3, <1>4 DEF Scalars, Typed
<1>6. Paced'
  BY <1>2, <1>3, <1>4 DEF Paced
<1>7. AllDisconnected'
  BY <1>2, EarlierDisconnected, Disconnecting, NewSegments, Zenon DEF AllDisconnected, Controlled, Moves
<1>8. SegmentsOK'
  BY <1>3, <1>7, EarlierDisconnected DEF SegmentsOK, Active
<1> QED BY <1>1, <1>5, <1>6, <1>8 DEF Controlled

LEMMA TransportFailsControls ==
  ASSUME Typed, Controlled, TransportFails
  PROVE  Controlled'
<1>1. pc \in Active /\ Disconnects /\ AfterFailure /\ UNCHANGED <<clock, shutdown, verdict>>
  BY DEF TransportFails, Active, Disconnects
<1> QED BY <1>1, TransportFailsMoves, FailuresControl DEF Controlled

LEMMA LeftControls ==
  ASSUME Typed, Controlled, Left
  PROVE  Controlled'
<1>1. pc \in Active /\ Disconnects /\ AfterFailure /\ UNCHANGED <<clock, shutdown, verdict>>
  BY DEF Left, Active, Disconnects
<1> QED BY <1>1, LeftMoves, FailuresControl DEF Controlled

LEMMA RecordUnwrittenControls ==
  ASSUME Typed, Controlled, RecordUnwritten
  PROVE  Controlled'
<1>1. pc \in Active /\ Disconnects /\ AfterFailure /\ UNCHANGED <<clock, shutdown, verdict>>
  BY DEF RecordUnwritten, Active, Disconnects
<1> QED BY <1>1, RecordUnwrittenMoves, FailuresControl DEF Controlled

LEMMA ReceiveUnwrittenControls ==
  ASSUME Typed, Controlled, NEW f \in Frames, ReceiveUnwritten(f)
  PROVE  Controlled'
<1>1. pc \in Active /\ Disconnects /\ AfterFailure /\ UNCHANGED <<clock, shutdown, verdict>>
  BY DEF ReceiveUnwritten, Active, Disconnects
<1> QED BY <1>1, ReceiveUnwrittenMoves, FailuresControl DEF Controlled

\* A frame leaves the connection open, whether it is read on or left.
LEMMA FrameControls ==
  ASSUME Typed, Controlled, Moves, pc = "receive", pc' \in {"receive", "leaving"},
         Len(segments') = Len(segments), segments'[Len(segments)].status # "disconnected",
         UNCHANGED <<clock, delay, wake, shutdown, verdict>>
  PROVE  Controlled'
<1>1. Scalars' /\ Paced' /\ VerdictOK'
  BY NoVerdictYet DEF Controlled, Scalars, Paced
<1>2. SegmentsOK'
  BY EarlierDisconnected DEF SegmentsOK, Active
<1> QED BY <1>1, <1>2 DEF Controlled

LEMMA ReceiveControls ==
  ASSUME Typed, Controlled, NEW f \in Frames, Receive(f)
  PROVE  Controlled'
<1>1. /\ Moves /\ SegmentsOK /\ pc = "receive" /\ UNCHANGED <<clock, delay, wake, shutdown, verdict>>
      /\ segments \in Seq(SegmentSet) /\ Len(records) \in Nat
  <2>1. SegmentsOK /\ segments \in Seq(SegmentSet) /\ Len(records) \in Nat
    BY DEF Controlled, Typed, TypedRecord
  <2>2. pc = "receive" /\ UNCHANGED <<clock, delay, wake, shutdown, verdict>>
    BY DEF Receive, timing
  <2> QED BY <2>1, <2>2, ReceiveMoves
<1>2. CASE Failure(f) # None
  <2>1. pc' = "leaving" /\ segments' = segments
    BY <1>2 DEF Receive
  <2>2. segments[Len(segments)].status # "disconnected"
    BY <1>1 DEF SegmentsOK, Active
  <2> QED BY <1>1, <2>1, <2>2, FrameControls
<1>3. CASE Failure(f) = None
  <2>1. pc' = pc /\ Len(segments') = Len(segments)
    BY <1>1, <1>3 DEF Receive
  <2>2. records'[Len(records')].kind # "connection_gap"
    <3>1. FrameKind(f) = "inbound_frame"
      BY <1>3, AcceptedFrame
    <3>2. CASE f.type = "subscribed"
      <4>1. AddsTwo(Frame(f), After(f))
        BY <1>3, <3>2 DEF Receive, AddsTwo, Frame, FrameKind, After
      <4>2. After(f).kind = "subscription_acknowledged"
        BY DEF After, Frame, Record
      <4> QED BY <1>1, <4>1, <4>2, AddsTwoRecords
    <3>3. CASE f.type # "subscribed"
      <4>1. Adds(Frame(f)) /\ Frame(f).kind = "inbound_frame"
        BY <1>3, <3>1, <3>3 DEF Receive, Adds, Frame, FrameKind, Record
      <4> QED BY <1>1, <4>1, AddsARecord
    <3> QED BY <3>2, <3>3
  <2>3. segments'[Len(segments)].status # "disconnected"
    BY <1>1, <2>1, <2>2 DEF Moves, MovesGaps
  <2> QED BY <1>1, <2>1, <2>3, FrameControls
<1> QED BY <1>2, <1>3

LEMMA AcknowledgementUnwrittenControls ==
  ASSUME Typed, Controlled, NEW f \in Frames, AcknowledgementUnwritten(f)
  PROVE  Controlled'
<1>1. /\ Moves /\ SegmentsOK /\ pc = "receive" /\ pc' = "leaving" /\ pc \in Active
      /\ Failure(f) = None /\ f.type = "subscribed" /\ Binds(f)
      /\ UNCHANGED <<clock, delay, wake, shutdown, verdict>>
  BY AcknowledgementUnwrittenMoves DEF Controlled, AcknowledgementUnwritten, timing, Active, Binds
<1>2. Len(segments') = Len(segments) /\ segments'[Len(segments)].status # "disconnected"
  BY <1>1, Binding
<1> QED BY <1>1, <1>2, FrameControls

LEMMA AttemptControls ==
  ASSUME Typed, Controlled, Attempt
  PROVE  Controlled'
<1>1. Moves
  BY AttemptMoves DEF Controlled
<1>2. pc = "loop" /\ clock < Duration /\ pc' = "connect" /\ UNCHANGED <<clock, delay, wake, shutdown, verdict>>
  BY DEF Attempt, timing
<1>3. segments \in Seq(SegmentSet) /\ Len(segments) \in Nat /\ Len(segments) <= clock /\ clock \in Nat
  BY <1>2, CaptureAssumption DEF Typed, TypedRecord, Scalars, Controlled, Paced
<1>4. Len(segments') = Len(segments) + 1 /\ segments'[Len(segments')].status = "attempting"
  BY <1>3 DEF Attempt
<1>5. Scalars' /\ Paced' /\ VerdictOK'
  BY <1>2, <1>3, <1>4, NoVerdictYet DEF Controlled, Scalars, Paced
<1>6. SegmentsOK'
  BY <1>1, <1>2, <1>4, EarlierDisconnected DEF SegmentsOK, Active
<1> QED BY <1>5, <1>6 DEF Controlled

LEMMA ConnectedControls ==
  ASSUME Typed, Controlled, Connected
  PROVE  Controlled'
<1>1. Moves
  BY ConnectedMoves DEF Controlled
<1>2. pc = "connect" /\ pc' = "subscribe" /\ UNCHANGED <<clock, delay, wake, shutdown, verdict>>
  BY DEF Connected, timing
<1>3. segments \in Seq(SegmentSet) /\ Len(segments) \in 1..Len(segments) /\ segments[Len(segments)] \in SegmentSet
  BY <1>2 DEF Typed, TypedRecord, Controlled, SegmentsOK, Active
<1>4. Len(segments') = Len(segments) /\ segments'[Len(segments')].status = "connected"
  BY <1>3 DEF Connected, Conn, SegmentSet
<1>5. Scalars' /\ Paced' /\ VerdictOK'
  BY <1>2, <1>4, NoVerdictYet DEF Controlled, Scalars, Paced
<1>6. SegmentsOK'
  BY <1>1, <1>2, <1>4, EarlierDisconnected DEF SegmentsOK, Active
<1> QED BY <1>5, <1>6 DEF Controlled

LEMMA SubscribedControls ==
  ASSUME Typed, Controlled, Subscribed
  PROVE  Controlled'
<1>1. Moves
  BY SubscribedMoves DEF Controlled
<1>2. pc = "subscribe" /\ pc' = "receive" /\ delay' = 1
      /\ UNCHANGED <<clock, wake, segments, shutdown, verdict>>
  BY DEF Subscribed
<1>3. segments[Len(segments)].status # "disconnected"
  BY <1>2 DEF Controlled, SegmentsOK, Active
<1>4. Scalars' /\ Paced' /\ VerdictOK'
  BY <1>2, CaptureAssumption, NoVerdictYet DEF Controlled, Scalars, Paced
<1>5. SegmentsOK'
  BY <1>1, <1>2, <1>3, EarlierDisconnected DEF SegmentsOK, Active
<1> QED BY <1>4, <1>5 DEF Controlled

LEMMA DeadlineControls ==
  ASSUME Typed, Controlled, Deadline
  PROVE  Controlled'
<1>1. Moves
  BY DeadlineMoves DEF Controlled
<1>2. pc = "receive" /\ pc' = "closing" /\ UNCHANGED <<clock, delay, wake, shutdown, verdict>>
  BY DEF Deadline, timing
<1> DEFINE status == IF Complete(Current) THEN "completed" ELSE "incomplete_acknowledgements"
           r == Record("connection_closed", None)
<1>3. segments \in Seq(SegmentSet) /\ Len(segments) \in 1..Len(segments) /\ segments[Len(segments)] \in SegmentSet
      /\ Len(records) \in Nat
  BY <1>2 DEF Typed, TypedRecord, Controlled, SegmentsOK, Active
<1>4. status # "disconnected" /\ segments' = [segments EXCEPT ![Conn].status = status]
  BY DEF Deadline
<1>5. r.kind = "connection_closed" /\ r.conn = Len(segments) /\ Adds(r)
  BY DEF Record, Conn, Deadline, Write, Adds
<1> HIDE DEF status, r
<1>6. Len(segments') = Len(segments) /\ segments'[Len(segments')].status # "disconnected"
  BY <1>3, <1>4 DEF Conn, SegmentSet
<1>7. Ended'
  BY <1>3, <1>5, <1>6, AddsARecord DEF Ended
<1>8. Scalars' /\ Paced' /\ VerdictOK'
  BY <1>2, <1>6, NoVerdictYet DEF Controlled, Scalars, Paced
<1>9. SegmentsOK'
  BY <1>1, <1>2, <1>6, <1>7, EarlierDisconnected DEF SegmentsOK, Active
<1> QED BY <1>8, <1>9 DEF Controlled

\* The steps that write nothing.
LEMMA TickControls ==
  ASSUME Typed, Controlled, Tick
  PROVE  Quiet /\ Controlled'
<1>1. Quiet /\ clock' = clock + 1 /\ clock < Duration /\ pc \in {"connect", "receive", "leaving", "sleep"}
      /\ UNCHANGED <<pc, delay, wake, shutdown, verdict>>
  BY DEF Tick, Quiet, Abandoned
<1>2. Scalars' /\ Paced' /\ VerdictOK'
  BY <1>1, CaptureAssumption, NoVerdictYet DEF Controlled, Scalars, Paced, Typed, TypedRecord, Quiet
<1>3. SegmentsOK'
  BY <1>1 DEF Controlled, SegmentsOK, AllDisconnected, Ended, Quiet
<1> QED BY <1>1, <1>2, <1>3 DEF Controlled

LEMMA WakeControls ==
  ASSUME Typed, Controlled, Wake
  PROVE  Quiet /\ Controlled'
<1>1. Quiet /\ pc = "sleep" /\ clock >= wake /\ pc' = "loop" /\ UNCHANGED <<clock, delay, wake, shutdown, verdict>>
  BY DEF Wake, Quiet, timing, Abandoned, Stopped
<1>2. Scalars' /\ Paced' /\ VerdictOK'
  BY <1>1, CaptureAssumption, NoVerdictYet DEF Controlled, Scalars, Paced, Typed, TypedRecord, Quiet
<1>3. SegmentsOK'
  BY <1>1 DEF Controlled, SegmentsOK, AllDisconnected, Ended, Quiet, Active
<1> QED BY <1>1, <1>2, <1>3 DEF Controlled

\* The loop returns, at its head or from the connection that closed, or it stops.
LEMMA EndingControls ==
  ASSUME Typed, Controlled, LoopEnds \/ Closed \/ Stops
  PROVE  Quiet /\ Controlled'
<1>1. Quiet /\ pc \notin Stopped /\ pc' = "finish" /\ UNCHANGED <<clock, delay, wake, verdict>>
  BY DEF LoopEnds, Closed, Stops, Quiet, timing, Stopped, Abandoned
<1>2. \/ pc = "loop" /\ shutdown' = "completed"
      \/ pc = "closing" /\ shutdown' = "completed"
      \/ shutdown' = "stopped"
  BY DEF LoopEnds, Closed, Stops
<1>3. Scalars' /\ Paced' /\ VerdictOK'
  BY <1>1, <1>2, NoVerdictYet DEF Controlled, Scalars, Paced, Quiet, Stopped
<1>4. SegmentsOK'
  BY <1>1, <1>2 DEF Controlled, SegmentsOK, AllDisconnected, Ended, Quiet, Active
<1> QED BY <1>1, <1>3, <1>4 DEF Controlled

LEMMA KilledControls ==
  ASSUME Typed, Controlled, Killed
  PROVE  Quiet /\ Controlled'
<1>1. Quiet /\ pc \notin Stopped /\ pc' = "dead" /\ shutdown' = "running" /\ UNCHANGED <<clock, delay, wake, verdict>>
  BY DEF Killed, Quiet, timing, Stopped, Abandoned
<1>2. Scalars' /\ Paced' /\ VerdictOK'
  BY <1>1, NoVerdictYet DEF Controlled, Scalars, Paced, Quiet, Stopped
<1>3. SegmentsOK'
  BY <1>1 DEF Controlled, SegmentsOK, Quiet, Active
<1> QED BY <1>1, <1>2, <1>3 DEF Controlled

\* The verdict is given once, from what the capture returned.
LEMMA FinalizeControls ==
  ASSUME Typed, Controlled, Finalize
  PROVE  Quiet /\ Controlled'
<1>1. Quiet /\ pc = "finish" /\ pc' = "done" /\ verdict' = Verdict /\ UNCHANGED <<clock, delay, wake, shutdown>>
  BY DEF Finalize, Quiet, timing, Stopped, Abandoned
<1>2. Verdict \in {"unusable", "record_only", "strict_eligible"}
      /\ (Verdict = "strict_eligible" => shutdown = "completed")
  BY DEF Verdict
<1>3. Verdict' = Verdict
  BY <1>1 DEF Verdict, Quiet, SegmentReady, Complete
<1>4. Scalars' /\ Paced'
  BY <1>1, <1>2 DEF Controlled, Scalars, Paced, Quiet
<1>5. VerdictOK'
  BY <1>1, <1>2, <1>3 DEF VerdictOK
<1>6. SegmentsOK'
  BY <1>1 DEF Controlled, SegmentsOK, AllDisconnected, Ended, Quiet, Active
<1> QED BY <1>1, <1>4, <1>5, <1>6 DEF Controlled

-----------------------------------------------------------------------------
(* 7. The invariant holds. *)

LEMMA InitEstablishesIInv == Init => IInv
<1> SUFFICES ASSUME Init PROVE IInv
  OBVIOUS
<1>1. segments = <<>> /\ records = <<>> /\ Len(segments) = 0 /\ Len(records) = 0 /\ lost = 0
      /\ tracker.previous = {}
  BY DEF Init
<1>2. DOMAIN segments = {} /\ DOMAIN records = {}
  BY <1>1
<1>3. TypedRecord
  BY <1>1, <1>2 DEF TypedRecord
<1>4. Recorded
  BY <1>1, <1>2 DEF Recorded, ConnectionsOK, GapsOK, AcksOK, UnscopedFrameEndsConnection,
    SnapshotsOK, OrdinalsOK, TrackerOK
<1>5. Scalars
  BY CaptureAssumption DEF Init, Scalars
<1>6. SegmentsOK /\ Paced /\ VerdictOK
  BY <1>1, <1>2 DEF Init, SegmentsOK, AllDisconnected, Active, Paced, VerdictOK
<1> QED BY <1>3, <1>4, <1>5, <1>6 DEF IInv, Controlled

LEMMA NextKeepsIInv == IInv /\ [Next \/ Stutter]_vars => IInv'
<1> SUFFICES ASSUME IInv, [Next \/ Stutter]_vars PROVE IInv'
  OBVIOUS
<1>1. Typed /\ TypedRecord /\ Recorded /\ Controlled /\ SegmentsOK
  BY DEF IInv, Typed, Controlled
<1>2. ASSUME Moves, Controlled' PROVE IInv'
  BY <1>1, <1>2, MovesKeepTypes, MovesKeepRecord DEF IInv
<1>3. ASSUME Quiet, Controlled' PROVE IInv'
  BY <1>1, <1>3, QuietKeepsRecord DEF IInv
<1>4. CASE Tick
  BY <1>1, <1>3, <1>4, TickControls
<1>5. CASE Attempt
  BY <1>1, <1>2, <1>5, AttemptMoves, AttemptControls
<1>6. CASE LoopEnds
  BY <1>1, <1>3, <1>6, EndingControls
<1>7. CASE Connected
  BY <1>1, <1>2, <1>7, ConnectedMoves, ConnectedControls
<1>8. CASE Subscribed
  BY <1>1, <1>2, <1>8, SubscribedMoves, SubscribedControls
<1>9. CASE Wake
  BY <1>1, <1>3, <1>9, WakeControls
<1>10. CASE TransportFails
  BY <1>1, <1>2, <1>10, TransportFailsMoves, TransportFailsControls
<1>11. CASE Deadline
  BY <1>1, <1>2, <1>11, DeadlineMoves, DeadlineControls
<1>12. CASE Closed
  BY <1>1, <1>3, <1>12, EndingControls
<1>13. CASE Finalize
  BY <1>1, <1>3, <1>13, FinalizeControls
<1>14. ASSUME NEW f \in Frames, Receive(f) PROVE IInv'
  BY <1>1, <1>2, <1>14, ReceiveMoves, ReceiveControls
<1>15. ASSUME NEW f \in Frames, ReceiveUnwritten(f) PROVE IInv'
  BY <1>1, <1>2, <1>15, ReceiveUnwrittenMoves, ReceiveUnwrittenControls
<1>16. CASE Stops
  BY <1>1, <1>3, <1>16, EndingControls
<1>17. CASE RecordUnwritten
  BY <1>1, <1>2, <1>17, RecordUnwrittenMoves, RecordUnwrittenControls
<1>18. CASE Killed
  BY <1>1, <1>3, <1>18, KilledControls
<1>19. CASE UNCHANGED vars
  <2>1. Quiet /\ UNCHANGED <<pc, clock, delay, wake, shutdown, verdict>>
    BY <1>19 DEF vars, Quiet, Abandoned
  <2>2. Scalars' /\ Paced' /\ SegmentsOK'
    BY <1>1, <2>1 DEF Controlled, Scalars, Paced, SegmentsOK, AllDisconnected, Ended, Quiet
  <2>3. VerdictOK'
    BY <1>1, <2>1 DEF Controlled, VerdictOK, Verdict, SegmentReady, Complete, Quiet
  <2> QED BY <1>3, <2>1, <2>2, <2>3 DEF Controlled
<1>20. CASE Left
  BY <1>1, <1>2, <1>20, LeftMoves, LeftControls
<1>21. ASSUME NEW f \in Frames, AcknowledgementUnwritten(f) PROVE IInv'
  BY <1>1, <1>2, <1>21, AcknowledgementUnwrittenMoves, AcknowledgementUnwrittenControls
<1> QED BY <1>4, <1>5, <1>6, <1>7, <1>8, <1>9, <1>10, <1>11, <1>12, <1>13, <1>14, <1>15, <1>16,
          <1>17, <1>18, <1>19, <1>20, <1>21 DEF Next, Step, Stutter

\* The inductive invariant of a capture holds in every state of it.
THEOREM CaptureInvariant == Spec => []IInv
BY InitEstablishesIInv, NextKeepsIInv, PTL DEF Spec

-----------------------------------------------------------------------------
(* 8. What it says: the file agrees with the summaries, and the verdict with   *)
(* the file.                                                                   *)

LEMMA Lengths ==
  ASSUME TypedRecord
  PROVE  /\ DOMAIN records = 1..Len(records) /\ DOMAIN segments = 1..Len(segments)
         /\ Len(records) \in Nat /\ Len(segments) \in Nat
         /\ \A c \in DOMAIN segments : segments[c] \in SegmentSet
  BY DEF TypedRecord

LEMMA RecordAgrees == IInv => RecordIsConsistent
<1> SUFFICES ASSUME IInv PROVE RecordIsConsistent
  OBVIOUS
<1>1. TypedRecord /\ Recorded /\ Controlled /\ Scalars /\ SegmentsOK /\ ConnectionsOK /\ GapsOK
  BY DEF IInv, Recorded, Controlled
<1>2. TypeOK
  BY <1>1, Lengths DEF TypeOK, Scalars, SegmentSet, Statuses
<1>3. AttemptsArePaced /\ UnscopedFrameEndsConnection
  BY <1>1 DEF AttemptsArePaced, Controlled, Paced, Recorded
<1>4. ASSUME NEW c \in DOMAIN segments, segments[c].status = "disconnected"
      PROVE  /\ EndsWith(c, "connection_gap")
             /\ \A i, j \in DOMAIN records : records[i].kind = "connection_gap" /\ records[i].conn = c
                  /\ records[j].kind = "connection_gap" /\ records[j].conn = c => i = j
  <2>1. PICK i \in DOMAIN records : records[i].conn = c /\ records[i].kind = "connection_gap"
    BY <1>1, <1>4 DEF GapsOK
  <2>2. \A k, j \in DOMAIN records : records[k].kind = "connection_gap" /\ k < j =>
          records[j].conn # records[k].conn
    BY <1>1 DEF GapsOK
  <2> QED BY <1>1, <2>1, <2>2, Lengths DEF EndsWith
<1>5. ASSUME pc \in {"loop", "sleep", "finish", "done"}, shutdown # "stopped",
             NEW c \in DOMAIN segments, segments[c].status # "disconnected"
      PROVE  EndsWith(c, "connection_closed")
  <2>1. Ended
    BY <1>1, <1>5 DEF SegmentsOK, AllDisconnected
  <2>2. c = Len(segments)
    BY <1>1, <1>5, Lengths DEF SegmentsOK
  <2>3. Len(records) \in DOMAIN records /\ \A j \in DOMAIN records : ~(Len(records) < j)
    BY <1>1, <2>1, Lengths DEF Ended
  <2> QED BY <2>1, <2>2, <2>3 DEF Ended, EndsWith
<1>6. SummariesMatchRecords
  BY <1>1, <1>4, <1>5 DEF SummariesMatchRecords, ConnectionsOK
<1> QED BY <1>2, <1>3, <1>6 DEF RecordIsConsistent

\* Whatever fails and when, a capture's file is well-formed, every connection
\* ends in it as its summary says, and every frame is attributed or the last of
\* its connection, before the gap or where the file stops.
THEOREM RecordStaysConsistent == Spec => []RecordIsConsistent
BY CaptureInvariant, RecordAgrees, PTL

\* A strict verdict: one connection, which was closed and complete.
LEMMA StrictCapture ==
  ASSUME IInv, verdict = "strict_eligible"
  PROVE  /\ Len(segments) = 1 /\ Ended /\ SegmentReady(segments[1])
         /\ segments[1].status # "disconnected" /\ ~tracker.gap /\ ~tracker.regression
         /\ DOMAIN segments = {1} /\ ~Failing(1)
<1>1. TypedRecord /\ SegmentsOK /\ VerdictOK
  BY DEF IInv, Controlled
<1>2. pc = "done" /\ shutdown = "completed" /\ Verdict = "strict_eligible"
  BY <1>1 DEF VerdictOK
<1>3. /\ segments # <<>> /\ ~tracker.gap /\ ~tracker.regression
      /\ \A i \in DOMAIN segments : SegmentReady(segments[i]) /\ segments[i].status # "disconnected"
  BY <1>2 DEF Verdict
<1>4. DOMAIN segments = 1..Len(segments) /\ Len(segments) \in Nat /\ Len(segments) # 0
  BY <1>1, <1>3 DEF TypedRecord
<1>5. Len(segments) = 1
  <2>1. ~(1 < Len(segments))
    BY <1>1, <1>3, <1>4 DEF SegmentsOK
  <2> QED BY <1>4, <2>1
<1>6. Ended
  BY <1>1, <1>2, <1>3, <1>4, <1>5 DEF SegmentsOK, AllDisconnected
<1>7. DOMAIN segments = {1}
  BY <1>4, <1>5
<1>8. ~Failing(1)
  BY <1>2, <1>3, <1>7 DEF Failing, Abandoned
<1> QED BY <1>3, <1>5, <1>6, <1>7, <1>8

LEMMA StrictAgrees == IInv => StrictVerdictIsHonest
<1> SUFFICES ASSUME IInv, verdict = "strict_eligible" PROVE StrictVerdictIsHonest
  BY DEF StrictVerdictIsHonest
<1>1. TypedRecord /\ ConnectionsOK /\ GapsOK /\ AcksOK /\ SnapshotsOK /\ OrdinalsOK /\ TrackerOK
  BY DEF IInv, Recorded
<1>2. /\ Len(segments) = 1 /\ Ended /\ SegmentReady(segments[1])
      /\ segments[1].status # "disconnected" /\ ~tracker.gap /\ ~tracker.regression
      /\ DOMAIN segments = {1} /\ ~Failing(1)
  BY StrictCapture
<1>3. \A i \in DOMAIN records : records[i].conn = 1
  BY <1>1, <1>2 DEF ConnectionsOK
<1>4. lost = 0
  BY <1>1, <1>2 DEF OrdinalsOK
<1>5. \A i \in DOMAIN records : records[i].ordinal = i
  BY <1>1, <1>4 DEF OrdinalsOK
<1>6. \A i \in DOMAIN records : records[i].kind \notin {"connection_gap", "binary_frame_rejected"}
  BY <1>1, <1>2, <1>3 DEF GapsOK
<1>7. records # <<>> /\ records[Len(records)].kind = "connection_closed"
  <2>1. records # <<>>
    BY <1>2 DEF Ended
  <2> QED BY <1>2, <2>1 DEF Ended
<1>8. {records[i].data.channel :
         i \in {j \in DOMAIN records : records[j].kind = "subscription_acknowledged"}} = Channels
  <2>1. \A i \in DOMAIN records : records[i].kind = "subscription_acknowledged" =>
          records[i].data.channel \in Channels
    BY <1>1 DEF AcksOK
  <2>2. ASSUME NEW channel \in Channels
        PROVE  \E i \in DOMAIN records : records[i].kind = "subscription_acknowledged"
                                         /\ records[i].data.channel = channel
    <3>1. segments[1].sids[channel] # None
      BY <1>2 DEF SegmentReady, Complete
    <3>2. PICK i \in DOMAIN records : AckOf(records[i], 1, channel, segments[1].sids[channel])
      BY <1>1, <1>2, <3>1 DEF AcksOK
    <3> QED BY <3>2 DEF AckOf
  <2> QED BY <2>1, <2>2
<1>9. \A t \in Tickers : Cardinality(Snapshots(1, t)) = 1
  BY <1>1, <1>2 DEF SnapshotsOK, SegmentReady
<1>10. \A i, j \in DOMAIN records : Follows(i, j) => records[j].data.seq = records[i].data.seq + 1
  BY <1>1, <1>2, <1>4 DEF TrackerOK
<1> QED BY <1>3, <1>5, <1>6, <1>7, <1>8, <1>9, <1>10 DEF StrictVerdictIsHonest

\* A capture judged "strict_eligible" is what that verdict promises, whatever the
\* venue sent and the transport did.
THEOREM StrictVerdictStaysHonest == Spec => []StrictVerdictIsHonest
BY CaptureInvariant, StrictAgrees, PTL
=============================================================================
