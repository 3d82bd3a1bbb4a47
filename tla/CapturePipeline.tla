--------------------------- MODULE CapturePipeline ---------------------------
(* The recorder and what normalize-v3 later says of the file it left: the      *)
(* verdict of a capture, judged by the records it wrote.                       *)
EXTENDS Capture

N == INSTANCE Normalizer

\* frames.jsonl; receive times grow with the ordinals.
File == [i \in DOMAIN records |->
  [kind |-> records[i].kind, ordinal |-> records[i].ordinal, at |-> records[i].ordinal,
   conn |-> records[i].conn, data |-> records[i].data]]

Normalized(policy) == N!Normalize(policy, "unknown", File)

DataFrame(r) == r.kind = "inbound_frame" /\ r.data.type \in DataTypes

TypeOK ==
  /\ pc \in {"loop", "connect", "subscribe", "receive", "closing", "leaving", "sleep", "finish", "done", "dead"}
  /\ clock \in 0..Duration /\ delay \in 1..MaxDelay /\ wake \in 0..Duration
  /\ \A i \in DOMAIN segments :
       /\ segments[i].status \in {"attempting", "connected", "completed",
                                  "incomplete_acknowledgements", "disconnected"}
       /\ segments[i].snapshots \in [Tickers -> Nat]
  /\ shutdown \in {"running", "completed", "stopped"}
  /\ verdict \in {"unusable", "record_only", "strict_eligible"}

-----------------------------------------------------------------------------
\* A frame with a sequence, and two of one subscription with none in between.
Sequenced(r) == r.kind = "inbound_frame" /\ "seq" \in DOMAIN r.data /\ r.data.seq # None
SameScope(r, q) == r.conn = q.conn /\ r.data.sid = q.data.sid
Follows(i, j) ==
  /\ i < j /\ Sequenced(records[i]) /\ Sequenced(records[j]) /\ SameScope(records[i], records[j])
  /\ \A k \in (i + 1)..(j - 1) : Sequenced(records[k]) => ~SameScope(records[i], records[k])

Snapshots(c, t) ==
  {i \in DOMAIN records : /\ DataFrame(records[i]) /\ records[i].data.type = "orderbook_snapshot"
                          /\ records[i].conn = c /\ records[i].data.ticker = t}

\* "strict_eligible" says what the file holds: one connection, closed at the
\* deadline, no ordinal missing, both acknowledgements, one snapshot of every
\* ticker, no frame refused and no sequence skipped.
StrictVerdictIsHonest ==
  verdict = "strict_eligible" =>
    /\ \A i \in DOMAIN records : records[i].ordinal = i /\ records[i].conn = 1
    /\ \A i \in DOMAIN records : records[i].kind \notin {"connection_gap", "binary_frame_rejected"}
    /\ records # <<>> /\ records[Len(records)].kind = "connection_closed"
    /\ {records[i].data.channel :
          i \in {j \in DOMAIN records : records[j].kind = "subscription_acknowledged"}} = Channels
    /\ \A t \in Tickers : Cardinality(Snapshots(1, t)) = 1
    /\ \A i, j \in DOMAIN records : Follows(i, j) => records[j].data.seq = records[i].data.seq + 1

\* The last record of a connection.
EndsWith(c, kind) ==
  \E i \in DOMAIN records :
    /\ records[i].conn = c /\ records[i].kind = kind
    /\ \A j \in DOMAIN records : i < j => records[j].conn # c

\* Every connection's records end as its summary says, whatever failed and when:
\* a disconnected one with a gap, which is its only gap; a completed one with
\* its close.  An earlier connection never gets a record once the next began.
SummariesMatchRecords ==
  /\ \A i, j \in DOMAIN records : i < j => records[i].conn <= records[j].conn
  /\ pc \in {"loop", "sleep", "finish", "done"} /\ shutdown # "stopped" =>
       \A c \in DOMAIN segments :
         /\ segments[c].status = "disconnected" =>
              /\ EndsWith(c, "connection_gap")
              /\ \A i, j \in DOMAIN records : records[i].kind = "connection_gap" /\ records[i].conn = c
                   /\ records[j].kind = "connection_gap" /\ records[j].conn = c => i = j
         /\ segments[c].status # "disconnected" => EndsWith(c, "connection_closed")

\* The current connection is being left by an exception, or the capture stopped,
\* was killed or failed: the file may end in the middle of a connection.
Abandoned ==
  pc = "leaving" \/ (pc \in {"finish"} \union Stopped /\ shutdown # "completed")

\* A data frame outside its connection's acknowledged scopes, or for a ticker
\* nobody asked for, is recorded and is the last frame its connection records:
\* the gap follows, or nothing does, while the connection is being left or once
\* an interrupt, a failed write or a kill came before the gap.
UnscopedFrameEndsConnection ==
  \A i \in DOMAIN records :
    LET r == records[i]
        acknowledged == {records[j].data : j \in {k \in 1..i :
          records[k].kind = "subscription_acknowledged" /\ records[k].conn = r.conn}}
    IN DataFrame(r) =>
         \/ /\ r.data.ticker \in Tickers
            /\ \E a \in acknowledged : a.sid = r.data.sid
                 /\ a.channel = N!ExpectedChannel(r.data)
         \/ i = Len(records) /\ Abandoned
         \/ /\ i < Len(records) /\ records[i + 1].kind = "connection_gap"
            /\ records[i + 1].conn = r.conn
            /\ \A j \in (i + 2)..Len(records) : records[j].conn # r.conn

\* The venue is not hammered: two connections never start within one unit of the
\* delay of each other, however they fail.
AttemptsArePaced == Len(segments) <= clock + 1

\* The record as one invariant: well-formed, agreeing with the summaries, every
\* frame attributed or the last of its connection, connections paced.
RecordIsConsistent ==
  TypeOK /\ SummariesMatchRecords /\ UnscopedFrameEndsConnection /\ AttemptsArePaced

\* A strict capture whose deltas all follow their ticker's snapshot, with a
\* sequence on every book frame, is normalized in full by the strict policy.
DeltaFollowsSnapshot(i) ==
  \E j \in 1..(i - 1) : DataFrame(records[j]) /\ records[j].data.type = "orderbook_snapshot"
                        /\ records[j].data.ticker = records[i].data.ticker
StrictCapturesNormalize ==
  /\ verdict = "strict_eligible"
  /\ \A i \in DOMAIN records : DataFrame(records[i]) =>
       /\ N!SequenceRequired(records[i].data) => records[i].data.seq # None
       /\ records[i].data.type = "orderbook_delta" => DeltaFollowsSnapshot(i)
  => Normalized("refuse") = "complete_observed_interval"

\* Unless it is killed, a capture ends, at the latest when its deadline passes,
\* with or without a venue.
CaptureEnds == <>(pc \in Stopped)

\* "capture-v2 exit zero now means finalized evidence is eligible for strict
\* normalization" (violated: a delta may come before its snapshot, or a book
\* frame without a sequence, and the capture is none the wiser).
ExitZeroNormalizes == verdict = "strict_eligible" => Normalized("refuse") = "complete_observed_interval"
=============================================================================
