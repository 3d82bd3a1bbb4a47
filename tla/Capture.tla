------------------------------- MODULE Capture -------------------------------
(* The passive recorder of src/python/kalshi_capture.py: run_capture_v2 opens  *)
(* one WebSocket connection at a time, subscribes, records every frame before  *)
(* it judges it, reconnects with a growing delay until the capture's deadline, *)
(* and run_capture_v2_command gives the finished file a verdict.               *)
(*                                                                             *)
(* Time is one clock that stops at the deadline: nothing the code does         *)
(* compares two instants after it.  The venue, the transport, the disk and the *)
(* operator are the environment: any frame of Frames may arrive, a connection  *)
(* may fail at any await, a write may fail, the process may be interrupted or  *)
(* killed.                                                                     *)
EXTENDS Integers, Sequences, FiniteSets, SequencesExt

CONSTANTS
  Tickers,       \* the requested market tickers
  Frames,        \* the frames the venue may send
  Duration,      \* --duration, in units of the first reconnection delay
  MaxDelay,      \* the ceiling of the reconnection delay (30 in the code)
  MaxFrames,     \* bound: frames of one capture
  MaxLostWrites, \* bound: records whose write fails
  None           \* no sequence, no sid, no acknowledgement

ASSUME CaptureAssumption ==
  /\ Duration \in Nat /\ MaxDelay \in Nat \ {0}
  /\ MaxFrames \in Nat /\ MaxLostWrites \in Nat

\* A binary frame is not decoded: nothing is read in it.  None is no name.
ASSUME FramesAssumption ==
  /\ \A f \in Frames : "seq" \in DOMAIN f => f.type # "binary"
  /\ None \notin {"orderbook_delta", "trade", "UnsupportedBinaryFrame", "MalformedSourceFrame",
                 "SubscriptionAckMismatch", "SubscriptionRefused", "UnboundSourceScope",
                 "MarketMembershipMismatch"}

VARIABLES
  pc,        \* where run_capture_v2 is waiting
  cause,     \* the error_code of the exception that is leaving a connection
  clock,     \* monotonic_clock(), from the start of the capture
  delay,     \* reconnect_delay_seconds
  wake,      \* when the sleep between two connections ends
  segments,  \* connection_summaries
  records,   \* the records of frames.jsonl, in the order they were written
  lost,      \* records given an ordinal whose write failed
  tracker,   \* the SequenceTracker: last sequence per scope, gap, regression
  shutdown,  \* metadata["shutdown"]["status"]
  verdict    \* metadata["data_usability"]

timing == <<clock, delay, wake>>
vars == <<pc, cause, clock, delay, wake, segments, records, lost, tracker, shutdown, verdict>>

Channels == {"orderbook_delta", "trade"}
DataTypes == {"orderbook_snapshot", "orderbook_delta", "trade"}
Stopped == {"done", "dead"}

Smaller(a, b) == IF a < b THEN a ELSE b
Conn == Len(segments)                       \* connection_segment_id
Current == segments[Conn]

\* JsonlCaptureV2.write_record: each record takes the next ordinal, whether or
\* not the write that follows succeeds.
Record(kind, data) ==
  [kind |-> kind, ordinal |-> Len(records) + lost + 1, conn |-> Conn, data |-> data]

Write(kind, data) == records' = Append(records, Record(kind, data))

\* SubscriptionBinding.channel_for_sid
BoundChannel(sid) ==
  LET bound == {c \in Channels : Current.sids[c] # None /\ Current.sids[c] = sid}
  IN IF bound = {} THEN None ELSE CHOOSE c \in bound : TRUE

\* SubscriptionBinding.complete
Complete(segment) == \A c \in Channels : segment.sids[c] # None

\* SubscriptionBinding.observe_acknowledgement: what it accepts.
Acknowledges(f) ==
  /\ f.id = Conn /\ f.channel \in Channels /\ f.sid # None
  /\ Current.sids[f.channel] = None
  /\ \A c \in Channels : Current.sids[c] # f.sid

\* SequenceTracker.observe: a scope is one connection's subscription.  What is no
\* number counts as a regression, and is not remembered.
Observe(f) ==
  IF "seq" \notin DOMAIN f \/ f.seq = None THEN tracker
  ELSE IF f.seq \notin Int
    THEN [previous |-> tracker.previous, gap |-> tracker.gap, regression |-> TRUE]
  ELSE LET key  == <<Conn, f.sid>>
           prev == {p \in tracker.previous : p.key = key}
       IN [previous |-> (tracker.previous \ prev) \union {[key |-> key, seq |-> f.seq]},
           gap |-> tracker.gap \/ \E p \in prev : f.seq > p.seq + 1,
           regression |-> tracker.regression \/ \E p \in prev : f.seq <= p.seq]

-----------------------------------------------------------------------------
Init ==
  /\ pc = "loop" /\ cause = None /\ clock = 0 /\ delay = 1 /\ wake = 0
  /\ segments = <<>> /\ records = <<>> /\ lost = 0
  /\ tracker = [previous |-> {}, gap |-> FALSE, regression |-> FALSE]
  /\ shutdown = "running" /\ verdict = "unusable"

\* The clock passes while the coroutine awaits a connection, a frame, the close
\* that an exception brings or the end of a sleep; the time a send takes, and the
\* close of a failed transport, is counted with these.
Tick ==
  /\ pc \in {"connect", "receive", "leaving", "sleep"} /\ clock < Duration
  /\ clock' = clock + 1
  /\ UNCHANGED <<pc, cause, delay, wake, segments, records, lost, tracker, shutdown, verdict>>

\* The loop's head: a new connection attempt, with its summary and its record.
Attempt ==
  /\ pc = "loop" /\ clock < Duration
  /\ segments' = Append(segments,
       [status |-> "attempting", sids |-> [c \in Channels |-> None],
        snapshots |-> [t \in Tickers |-> 0]])
  /\ records' = Append(records, [Record("connection_attempt", None) EXCEPT !.conn = Conn + 1])
  /\ pc' = "connect"
  /\ UNCHANGED <<cause, timing, lost, tracker, shutdown, verdict>>

LoopEndsOnceOpened ==   \* mutant: a capture that never opened a connection goes on
  /\ pc = "loop" /\ clock >= Duration
  /\ \E i \in DOMAIN records : records[i].kind = "connection_opened"
  /\ pc' = "finish" /\ shutdown' = "completed"
  /\ UNCHANGED <<cause, timing, segments, records, lost, tracker, verdict>>

\* The loop ends when the deadline passed between two connections.
LoopEnds ==
  /\ pc = "loop" /\ clock >= Duration
  /\ pc' = "finish" /\ shutdown' = "completed"
  /\ UNCHANGED <<cause, timing, segments, records, lost, tracker, verdict>>

Connected ==
  /\ pc = "connect"
  /\ segments' = [segments EXCEPT ![Conn].status = "connected"]
  /\ Write("connection_opened", None)
  /\ pc' = "subscribe"
  /\ UNCHANGED <<cause, timing, lost, tracker, shutdown, verdict>>

\* The request is sent and recorded, and the reconnection delay starts again.
Subscribed ==
  /\ pc = "subscribe"
  /\ Write("subscription_sent", None)
  /\ delay' = 1 /\ pc' = "receive"
  /\ UNCHANGED <<cause, clock, wake, segments, lost, tracker, shutdown, verdict>>

\* The end of a failed connection: the handler records the gap; then the loop
\* sleeps if the deadline has not passed, and doubles the delay.
AfterFailure ==
  IF clock < Duration
    THEN /\ pc' = "sleep" /\ wake' = clock + Smaller(delay, Duration - clock)
         /\ delay' = Smaller(2 * delay, MaxDelay)
    ELSE pc' = "loop" /\ UNCHANGED <<wake, delay>>

Wake ==
  /\ pc = "sleep" /\ clock >= wake
  /\ pc' = "loop"
  /\ UNCHANGED <<cause, timing, segments, records, lost, tracker, shutdown, verdict>>

TransportFailsSilently ==   \* mutant: a connection that closed cannot disconnect
  /\ pc \in {"connect", "subscribe", "receive", "closing", "leaving"}
  /\ segments' = IF pc = "closing" THEN segments ELSE [segments EXCEPT ![Conn].status = "disconnected"]
  /\ Write("connection_gap", "TransportDisconnected")
  /\ AfterFailure /\ cause' = None
  /\ UNCHANGED <<clock, lost, tracker, shutdown, verdict>>

\* Connecting, sending, receiving or leaving the connection raises a transport
\* error; leaving it may do so after the deadline has closed the segment, or while
\* another exception leaves it, whose code the transport error then replaces.
TransportFails ==
  /\ pc \in {"connect", "subscribe", "receive", "closing", "leaving"}
  /\ segments' = [segments EXCEPT ![Conn].status = "disconnected"]
  /\ Write("connection_gap", "TransportDisconnected")
  /\ AfterFailure /\ cause' = None
  /\ UNCHANGED <<clock, lost, tracker, shutdown, verdict>>

FramesSoFar == Len(SelectSeq(records, LAMBDA r : r.kind = "inbound_frame"))

\* The frames the code accepts, and the code of the CaptureV2Error the others raise.
Failure(f) ==
  CASE f.type = "binary" -> "UnsupportedBinaryFrame"
    [] f.type = "malformed" -> "MalformedSourceFrame"
    [] f.type = "subscribed" -> IF Acknowledges(f) THEN None ELSE "SubscriptionAckMismatch"
    [] f.type = "error" -> IF f.id = Conn THEN "SubscriptionRefused" ELSE None
    [] f.type \in DataTypes ->
         IF BoundChannel(f.sid) # (IF f.type = "trade" THEN "trade" ELSE "orderbook_delta")
           THEN "UnboundSourceScope"
         ELSE IF f.ticker \notin Tickers THEN "MarketMembershipMismatch" ELSE None
    [] OTHER -> None

\* One frame: it is recorded and its sequence observed whatever it says; only
\* then is it judged.  A refused frame raises, and the connection is left, which
\* awaits its close, before the handler records anything.
Receive(f) ==
  /\ pc = "receive" /\ clock < Duration /\ FramesSoFar < MaxFrames
  /\ tracker' = Observe(f)
  /\ LET frame == Record(IF f.type = "binary" THEN "binary_frame_rejected" ELSE "inbound_frame", f)
         acknowledged == [frame EXCEPT !.ordinal = @ + 1, !.kind = "subscription_acknowledged"]
     IN IF Failure(f) # None
          THEN /\ records' = Append(records, frame)
               /\ pc' = "leaving" /\ cause' = Failure(f)
               /\ UNCHANGED segments
          ELSE /\ records' = IF f.type = "subscribed" THEN records \o <<frame, acknowledged>>
                             ELSE Append(records, frame)
               /\ segments' = CASE f.type = "subscribed" ->
                                     [segments EXCEPT ![Conn].sids[f.channel] = f.sid]
                                [] f.type = "orderbook_snapshot" ->
                                     [segments EXCEPT ![Conn].snapshots[f.ticker] = @ + 1]
                                [] OTHER -> segments
               /\ UNCHANGED <<pc, cause>>
  /\ UNCHANGED <<timing, lost, shutdown, verdict>>

\* An acknowledgement is recorded as a frame and bound, and the record of the
\* binding cannot be written: its ordinal is used up, and the OSError leaves the
\* connection as a transport error.
AcknowledgementUnwritten(f) ==
  /\ pc = "receive" /\ clock < Duration /\ FramesSoFar < MaxFrames /\ lost < MaxLostWrites
  /\ f.type = "subscribed" /\ Failure(f) = None
  /\ tracker' = Observe(f)
  /\ Write("inbound_frame", f)
  /\ segments' = [segments EXCEPT ![Conn].sids[f.channel] = f.sid]
  /\ lost' = lost + 1
  /\ pc' = "leaving" /\ cause' = "TransportDisconnected"
  /\ UNCHANGED <<timing, shutdown, verdict>>

\* The close returns, and the handler of the exception records the gap.
Left ==
  /\ pc = "leaving"
  /\ segments' = [segments EXCEPT ![Conn].status = "disconnected"]
  /\ Write("connection_gap", cause)
  /\ AfterFailure /\ cause' = None
  /\ UNCHANGED <<clock, lost, tracker, shutdown, verdict>>

\* The record of an opened connection, of a request or of the deadline cannot be
\* written: its ordinal is used up, and the OSError is taken for a transport error.
\* Nothing is recorded between the failed write and the gap: the close in between
\* is counted with this step.
RecordUnwritten ==
  /\ lost < MaxLostWrites
  /\ pc \in {"connect", "subscribe"} \/ (pc = "receive" /\ clock >= Duration)
  /\ lost' = lost + 1
  /\ segments' = [segments EXCEPT ![Conn].status = "disconnected"]
  /\ records' = Append(records, [Record("connection_gap", "TransportDisconnected") EXCEPT !.ordinal = @ + 1])
  /\ AfterFailure
  /\ UNCHANGED <<cause, clock, tracker, shutdown, verdict>>

\* A frame whose own record cannot be written: its sequence was observed, its
\* ordinal is used up, and the OSError is taken for a transport error.
ReceiveUnwritten(f) ==
  /\ pc = "receive" /\ clock < Duration /\ FramesSoFar < MaxFrames /\ lost < MaxLostWrites
  /\ tracker' = Observe(f)
  /\ lost' = lost + 1
  /\ segments' = [segments EXCEPT ![Conn].status = "disconnected"]
  /\ records' = Append(records, [Record("connection_gap", "TransportDisconnected") EXCEPT !.ordinal = @ + 1])
  /\ AfterFailure
  /\ UNCHANGED <<cause, clock, shutdown, verdict>>

\* The deadline, seen at the head of the receive loop (a receive never waits
\* beyond it).  The return leaves the connection, which may still fail.
Deadline ==
  /\ pc = "receive" /\ clock >= Duration
  /\ segments' = [segments EXCEPT ![Conn].status =
       IF Complete(Current) THEN "completed" ELSE "incomplete_acknowledgements"]
  /\ Write("connection_closed", None)
  /\ pc' = "closing"
  /\ UNCHANGED <<cause, timing, lost, tracker, shutdown, verdict>>

Closed ==
  /\ pc = "closing"
  /\ pc' = "finish" /\ shutdown' = "completed"
  /\ UNCHANGED <<cause, timing, segments, records, lost, tracker, verdict>>

\* KeyboardInterrupt cancels the task ("interrupted"), or another exception ends
\* it ("failed"), which the verdict does not tell apart.  A write that fails
\* outside the connection's try block, as the gap's is, is one of these.
Stops ==
  /\ pc \notin Stopped \union {"finish"}
  /\ pc' = "finish" /\ cause' = None /\ shutdown' = "stopped"
  /\ UNCHANGED <<timing, segments, records, lost, tracker, verdict>>

\* The process dies: the metadata on disk is the one written before the capture.
Killed ==
  /\ pc \notin Stopped
  /\ pc' = "dead" /\ cause' = None /\ shutdown' = "running"
  /\ UNCHANGED <<timing, segments, records, lost, tracker, verdict>>

SegmentReadyUnseeded(segment) ==   \* mutant: the snapshots are not counted
  segment.status \in {"completed", "disconnected"} /\ Complete(segment)

SegmentReady(segment) ==
  /\ segment.status \in {"completed", "disconnected"}
  /\ Complete(segment)
  /\ \A t \in Tickers : segment.snapshots[t] = 1

VerdictWithoutSequences ==   \* mutant: the sequences are not looked at
  LET summary == IF shutdown = "completed" THEN segments ELSE <<>>
  IN IF summary = <<>> \/ \E i \in DOMAIN summary : ~SegmentReady(summary[i]) THEN "unusable"
     ELSE IF \E i \in DOMAIN summary : summary[i].status = "disconnected" THEN "record_only"
     ELSE "strict_eligible"

\* finalize_capture_v2_metadata: a run that did not return has no summary, hence
\* no segments.
Verdict ==
  LET summary == IF shutdown = "completed" THEN segments ELSE <<>>
      ready   == summary # <<>> /\ \A i \in DOMAIN summary : SegmentReady(summary[i])
  IN IF ~ready \/ tracker.gap \/ tracker.regression THEN "unusable"
     ELSE IF \E i \in DOMAIN summary : summary[i].status = "disconnected" THEN "record_only"
     ELSE "strict_eligible"

Finalize ==
  /\ pc = "finish"
  /\ verdict' = Verdict
  /\ pc' = "done"
  /\ UNCHANGED <<cause, timing, segments, records, lost, tracker, shutdown>>

\* What the process does of itself, once the call it awaits returns or raises.
Step ==
  \/ Attempt \/ LoopEnds \/ Connected \/ Subscribed \/ Wake
  \/ TransportFails \/ Left \/ Deadline \/ Closed \/ Finalize

Next ==
  \/ Tick \/ Step
  \/ \E f \in Frames : Receive(f) \/ ReceiveUnwritten(f) \/ AcknowledgementUnwritten(f)
  \/ Stops \/ RecordUnwritten \/ Killed

Stutter == pc \in Stopped /\ UNCHANGED vars

\* Time passes, and a connection attempt, a send and a close each return or
\* raise: the library bounds them, as the event loop's timers do the sleeps.
\* The venue owes the program nothing: no frame need ever arrive.
Fairness == WF_vars(Tick) /\ WF_vars(Step /\ ~(pc = "receive" /\ clock < Duration))

Spec == Init /\ [][Next \/ Stutter]_vars /\ Fairness
=============================================================================
