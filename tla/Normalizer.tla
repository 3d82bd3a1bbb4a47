----------------------------- MODULE Normalizer -----------------------------
(* The algorithm of normalize_capture_v3 in src/python/pmm_phase7.py, one raw  *)
(* record at a time.  A normalization is a record n: what the function keeps   *)
(* between two lines of frames.jsonl, the records it wrote (n.out), why the    *)
(* capture is incomplete (n.reasons) and the code it refused with (n.error).   *)
(* Payload hashes, files and schemas are data: a frame's body is compared,     *)
(* never looked into, and an unreadable line is a capture that has no record.  *)
EXTENDS Integers, Sequences, FiniteSets, SequencesExt

CONSTANTS
  Tickers,  \* metadata["market_tickers"]
  None      \* no value: JSON null, or no error

Policies == {"refuse", "record"}
Topologies == {"shared", "independent", "unknown"}
RequiredChannels == {"orderbook_delta", "trade"}
EventTypes == {"orderbook_snapshot", "orderbook_delta", "trade"}

Larger(a, b) == IF a > b THEN a ELSE b

\* A map with few keys, as a set of pairs.
Lookup(map, key) ==
  LET found == {p \in map : p.key = key}
  IN IF found = {} THEN None ELSE (CHOOSE p \in found : TRUE).value
Assign(map, key, value) == {p \in map : p.key # key} \union {[key |-> key, value |-> value]}

Start(policy, topology) ==
  [policy |-> policy, topology |-> topology, error |-> None,
   ordinal |-> 0, time |-> -1, requests |-> {}, scopes |-> {}, previous |-> {}, payloads |-> {},
   ids |-> [t \in Tickers |-> None],
   segment |-> [t \in Tickers |-> 0], valid |-> [t \in Tickers |-> FALSE],
   ever |-> [t \in Tickers |-> FALSE], awaiting |-> [t \in Tickers |-> "initial_snapshot"],
   snapshots |-> {}, reasons |-> {}, discontinuous |-> FALSE, out |-> <<>>]

Refuse(n, code) == [n EXCEPT !.error = code]
Reason(n, code) == [n EXCEPT !.reasons = @ \union {code}]

\* write_record
Emit(n, record) == [n EXCEPT !.out = Append(@, record)]

\* What a gap leaves of the books of the affected tickers.
Invalidate(n, affected) ==
  [n EXCEPT
    !.valid = [t \in Tickers |-> @[t] /\ t \notin affected],
    !.awaiting = [t \in Tickers |->
       IF t \notin affected THEN @[t] ELSE IF n.ever[t] THEN "recovery_snapshot" ELSE "initial_snapshot"]]

\* control_record: it moves logical time forward.
Control(type, affected, ordinal, time) ==
  [kind |-> "discontinuity", type |-> type, affected |-> affected, ordinal |-> ordinal, time |-> time]
Discontinuity(n, r, type, affected) ==
  LET time == Larger(n.time, r.at)
  IN Emit([n EXCEPT !.time = time, !.discontinuous = TRUE], Control(type, affected, r.ordinal, time))

-----------------------------------------------------------------------------
\* subscription_sent
Request(n, r) ==
  IF r.conn \in n.requests THEN Refuse(n, "SubscriptionRequestInvalid")
  ELSE [n EXCEPT !.requests = @ \union {r.conn}]

\* subscription_acknowledged: one scope per connection, channel and sid.
Acknowledgement(n, r) ==
  IF \/ r.conn \notin n.requests
     \/ r.data.channel \notin RequiredChannels
     \/ \E s \in n.scopes : s.conn = r.conn /\ (s.channel = r.data.channel \/ s.sid = r.data.sid)
    THEN Refuse(n, "SubscriptionAckMismatch")
  ELSE [n EXCEPT !.scopes = @ \union {[conn |-> r.conn, channel |-> r.data.channel, sid |-> r.data.sid]}]

\* connection_gap: every requested market's book ends, one record for each.
Gap(n, r) ==
  LET prefix == IF \E t \in Tickers : ~n.ever[t] THEN Reason(n, "IncompletePrefix") ELSE n
      time == Larger(n.time, r.at)
      order == SetToSeq(Tickers)
      controls == [i \in DOMAIN order |-> Control("connection_gap", {order[i]}, r.ordinal, time)]
  IN [Invalidate(prefix, Tickers) EXCEPT !.time = time, !.discontinuous = TRUE, !.out = @ \o controls]

-----------------------------------------------------------------------------
(* A data frame.  f is the frame, scope the subscription that carried it.      *)

ExpectedChannel(f) == IF f.type = "trade" THEN "trade" ELSE "orderbook_delta"
ScopesOf(n, r) == {s \in n.scopes : s.conn = r.conn /\ s.sid = r.data.sid}

\* The checks that refuse whatever the policy, in their order.
IdentityRefusal(n, r) ==
  LET f == r.data IN
  IF ScopesOf(n, r) = {} THEN "UnboundSourceScope"
  ELSE IF \E s \in ScopesOf(n, r) : s.channel # ExpectedChannel(f) THEN "SourceScopeConflict"
  ELSE IF f.ticker \notin Tickers THEN "MarketMembershipMismatch"
  ELSE IF n.ids[f.ticker] = None /\ f.market = None THEN "MarketIdentityMissing"
  ELSE IF n.ids[f.ticker] # None /\ f.market \notin {None, n.ids[f.ticker]} THEN "MarketIdentityConflict"
  ELSE None

\* sequence_validation_scope
SequenceScope(n, r) ==
  <<r.conn, r.data.sid, IF n.topology = "independent" THEN r.data.ticker ELSE None>>

SequenceRequired(f) == f.type \in {"orderbook_snapshot", "orderbook_delta"}

IsGapLate(n, r) ==   \* mutant: one missing frame is no gap
  LET prev == Lookup(n.previous, SequenceScope(n, r))
  IN r.data.seq # None /\ prev # None /\ r.data.seq > prev + 2

IsGap(n, r) ==
  LET prev == Lookup(n.previous, SequenceScope(n, r))
  IN r.data.seq # None /\ prev # None /\ r.data.seq > prev + 1
IsRegression(n, r) ==
  LET prev == Lookup(n.previous, SequenceScope(n, r))
  IN r.data.seq # None /\ prev # None /\ r.data.seq < prev

\* The payload already seen at this frame's sequence, if there is one.
Prior(n, r) ==
  {p.value : p \in {q \in n.payloads : r.data.seq # None /\ q.key = <<SequenceScope(n, r), r.data.seq>>}}

\* The books a lost frame of this scope may have changed.
Affected(n, f) == IF n.topology = "independent" THEN {f.ticker} ELSE Tickers

\* A forward jump is recorded; on the book's channel it invalidates.
AfterJump(n, r) ==
  LET noted == Discontinuity(n, r, "sequence_gap", Affected(n, r.data))
  IN IF ~IsGap(n, r) THEN n
     ELSE IF ExpectedChannel(r.data) = "trade" THEN noted
     ELSE Invalidate(noted, Affected(n, r.data))

AfterSequence(n, r) ==
  LET jumped == AfterJump(n, r)
      key == SequenceScope(n, r)
  IN IF r.data.seq = None THEN jumped
     ELSE [jumped EXCEPT !.previous = Assign(@, key, r.data.seq),
                         !.payloads = Assign(@, <<key, r.data.seq>>, r.data)]

\* A snapshot opens a segment; a delta outside one makes the capture incomplete.
Boundary(n, r) ==
  LET t == r.data.ticker
      key == <<r.conn, t>>
      count == IF Lookup(n.snapshots, key) = None THEN 0 ELSE Lookup(n.snapshots, key)
  IN Emit([n EXCEPT !.segment[t] = @ + 1, !.valid[t] = TRUE, !.ever[t] = TRUE, !.awaiting[t] = None,
                    !.snapshots = Assign(@, key, count + 1)],
          [kind |-> "segment_boundary", ticker |-> t, segment |-> n.segment[t] + 1,
           evidence |-> n.awaiting[t], scope |-> <<r.conn, r.data.sid>>,
           ordinal |-> r.ordinal, time |-> Larger(n.time, r.at)])

\* market_event: logical time never falls behind the event's own time.
Event(n, r) ==
  LET f == r.data
      time == Larger(n.time, IF f.ts = None THEN r.at ELSE f.ts)
  IN Emit([n EXCEPT !.time = time],
          [kind |-> "market_event", type |-> f.type, ticker |-> f.ticker, market |-> n.ids[f.ticker],
           segment |-> n.segment[f.ticker], valid |-> n.valid[f.ticker],
           scope |-> <<r.conn, f.sid>>, body |-> f.body, ordinal |-> r.ordinal, time |-> time])

StateRefusal(n, f) ==
  CASE f.type = "orderbook_snapshot" /\ n.valid[f.ticker] -> "RecoverySnapshotDuplicate"
    [] f.type = "orderbook_delta" /\ ~n.valid[f.ticker] /\ n.policy = "refuse" -> "DeltaBeforeRecovery"
    [] OTHER -> None

\* The whole handling of a data frame.
Data(n, r) ==
  LET f == r.data
      named == IF n.ids[f.ticker] = None THEN [n EXCEPT !.ids[f.ticker] = f.market] ELSE n
      unsequenced == f.seq = None /\ SequenceRequired(f)
      required == IF unsequenced THEN Reason(named, "RequiredSourceSequenceMissing") ELSE named
      sequenced == AfterSequence(required, r)
      seeded == IF f.type = "orderbook_snapshot" THEN Boundary(sequenced, r)
                ELSE IF f.type = "orderbook_delta" /\ ~sequenced.valid[f.ticker]
                  THEN Reason(sequenced, "DeltaBeforeRecovery")
                ELSE sequenced
  IN IF IdentityRefusal(n, r) # None THEN Refuse(n, IdentityRefusal(n, r))
     ELSE IF unsequenced /\ n.policy = "refuse" THEN Refuse(n, "RequiredSourceSequenceMissing")
     ELSE IF f \in Prior(n, r) THEN required
     ELSE IF Prior(n, r) # {} THEN Refuse(n, "ConflictingDuplicate")
     ELSE IF IsRegression(n, r) THEN Refuse(n, "SourceSequenceRegression")
     ELSE IF StateRefusal(sequenced, f) # None THEN Refuse(n, StateRefusal(sequenced, f))
     ELSE Event(seeded, r)

-----------------------------------------------------------------------------
\* One line of frames.jsonl.  Its ordinal must continue the last one; the
\* records that are not named here are read and skipped.
Read(n, r) ==
  LET next == [n EXCEPT !.ordinal = r.ordinal]
  IN IF n.error # None THEN n
     ELSE IF r.ordinal # n.ordinal + 1 THEN Refuse(n, "IngressOrdinalMismatch")
     ELSE CASE r.kind = "subscription_sent" -> Request(next, r)
            [] r.kind = "subscription_acknowledged" -> Acknowledgement(next, r)
            [] r.kind = "connection_gap" -> Gap(next, r)
            [] r.kind = "binary_frame_rejected" -> Reason(next, "UnsupportedBinaryFrame")
            [] r.kind = "inbound_frame" /\ r.data.type \in EventTypes -> Data(next, r)
            [] OTHER -> next

\* What the end of the file adds to the reasons.
EndReasons(n) ==
  {code \in {"SubscriptionAckMissing", "SnapshotCardinalityMismatch",
             "SubscriptionRequestMissing", "RecoverySnapshotMissing"} :
     CASE code = "SubscriptionAckMissing" ->
            \E c \in n.requests : {s.channel : s \in {x \in n.scopes : x.conn = c}} # RequiredChannels
       [] code = "SnapshotCardinalityMismatch" ->
            \E c \in n.requests, t \in Tickers : Lookup(n.snapshots, <<c, t>>) # 1
       [] code = "SubscriptionRequestMissing" -> n.requests = {}
       [] code = "RecoverySnapshotMissing" -> \E t \in Tickers : ~n.valid[t]}

Completeness(n) ==
  IF n.reasons \union EndReasons(n) # {} THEN "incomplete"
  ELSE IF n.discontinuous THEN "observed_discontinuous"
  ELSE "complete_observed_interval"

\* The result: a refusal, or the completeness of the published normalization.
Result(n) ==
  IF n.error # None THEN n.error
  ELSE IF \E t \in Tickers : n.ids[t] = None THEN "MarketIdentityMissing"
  ELSE IF n.policy = "refuse" /\ Completeness(n) # "complete_observed_interval" THEN "Refused"
  ELSE Completeness(n)

Published == {"incomplete", "observed_discontinuous", "complete_observed_interval"}

\* normalize_capture_v3 of a whole file.
Normalize(policy, topology, file) == Result(FoldLeft(Read, Start(policy, topology), file))
=============================================================================
