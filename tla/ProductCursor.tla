---------------------------- MODULE ProductCursor ----------------------------
(* SegmentAwareProductCursor and materialize_features_v3 of                    *)
(* src/python/pmm_phase7.py: a product's book, rebuilt from normalized records *)
(* and visible only inside a segment.  A cursor is a record; every operation   *)
(* returns the next one, with error set when the code raises.                  *)
(* A projection's book is a function from levels (a side and a price) to the   *)
(* quantity displayed there.  The ingress number of a projection is left out:  *)
(* the cursor always hands it the next one.                                    *)
EXTENDS Normalizer

CONSTANT Levels  \* the book levels

EmptyBook == [l \in Levels |-> 0]

\* ObservedMarketProjection()
NewProjection == [book |-> EmptyBook, trade |-> None, seeded |-> FALSE]

\* ObservedMarketProjection.apply: None when it raises.  A snapshot's body
\* has a whole book, a delta's a level and a change, a trade's a price.
Project(p, type, body) ==
  CASE type = "orderbook_snapshot" ->
         [p EXCEPT !.book = body.book, !.seeded = TRUE]
    [] type = "orderbook_delta" ->
         IF p.seeded /\ p.book[body.level] + body.change >= 0
           THEN [p EXCEPT !.book[body.level] = @ + body.change]
           ELSE None
    [] type = "trade" -> [p EXCEPT !.trade = body.price]

NewCursor(ticker, market) ==
  [ticker |-> ticker, market |-> market, state |-> "awaiting_initial_snapshot",
   segment |-> None, evidence |-> None, projection |-> NewProjection, applied |-> None,
   seed |-> None, from |-> None, pending |-> None, seen |-> {}, error |-> None]

Fail(c, code) == [c EXCEPT !.error = code]

\* start_segment
StartSegment(c, rec) ==
  LET expected == IF c.state = "awaiting_initial_snapshot" THEN "initial_snapshot"
                  ELSE "recovery_snapshot"
  IN IF \/ c.pending # None \/ rec.segment \in c.seen
        \/ rec.ticker # c.ticker \/ rec.evidence # expected
       THEN Fail(c, "FeatureSegmentInvalid")
       ELSE [c EXCEPT !.pending = rec, !.applied = rec.ordinal]

InvalidateCursorLazily(c, rec) ==   \* mutant: the state is left as it is
  [c EXCEPT !.applied = rec.ordinal, !.pending = None, !.projection = NewProjection]

\* invalidate: the book and the last trade go.
InvalidateCursor(c, rec) ==
  [c EXCEPT !.applied = rec.ordinal,
            !.state = IF c.segment # None \/ c.state = "valid" THEN "invalid_awaiting_recovery"
                      ELSE "awaiting_initial_snapshot",
            !.segment = None, !.evidence = None, !.seed = None, !.from = None, !.pending = None,
            !.projection = NewProjection]

ApplySnapshotUnseen(c, rec) ==   \* mutant: the segment is not remembered
  IF c.pending = None THEN Fail(c, "FeatureSegmentInvalid")
  ELSE [c EXCEPT !.projection = Project(NewProjection, rec.type, rec.body),
                 !.segment = rec.segment, !.evidence = c.pending.evidence,
                 !.seed = c.pending.ordinal, !.from = rec.ordinal,
                 !.applied = rec.ordinal, !.pending = None, !.state = "valid"]

\* apply_market_event, for a snapshot: it must be the one its boundary announced.
ApplySnapshot(c, rec) ==
  IF \/ c.pending = None
     \/ <<rec.ticker, rec.segment, rec.scope, rec.ordinal>>
          # <<c.pending.ticker, c.pending.segment, c.pending.scope, c.pending.ordinal>>
     \/ ~rec.valid
    THEN Fail(c, "FeatureSegmentInvalid")
    ELSE [c EXCEPT !.projection = Project(NewProjection, rec.type, rec.body),
                   !.segment = rec.segment, !.evidence = c.pending.evidence,
                   !.seen = @ \union {rec.segment}, !.seed = c.pending.ordinal, !.from = rec.ordinal,
                   !.applied = rec.ordinal, !.pending = None, !.state = "valid"]

\* apply_market_event, for a delta or a trade.  A trade outside a segment is
\* passed over; a delta outside one is an error.
ApplyUpdate(c, rec) ==
  LET projected == Project(c.projection, rec.type, rec.body)
  IN IF c.pending # None THEN Fail(c, "FeatureSegmentInvalid")
     ELSE IF rec.type = "trade" /\ c.state # "valid" THEN [c EXCEPT !.applied = rec.ordinal]
     ELSE IF c.state # "valid" \/ ~rec.valid \/ rec.segment # c.segment
       THEN Fail(c, "FeatureBookStateInvalid")
     ELSE IF projected = None THEN Fail(c, "FeatureProjectionInvalid")
     ELSE [c EXCEPT !.projection = projected, !.applied = rec.ordinal]

\* apply_market_event
ApplyMarketEvent(c, rec) ==
  IF rec.ticker # c.ticker \/ rec.market # c.market THEN Fail(c, "FeatureProductIdentityMismatch")
  ELSE IF rec.type = "orderbook_snapshot" THEN ApplySnapshot(c, rec)
  ELSE ApplyUpdate(c, rec)

\* One normalized record, given to the cursors it concerns.
Follow(cursors, rec) ==
  CASE rec.kind = "segment_boundary" ->
         [cursors EXCEPT ![rec.ticker] = StartSegment(@, rec)]
    [] rec.kind = "discontinuity" ->
         [t \in DOMAIN cursors |->
            IF t \in rec.affected THEN InvalidateCursor(cursors[t], rec) ELSE cursors[t]]
    [] rec.kind = "market_event" ->
         [cursors EXCEPT ![rec.ticker] = ApplyMarketEvent(@, rec)]

-----------------------------------------------------------------------------
(* materialize_features_v3: the rows of a complete normalization.              *)

\* The loop's state: the cursors, the rows, the last ordinal and the error.
NewFeatures(ids) ==
  [cursors |-> [t \in DOMAIN ids |-> NewCursor(t, ids[t])], rows |-> <<>>, ordinal |-> 0, error |-> None]

PendingIn(m) == {t \in DOMAIN m.cursors : m.cursors[t].pending # None}

\* A pending boundary must be followed at once by the snapshot it announced.
BoundaryUnmatched(m, rec) ==
  \E t \in PendingIn(m) :
    LET boundary == m.cursors[t].pending
    IN ~ /\ rec.kind = "market_event" /\ rec.type = "orderbook_snapshot"
         /\ <<rec.ticker, rec.segment, rec.scope, rec.ordinal>>
              = <<boundary.ticker, boundary.segment, boundary.scope, boundary.ordinal>>

Materialize(m, rec) ==
  LET followed == Follow(m.cursors, rec)
      failed == {t \in DOMAIN followed : followed[t].error # None}
      shown == rec.kind = "market_event" /\ followed[rec.ticker].state = "valid"
      row == [ticker |-> rec.ticker, segment |-> followed[rec.ticker].segment,
              ordinal |-> rec.ordinal, time |-> rec.time, type |-> rec.type,
              book |-> followed[rec.ticker].projection.book]
  IN IF m.error # None THEN m
     ELSE IF rec.ordinal < m.ordinal THEN [m EXCEPT !.error = "FeatureOrderingInvalid"]
     ELSE IF BoundaryUnmatched(m, rec) THEN [m EXCEPT !.error = "FeatureSegmentInvalid"]
     ELSE IF rec.kind = "discontinuity" THEN [m EXCEPT !.error = "FeatureInputContinuityRequired"]
     ELSE IF failed # {} THEN [m EXCEPT !.error = followed[CHOOSE t \in failed : TRUE].error]
     ELSE [m EXCEPT !.cursors = followed, !.ordinal = rec.ordinal,
                    !.rows = IF shown THEN Append(@, row) ELSE @]

\* The rows of a file, with the cursors and the error after its last record.
Materialized(ids, file) ==
  LET after[i \in 0..Len(file)] ==
        IF i = 0 THEN NewFeatures(ids) ELSE Materialize(after[i - 1], file[i])
  IN after[Len(file)]

\* The features of a file, or the code they are refused with.
Features(completeness, ids, file) ==
  LET m == Materialized(ids, file)
  IN IF completeness # "complete_observed_interval"
       THEN [m EXCEPT !.error = "FeatureInputContinuityRequired"]
     ELSE IF m.error = None /\ PendingIn(m) # {}
       THEN [m EXCEPT !.error = "FeatureSegmentInvalid"]
     ELSE m
=============================================================================
