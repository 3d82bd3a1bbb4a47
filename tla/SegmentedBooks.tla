---------------------------- MODULE SegmentedBooks ----------------------------
(* What SegmentAwareProductCursor (src/python/pmm_phase7.py) promises: "one    *)
(* product-owned projection whose mutable book never crosses a segment".  A    *)
(* ticker's book is hidden, or shown inside its current segment; a shown book  *)
(* moves one level at a time; a hidden book comes back only in a new segment.  *)
EXTENDS Integers

CONSTANTS Tickers, Levels, None

VARIABLES
  book,    \* per ticker, the shown book, or None
  segment  \* per ticker, the number of segments so far

Init == book = [t \in Tickers |-> None] /\ segment = [t \in Tickers |-> 0]

Hidden(t) == book'[t] = None /\ segment'[t] = segment[t]

Opened(t) == segment'[t] = segment[t] + 1 /\ book'[t] \in [Levels -> Nat]

Moved(t) ==
  /\ book[t] # None /\ segment'[t] = segment[t]
  /\ book'[t] \in [Levels -> Nat]
  /\ \E l \in Levels : book'[t] = [book[t] EXCEPT ![l] = book'[t][l]]

Kept(t) == book'[t] = book[t] /\ segment'[t] = segment[t]

\* One record opens or moves at most one book; it may hide any of the others.
Next ==
  /\ DOMAIN book' = Tickers /\ DOMAIN segment' = Tickers
  /\ \A t \in Tickers : Hidden(t) \/ Opened(t) \/ Moved(t) \/ Kept(t)
  /\ \A t, u \in Tickers :
       (Opened(t) \/ Moved(t)) /\ ~Kept(t) /\ (Opened(u) \/ Moved(u)) /\ ~Kept(u) => t = u

Spec == Init /\ [][Next]_<<book, segment>>
=============================================================================
