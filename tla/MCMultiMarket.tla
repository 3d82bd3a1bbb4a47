---------------------------- MODULE MCMultiMarket ----------------------------
(* Two products; files of a few records each, quotes at 1 to 4 cents, prices   *)
(* counted in half cents.                                                      *)
EXTENDS MultiMarket

Rec(kind, type, t, segment, time, bid, ask, price, q) ==
  [kind |-> kind, type |-> type, ticker |-> t, segment |-> segment, time |-> time,
   bid |-> Cent * bid, ask |-> Cent * ask, price |-> Cent * price, quantity |-> q, fraction |-> FALSE]
Boundary(t, s, time) == Rec("segment_boundary", "none", t, s, time, 0, 0, 0, 0)
Book(type, t, s, time, bid, ask) == Rec("market_event", type, t, s, time, bid, ask, 0, 0)
Deal(t, s, time, price, q) == Rec("market_event", "trade", t, s, time, 1, 3, price, q)
Opening(t, s, time) == <<Boundary(t, s, time), Book("book_snapshot", t, s, time, 1, 3)>>

\* What may follow a snapshot of a segment at a time: a quotable book, one
\* that is not, and trades through one side or both.
Deals(t, s, time) == {Deal(t, s, time, price, q) : price \in {1, 3}, q \in {1, 3}}
After(t, s, time) ==
  {Book("book_delta", t, s, time, 2, 4), Book("book_delta", t, s, time, 0, 3)} \union Deals(t, s, time)
Close(t, s, time) == {Book("book_delta", t, s, time, 2, 4), Deal(t, s, time, 1, 3)}

TwoProducts == <<"KX-A", "KX-B">>
A == Products[1]
B == Products[2]
OneProduct ==
  {Opening(A, "s1", 0) \o Opening(B, "s1", 0) \o <<x, y, z>> :
     x \in After(A, "s1", 1), y \in Deals(A, "s1", 1), z \in Close(A, "s1", 3)}
Interleaved ==
  {Opening(A, "s1", 0) \o <<x>> \o Opening(B, "s1", 1) \o <<y, z>> :
     x \in After(A, "s1", 1), y \in Deals(B, "s1", 2), z \in Close(A, "s1", 2)}
TwoSegments ==
  {Opening(A, "s1", 0) \o Opening(B, "s1", 0) \o <<x>> \o Opening(A, "s2", 2) \o <<y>> :
     x \in After(A, "s1", 1), y \in Close(A, "s2", 3)}
IllFormed ==
  {<<Boundary(A, "s1", 0)>>,
   <<Boundary(A, "s1", 0), Book("book_delta", A, "s1", 0, 1, 3), Book("book_delta", A, "s1", 1, 1, 3)>>,
   Opening(A, "s1", 1) \o Opening(B, "s1", 0),
   Opening(A, "s1", 0) \o Opening(B, "s1", 0) \o <<Rec("discontinuity", "none", A, "s1", 1, 0, 0, 0, 0)>>,
   Opening(A, "s1", 0) \o Opening(B, "s1", 0) \o <<Boundary(A, "s2", 1), Book("book_delta", A, "s1", 1, 2, 4)>>}
\* What is not exact: a fraction of a contract traded, before or after the
\* orders are served whole, a bid between two cents; and a product without rows.
AndAHalf(rec) == [rec EXCEPT !.fraction = TRUE]
Inexact ==
  {Opening(A, "s1", 0) \o Opening(B, "s1", 0) \o <<AndAHalf(x), y>> :
     x \in {Deal(A, "s1", 1, 1, q) : q \in 0..2}, y \in Close(A, "s1", 3)} \union
  {Opening(A, "s1", 0) \o Opening(B, "s1", 0) \o
     <<[Book("book_delta", A, "s1", 1, 2, 4) EXCEPT !.bid = @ + 1], Deal(B, "s1", 2, 1, 1)>>} \union
  {Opening(A, "s1", 0) \o <<x>> : x \in After(A, "s1", 1)}
Files == Inexact \union OneProduct \union Interleaved \union TwoSegments \union IllFormed

Declared(marketData, decision, order, ack, fill, cancel, interval, lifetime, model) ==
  [marketData |-> marketData, decision |-> decision, order |-> order, acknowledgement |-> ack, fill |-> fill,
   cancellation |-> cancel, interval |-> interval, lifetime |-> lifetime, model |-> model,
   spread |-> Cent, whole |-> TRUE]
Same(d) == [t \in Tickers |-> d]
Latencies ==
  {Same(Declared(0, 0, 0, a, f, c, 1, l, "trade_touch_v1")) :
     a \in {0, 1}, f \in {0, 1}, c \in {0, 2}, l \in {1, 4}} \union
  {Same(Declared(m, d, o, 0, 1, 1, 1, 2, "trade_touch_v1")) : m \in {0, 2}, d \in {0, 1}, o \in {0, 1}} \union
  {[t \in Tickers |-> IF t = A THEN Declared(2, 0, 0, 0, 0, 0, 1, 1, "trade_touch_v1")
                      ELSE Declared(0, 0, 0, 0, 1, 1, 2, 2, "no_fill_v1")]} \union
  {[t \in Tickers |-> [Declared(0, 0, 1, 0, 0, 0, 1, 2, "trade_touch_v1") EXCEPT !.whole = (t = A)]]}
===============================================================================
