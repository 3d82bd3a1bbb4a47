------------------------------ MODULE MCCapture ------------------------------
(* A small instance of CapturePipeline for TLC: one requested ticker, and a    *)
(* venue that may acknowledge wrongly, skip and repeat sequences, leave them   *)
(* out, send one that is no number, and send what nobody asked for.            *)
EXTENDS CapturePipeline

CONSTANT NotInt   \* a sequence that is no number

Ack(id, channel, sid) == [type |-> "subscribed", id |-> id, channel |-> channel, sid |-> sid]
Data(type, sid, seq, ticker) ==
  [type |-> type, sid |-> sid, seq |-> seq, ticker |-> ticker, market |-> "m", ts |-> None, body |-> None]

MCFrames ==
  {Ack(1, "orderbook_delta", "s1"), Ack(1, "trade", "s2"),
   Ack(2, "orderbook_delta", "s1"), Ack(2, "trade", "s2"),
   Data("orderbook_snapshot", "s1", 1, "a"),
   Data("orderbook_delta", "s1", 1, "a"), Data("orderbook_delta", "s1", 2, "a"),
   Data("orderbook_delta", "s1", None, "a"), Data("orderbook_delta", "s1", 3, "a"),
   Data("trade", "s2", None, "a"), Data("trade", "s2", NotInt, "a"), Data("trade", "s2", None, "x"),
   [type |-> "binary"], [type |-> "malformed"], [type |-> "error", id |-> 1]}
=============================================================================
