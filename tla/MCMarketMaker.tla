---------------------------- MODULE MCMarketMaker ----------------------------
(* A small instance of MarketMaker for TLC. *)
EXTENDS MarketMaker

CONSTANTS maker, buyer, seller

Request(trader, price, quantity) ==
  [trader |-> trader, side |-> IF trader = buyer THEN "Buy" ELSE "Sell", price |-> price,
   quantity |-> quantity, post_only |-> FALSE, valid |-> TRUE]

\* Orders that take the maker's quotes whole and in part, that rest outside them
\* and trade with each other, a market order, and the market's lifecycle.
MCExternal ==
  {Submission(Request(buyer, 3, 2)), Submission(Request(seller, 1, 2)),
   Submission(Request(seller, 1, 1)), Submission(Request(buyer, 0, 1)),
   Submission(Request(buyer, NoPrice, 1)), Lifecycle("Halted"), Lifecycle("Closed")}

MCPrices == 0..3
MCOrders == 1..9
=============================================================================
