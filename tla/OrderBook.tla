----------------------------- MODULE OrderBook -----------------------------
(***************************************************************************)
(* The limit order book of one contract (src/cpp/src/book/order_book.cpp). *)
(*                                                                         *)
(* Live orders hang in FIFO queues, one per side and price of a dense      *)
(* ladder.  A level caches its total quantity, its order count and its     *)
(* occupancy bit; matching trusts the caches to find the next level.  The  *)
(* 64-bit occupancy words are abstracted to one Boolean per level and the  *)
(* identities of traders, orders and prices to small sets.  A call that    *)
(* returns an error changes nothing and is no step.                        *)
(***************************************************************************)
EXTENDS Integers, Sequences, FiniteSets, SequencesExt, FiniteSetsExt

CONSTANTS
  Orders,        \* order identifiers
  Traders,
  Prices,        \* the ladder: a finite set of numbers
  Quantities,    \* quantities of incoming orders
  NoPrice,       \* the limit price of a market order
  MaxAggregate,  \* largest total of a level (the code's 2^64 - 1)
  MaxPriority,   \* last priority number the code hands out
  MaxTrade       \* trade identifiers run out after this one

Sides == {"Buy", "Sell"}
Opposite(side) == IF side = "Buy" THEN "Sell" ELSE "Buy"

ASSUME LadderAssumption ==
  /\ Prices \subseteq Nat /\ IsFiniteSet(Prices) /\ NoPrice \notin Prices
  /\ Quantities \subseteq Nat \ {0}
  /\ {MaxAggregate, MaxPriority, MaxTrade} \subseteq Nat

VARIABLES
  live,          \* live_orders_: identifier -> OrderNode
  levels,        \* bids_ and asks_: side -> price -> PriceLevel
  nextPriority,  \* next_priority_sequence_
  nextTrade      \* the next identifier of the execution id source

vars == <<live, levels, nextPriority, nextTrade>>

OrderNode ==
  [trader : Traders, side : Sides, price : Prices, quantity : Quantities,
   remaining : Nat \ {0}, priority : Nat]
Incoming ==
  [id : Orders, trader : Traders, side : Sides, price : Prices \union {NoPrice},
   quantity : Quantities]
IsLimit(in) == in.price # NoPrice

EmptyLevel == [queue |-> <<>>, total |-> 0, count |-> 0, occupied |-> FALSE]
NoBook == [live |-> [o \in {} |-> {}], levels |-> [s \in Sides |-> [p \in Prices |-> EmptyLevel]]]
Book == [live |-> live, levels |-> levels]

-----------------------------------------------------------------------------
(***************************************************************************)
(* Linking and unlinking, as functions from a book to a book.              *)
(***************************************************************************)
Link(book, o, node) ==
  [live |-> [x \in DOMAIN book.live \union {o} |-> IF x = o THEN node ELSE book.live[x]],
   levels |-> [book.levels EXCEPT ![node.side][node.price] =
     [queue |-> Append(@.queue, o), total |-> @.total + node.remaining,
      count |-> @.count + 1, occupied |-> TRUE]]]

Unlink(book, o) ==
  LET node == book.live[o]
      queue == book.levels[node.side][node.price].queue
      place == CHOOSE i \in DOMAIN queue : queue[i] = o
  IN [live |-> [x \in DOMAIN book.live \ {o} |-> book.live[x]],
      levels |-> [book.levels EXCEPT ![node.side][node.price] =
        [queue |-> RemoveAt(queue, place), total |-> @.total - node.remaining,
         count |-> @.count - 1, occupied |-> @.count > 1]]]

\* One planned match: the resting order and its level lose the quantity; an
\* order with nothing left leaves the book.
ApplyMatch(book, match) ==
  LET o == match.order
      node == book.live[o]
      reduced == [live |-> [book.live EXCEPT ![o].remaining = @ - match.quantity],
                  levels |-> [book.levels EXCEPT ![node.side][node.price].total = @ - match.quantity]]
  IN IF node.remaining = match.quantity THEN Unlink(reduced, o) ELSE reduced

-----------------------------------------------------------------------------
(***************************************************************************)
(* Match planning.                                                         *)
(***************************************************************************)
Crosses(in, price) ==
  IsLimit(in) => IF in.side = "Buy" THEN in.price >= price ELSE in.price <= price

BetterAscending(side, p, q) == p < q   \* mutant: bids are scanned upwards too

\* best_index and next_index scan from the best price of a side.
Better(side, p, q) == IF side = "Buy" THEN p > q ELSE p < q

Occupied(side) == {p \in Prices : levels[side][p].occupied}

\* A finite set listed by a strict total order on it.
InOrder(S, before) ==
  [k \in 1..Cardinality(S) |-> CHOOSE x \in S : Cardinality({y \in S : <<y, x>> \in before}) = k - 1]

\* The resting orders an incoming order walks along: the occupied levels it
\* crosses, best first, and each queue from its head.
Walk(in) ==
  LET side == Opposite(in.side)
      places == UNION {{p} \X DOMAIN levels[side][p].queue : p \in {q \in Occupied(side) : Crosses(in, q)}}
      before == {e \in places \X places :
                   Better(side, e[1][1], e[2][1]) \/ (e[1][1] = e[2][1] /\ e[1][2] < e[2][2])}
      scanned == InOrder(places, before)
  IN [k \in DOMAIN scanned |-> levels[side][scanned[k][1]].queue[scanned[k][2]]]

\* The sum of a function into the natural numbers.
Units(f) == Cardinality(UNION {{x} \X (1..f[x]) : x \in DOMAIN f})

\* What a set of orders has remaining.
Total(nodes, S) == Units([o \in S |-> nodes[o].remaining])

\* What is left of the incoming order once it has consumed n orders of its walk.
LeftAfter(in, walk, n) == in.quantity - Total(live, {walk[k] : k \in 1..n})

Planned(in, walk, n) ==
  [k \in 1..n |-> [order |-> walk[k], quantity |-> Min({LeftAfter(in, walk, k - 1), live[walk[k]].remaining})]]

PlanMatchesSkipsOwn(in) ==   \* mutant: own orders are passed over, not stopped at
  LET walk == SelectSeq(Walk(in), LAMBDA o : live[o].trader # in.trader)
      reached == {k \in DOMAIN walk : LeftAfter(in, walk, k - 1) > 0}
  IN [matches |-> Planned(in, walk, Cardinality(reached)), self_trade_prevented |-> FALSE]

\* plan_matches: consume the walk until nothing is left or the trader meets an
\* order of its own.
PlanMatches(in) ==
  LET walk == Walk(in)
      reached == {k \in DOMAIN walk :
                    /\ LeftAfter(in, walk, k - 1) > 0
                    /\ \A j \in 1..k : live[walk[j]].trader # in.trader}
      n == Cardinality(reached)
  IN [matches |-> Planned(in, walk, n),
      self_trade_prevented |-> n < Len(walk) /\ LeftAfter(in, walk, n) > 0]

Unmatched(in, plan) ==
  in.quantity - Units([k \in DOMAIN plan.matches |-> plan.matches[k].quantity])
Rests(in, plan) ==
  ~plan.self_trade_prevented /\ Unmatched(in, plan) # 0 /\ IsLimit(in)

-----------------------------------------------------------------------------
(***************************************************************************)
(* Operations.                                                             *)
(***************************************************************************)
SubmitAccepted(in) ==
  LET plan == PlanMatches(in)
  IN /\ in.id \notin DOMAIN live
     /\ Rests(in, plan) =>
          /\ nextPriority <= MaxPriority
          /\ levels[in.side][in.price].total + Unmatched(in, plan) <= MaxAggregate
     /\ nextTrade + Len(plan.matches) <= MaxTrade + 1

\* The book after the matches, applied one by one.
AfterMatches(matches) ==
  LET after[k \in 0..Len(matches)] == IF k = 0 THEN Book ELSE ApplyMatch(after[k - 1], matches[k])
  IN after[Len(matches)]

Submit(in) ==
  LET plan == PlanMatches(in)
      filled == AfterMatches(plan.matches)
      node == [trader |-> in.trader, side |-> in.side, price |-> in.price, quantity |-> in.quantity,
               remaining |-> Unmatched(in, plan), priority |-> nextPriority]
      after == IF Rests(in, plan) THEN Link(filled, in.id, node) ELSE filled
  IN /\ SubmitAccepted(in)
     /\ live' = after.live /\ levels' = after.levels
     /\ nextPriority' = IF Rests(in, plan) THEN nextPriority + 1 ELSE nextPriority
     /\ nextTrade' = nextTrade + Len(plan.matches)

\* The status and the remainder submit reports for the incoming order.
Outcome(in) ==
  LET plan == PlanMatches(in)
      left == Unmatched(in, plan)
  IN [remaining |-> left,
      status |-> IF plan.self_trade_prevented THEN "Cancelled"
                 ELSE IF left = 0 THEN "Filled"
                 ELSE IF ~IsLimit(in) THEN "Expired"
                 ELSE IF left = in.quantity THEN "Resting" ELSE "PartiallyFilled"]

PreviewForgetsRest(in) ==   \* mutant: an order that only rests changes no depth
  LET plan == PlanMatches(in)
  IN [execution_count |-> Len(plan.matches), changes_displayed_depth |-> plan.matches # <<>>]

\* preview_submit
Preview(in) ==
  LET plan == PlanMatches(in)
  IN [execution_count |-> Len(plan.matches),
      changes_displayed_depth |-> plan.matches # <<>> \/ Rests(in, plan)]

Cancel(o) ==
  /\ o \in DOMAIN live
  /\ live' = Unlink(Book, o).live
  /\ levels' = Unlink(Book, o).levels
  /\ UNCHANGED <<nextPriority, nextTrade>>

\* snapshot at full depth: price, total and count of the nonempty levels.
Snapshot(lad) ==
  [s \in Sides |-> {<<p, lad[s][p].total, lad[s][p].count>> : p \in {q \in Prices : lad[s][q].count # 0}}]

-----------------------------------------------------------------------------
(***************************************************************************)
(* Checkpoints.                                                            *)
(***************************************************************************)
\* The resting orders in the order of their priority numbers.
ByPriority ==
  LET resting == DOMAIN live
  IN InOrder(resting, {e \in resting \X resting : live[e[1]].priority < live[e[2]].priority})

RestingOf(orders) == [k \in DOMAIN orders |-> [id |-> orders[k], node |-> live[orders[k]]]]

Checkpoint == [resting |-> RestingOf(ByPriority), next |-> nextPriority]

\* restore: the book after each entry of the document is linked, in its order.
Relinked(resting) ==
  LET after[k \in 0..Len(resting)] ==
        IF k = 0 THEN NoBook ELSE Link(after[k - 1], resting[k].id, resting[k].node)
  IN after

Restored(doc) == Relinked(doc.resting)[Len(doc.resting)]

RestoreAccepts(doc) ==
  LET books == Relinked(doc.resting)
  IN \A k \in DOMAIN doc.resting :
    LET node == doc.resting[k].node
        book == books[k - 1]
    IN /\ node.remaining # 0 /\ node.remaining <= node.quantity /\ node.priority < doc.next
       /\ doc.resting[k].id \notin DOMAIN book.live
       /\ book.levels[node.side][node.price].total + node.remaining <= MaxAggregate

-----------------------------------------------------------------------------
Init ==
  /\ live = NoBook.live /\ levels = NoBook.levels
  /\ nextPriority = 1
  /\ nextTrade = 1

-----------------------------------------------------------------------------
(***************************************************************************)
(* Properties.                                                             *)
(***************************************************************************)
Depth(nodes, side) == Total(nodes, {o \in DOMAIN nodes : nodes[o].side = side})

\* Every live order is a well-formed node.
TypeOK ==
  /\ DOMAIN live \subseteq Orders
  /\ \A o \in DOMAIN live : live[o] \in OrderNode /\ live[o].remaining <= live[o].quantity
  /\ nextPriority \in 1..(MaxPriority + 1)
  /\ nextTrade \in 1..(MaxTrade + 1)

\* validate_invariants: each live order is queued exactly once, at its own side
\* and price, behind every order of smaller priority, and the cached total,
\* count and occupancy of a level are those of its queue.
Consistent(book) ==
  \A s \in Sides, p \in Prices :
    LET level == book.levels[s][p]
        nodes == book.live
        mine == {o \in DOMAIN nodes : nodes[o].side = s /\ nodes[o].price = p}
    IN /\ ToSet(level.queue) = mine
       /\ Len(level.queue) = Cardinality(mine)
       /\ \A i, j \in DOMAIN level.queue :
            i < j => nodes[level.queue[i]].priority < nodes[level.queue[j]].priority
       /\ level.total = Total(nodes, mine)
       /\ level.count = Cardinality(mine)
       /\ level.occupied <=> mine # {}

LevelsMatchOrders == Consistent(Book)

\* The resting book is never crossed or locked, although self-trade prevention
\* stops an order in front of liquidity it could have taken.
NeverCrossed ==
  \A a, b \in DOMAIN live :
    live[a].side = "Buy" /\ live[b].side = "Sell" => live[a].price < live[b].price

Ahead(a, b) ==   \* order a has price-time priority over order b of the same side
  /\ live[a].side = live[b].side
  /\ \/ IF live[a].side = "Buy" THEN live[a].price > live[b].price
                                ELSE live[a].price < live[b].price
     \/ live[a].price = live[b].price /\ live[a].priority < live[b].priority

\* An order executes only when every order with priority over it has executed
\* completely: by the first-in-first-out queues, without a global sort.
PriceTimePriority ==
  [][\A a, b \in DOMAIN live :
       /\ nextTrade' # nextTrade
       /\ Ahead(a, b)
       /\ b \in DOMAIN live' => live'[b].remaining < live[b].remaining
       => a \notin DOMAIN live']_vars

\* Submitting loses and creates no quantity: what leaves the opposite side and
\* what joins the own side account for the order together with the remainder
\* it reports as cancelled or expired.
QuantityConserved(in) ==
  LET taken == Depth(live, Opposite(in.side)) - Depth(live', Opposite(in.side))
      added == Depth(live', in.side) - Depth(live, in.side)
      lost == IF Outcome(in).status \in {"Cancelled", "Expired"} THEN Outcome(in).remaining ELSE 0
  IN /\ in.quantity = taken + added + lost
     /\ taken = in.quantity - Outcome(in).remaining

\* The preview tells exactly what submit then does: the exchange reserves event
\* capacity from it and takes the sequence numbers unchecked.
PreviewIsExact(in) ==
  /\ Preview(in).execution_count = nextTrade' - nextTrade
  /\ Preview(in).changes_displayed_depth <=> Snapshot(levels) # Snapshot(levels')

\* restore accepts what checkpoint captured and rebuilds the same book from it.
RestoreRoundTrip == RestoreAccepts(Checkpoint) /\ Restored(Checkpoint) = Book

\* The book as one invariant: what validate_invariants asks of the caches, the
\* matching rule seen from outside, and the checkpoint.
BookConsistent == TypeOK /\ LevelsMatchOrders /\ NeverCrossed /\ RestoreRoundTrip

\* Every submission that changes the book conserves quantity, and was previewed
\* exactly.
SubmitIsExact ==
  [][vars' # vars => \A in \in Incoming : Submit(in) => QuantityConserved(in) /\ PreviewIsExact(in)]_vars

=============================================================================
