--------------------------- MODULE MCAccountRisk ---------------------------
(* Small instances of AccountRisk for TLC. *)
EXTENDS AccountRisk

CONSTANTS o1, o2, i1, i2, g1, g2

LiveDoc(o, s, q) == [id |-> o, side |-> s, quantity |-> q]
PendingDoc(i, s, q, p, g) ==
  [id |-> i, side |-> s, quantity |-> q, post_only |-> p, ingress |-> g]

\* Documents as the restore fixtures author them: a plain one, one that holds
\* every kind of record, and one per rule that refuses it (a duplicate order,
\* a shared ingress number, exposure over a limit, a position that the open
\* orders can push over the limit).
MCDocuments ==
  {[watermark |-> w, net |-> n, kill |-> TRUE, live |-> L, pending |-> P] :
     w \in {1}, n \in {0, 2},
     L \in {{}, {LiveDoc(o1, "Buy", 1)}, {LiveDoc(o1, "Buy", 1), LiveDoc(o1, "Sell", 1)},
            {LiveDoc(o1, "Sell", 2), LiveDoc(o2, "Sell", 1)}},
     P \in {{}, {PendingDoc(i1, "Buy", 1, TRUE, g1)},
            {PendingDoc(i1, "Buy", 1, TRUE, g1), PendingDoc(i2, "Sell", 1, TRUE, g1)}}}
=============================================================================
