----------------------------- MODULE MCExchange -----------------------------
(* A small instance of Exchange for TLC. *)
EXTENDS Exchange, TLC

CONSTANTS a, b

\* Traders are compared for equality only.
Interchangeable == Permutations({a, b})
=============================================================================
