------------------------------- MODULE MCReplay -------------------------------
(* A small instance of Replay for TLC. *)
EXTENDS Replay
=============================================================================
