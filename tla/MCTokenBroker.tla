---------------------------- MODULE MCTokenBroker ----------------------------
(* Small instances of TokenBroker for TLC. *)
EXTENDS TokenBroker, TLC

Interchangeable == Permutations(Processes)
=============================================================================
