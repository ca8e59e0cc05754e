----------------------------- MODULE MCMpmcQueue -----------------------------
(* MpmcQueue on small instances. *)
EXTENDS MpmcQueue, TLC

Symmetry == Permutations(Producer) \cup Permutations(Consumer) \cup Permutations(Item)
=============================================================================
