-------------------------- MODULE MCOrderLifecycle --------------------------
(* OrderLifecycle for TLC: orders and symbols are interchangeable. *)
EXTENDS OrderLifecycle

Symmetry == Permutations(OrderIds) \cup Permutations(Symbols)
=============================================================================
