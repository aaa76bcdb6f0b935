----------------------------- MODULE MCScheduler -----------------------------
(* Instances of SimpleScheduler for TLC. *)
EXTENDS SimpleScheduler, TLC

CONSTANTS c1, c2, k1, w1, w2

Symmetry == Permutations(Clients) \cup Permutations(Workers)
=============================================================================
