--------------------------- MODULE MCStateManager ----------------------------
(* Instances of SimpleSchedulerStateManager for TLC. *)
EXTENDS SimpleSchedulerStateManager, TLC

CONSTANTS op1, op2, op3, c1, c2, c3, k1, w1, w2, a1, a2

Symmetry == Permutations(Operations) \cup Permutations(Clients)
            \cup Permutations(Workers) \cup Permutations(Callers)
=============================================================================
