-------------------------- MODULE MCPendingSetups --------------------------
(* Instance of PendingSetups for TLC: interchangeable setups and calls.     *)
EXTENDS PendingSetups, TLC

CONSTANTS a, b, c1, c2

Symmetry == Permutations(Setups) \cup Permutations(Callers)
=============================================================================
