----------------------------- MODULE MCSessions -----------------------------
(* Instance of Sessions for TLC: interchangeable sessions and calls.         *)
EXTENDS Sessions, TLC

CONSTANTS u1, s1, s2, q1, q2

Symmetry == Permutations(SessionIds) \cup Permutations(Requests)
=============================================================================
