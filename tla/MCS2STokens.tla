---------------------------- MODULE MCS2STokens ----------------------------
(* Instances of S2STokens for TLC, with as many or more keys than the cache. *)
EXTENDS S2STokens

CONSTANTS a, b, d, c1, c2, c3
=============================================================================
