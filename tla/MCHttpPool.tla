----------------------------- MODULE MCHttpPool -----------------------------
(* Instance of HttpPool for TLC: one service more than the pool holds.       *)
EXTENDS HttpPool

CONSTANTS a, b, d, c1, c2
=============================================================================
