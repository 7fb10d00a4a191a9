---------------------------- MODULE MCUserFiles ----------------------------
(* Instance of UserFiles for TLC: one service, in both stores.              *)
EXTENDS UserFiles

CONSTANTS s1, owner
=============================================================================
