---------------------------- MODULE MCPagination ----------------------------
(* Pagination with small pages and limits, for TLC.                         *)
EXTENDS Pagination

SmallLimits == {-1, 0, 1, 2, 3, 5}
=============================================================================
