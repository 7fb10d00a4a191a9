---------------------------- MODULE OrderedDict ----------------------------
(***************************************************************************)
(* collections.OrderedDict as the caches use it: its keys as a sequence,   *)
(* the one not touched for longest first.  A cache moves a key it finds to *)
(* the end (move_to_end) and drops from the front (popitem).               *)
(***************************************************************************)
EXTENDS Naturals, Sequences

In(k, dict) == \E i \in DOMAIN dict : dict[i] = k
Place(dict, k) == CHOOSE i \in DOMAIN dict : dict[i] = k

(* For a key of the dict only.                                              *)
Without(dict, k) ==
    [i \in 1..(Len(dict) - 1) |-> IF i < Place(dict, k) THEN dict[i] ELSE dict[i + 1]]

MovedToEnd(dict, k) == Append(Without(dict, k), k)
=============================================================================
