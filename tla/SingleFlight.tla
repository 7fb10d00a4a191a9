---------------------------- MODULE SingleFlight ----------------------------
(***************************************************************************)
(* What a cache of fetched values promises when its callers overlap: a     *)
(* value is fetched only if no usable one is at hand and nobody else is    *)
(* fetching it.  How callers wait for each other is left open.  The cache  *)
(* may lose track of callers, for want of room; those it has lost neither  *)
(* keep others from fetching nor are kept.                                 *)
(***************************************************************************)
CONSTANTS
    Callers,
    Keys,
    NoKey       \* stands for "fetches nothing"

VARIABLES
    fetching,   \* the key each caller is fetching
    usable,     \* keys whose cached value may be handed out
    lost        \* callers the cache has lost track of

vars == <<fetching, usable, lost>>

Init ==
    /\ fetching = [c \in Callers |-> NoKey]
    /\ usable = {}
    /\ lost = {}

Fetches(c, k) == c \notin lost /\ fetching[c] = k

Begin(c, k) ==
    /\ fetching[c] = NoKey
    /\ k \notin usable
    /\ c \in lost \/ \A d \in Callers : ~Fetches(d, k)
    /\ fetching' = [fetching EXCEPT ![c] = k]
    /\ UNCHANGED <<usable, lost>>

(* The fetched value enters the cache, unless it is unusable already, and   *)
(* may push others out.                                                     *)
End(c) ==
    /\ fetching[c] # NoKey
    /\ fetching' = [fetching EXCEPT ![c] = NoKey]
    /\ usable' \subseteq usable \cup {fetching[c]}
    /\ lost' = lost \ {c}

Forget ==
    /\ usable' \subseteq usable
    /\ UNCHANGED <<fetching, lost>>

(* Callers are lost together, as they wait or fetch, and turn up again only *)
(* when they are through.                                                   *)
LoseTrack ==
    /\ lost' \subseteq Callers
    /\ lost \subseteq lost'
    /\ UNCHANGED <<fetching, usable>>

Return(c) ==
    /\ fetching[c] = NoKey
    /\ lost' = lost \ {c}
    /\ UNCHANGED <<fetching, usable>>

Next ==
    \/ \E c \in Callers : End(c) \/ Return(c) \/ \E k \in Keys : Begin(c, k)
    \/ Forget \/ LoseTrack

Spec == Init /\ [][Next]_vars
=============================================================================
