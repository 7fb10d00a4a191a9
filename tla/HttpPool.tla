------------------------------ MODULE HttpPool ------------------------------
(***************************************************************************)
(* The pool of shared HTTP clients (src/asibot/http_pool.py) and the tool  *)
(* calls that use them.  A call asks the pool once and keeps the client    *)
(* for all its requests, retries and pages; the pool does not know who     *)
(* holds a client.  _pool_lock is held across every aclose, so evicting is *)
(* a step per client.  httpx marks a client closed when aclose starts, and *)
(* any request on it fails from then on.                                   *)
(***************************************************************************)
EXTENDS Naturals, FiniteSets, OrderedDict

CONSTANTS
    Services,      \* pool keys: base URL and default headers
    Calls,         \* tool calls (slots, reused)
    MaxClients,    \* _MAX_POOL_CLIENTS
    IdleTimeout    \* _IDLE_TIMEOUT, in ticks

ASSUME PoolAssumption ==
    /\ "none" \notin Services /\ "cleanup" \notin Calls /\ "none" \notin Calls
    /\ IsFiniteSet(Calls)
    /\ MaxClients \in Nat \ {0}
    /\ IdleTimeout \in Nat \ {0}

VARIABLES
    pool,     \* the keys of _pool, least recently used first
    pooled,   \* the client of each key in _pool
    idle,     \* ticks since a key's client was last asked for
    open,     \* clients not closed
    holder,   \* who holds _pool_lock: a call, the cleanup task, or nobody
    toEvict,  \* the keys cleanup_idle has yet to close
    toolCall  \* the local state of each tool call

poolVars == <<pool, pooled, idle, open, holder, toEvict, toolCall>>

(* A client is a key and a number that tells it from others of that key.    *)
ClientNumbers == 1..(Cardinality(Calls) + 1)
Clients == Services \X ClientNumbers
NoClient == <<"none", 0>>
NotInUse == [pc |-> "idle", key |-> "none", client |-> NoClient]
CallAt(pc, k, c) == [pc |-> pc, key |-> k, client |-> c]
Steps == {"idle", "asking", "evicting", "using"}

InPool(k) == In(k, pool)
HeldClients == {toolCall[c].client : c \in Calls}

PoolInit ==
    /\ pool = <<>>
    /\ pooled = [k \in Services |-> NoClient]
    /\ idle = [k \in Services |-> 0]
    /\ open = {}
    /\ holder = "none"
    /\ toEvict = {}
    /\ toolCall = [c \in Calls |-> NotInUse]

----------------------------------------------------------------------------
(* get_base_client *)

Ask(c, k) ==
    /\ toolCall[c].pc = "idle"
    /\ toolCall' = [toolCall EXCEPT ![c] = CallAt("asking", k, NoClient)]
    /\ UNCHANGED <<pool, pooled, idle, open, holder, toEvict>>

Reuse(c) ==
    LET k == toolCall[c].key IN
    /\ toolCall[c].pc = "asking"
    /\ holder = "none"
    /\ InPool(k)
    /\ idle' = [idle EXCEPT ![k] = 0]
    /\ pool' = MovedToEnd(pool, k)
    /\ toolCall' = [toolCall EXCEPT ![c] = CallAt("using", k, pooled[k])]
    /\ UNCHANGED <<pooled, open, holder, toEvict>>

(* popitem(last=False), and aclose under way.                               *)
Close(k) ==
    /\ pool' = Without(pool, k)
    /\ pooled' = [pooled EXCEPT ![k] = NoClient]
    /\ idle' = [idle EXCEPT ![k] = 0]
    /\ open' = open \ {pooled[k]}

(* The oldest client makes room; also after the previous one is closed.     *)
Evict(c) ==
    /\ \/ toolCall[c].pc = "asking" /\ holder = "none" /\ ~InPool(toolCall[c].key)
       \/ toolCall[c].pc = "evicting"
    /\ Len(pool) >= MaxClients
    /\ Close(Head(pool))
    /\ holder' = c
    /\ toolCall' = [toolCall EXCEPT ![c] = CallAt("evicting", toolCall[c].key, NoClient)]
    /\ UNCHANGED toEvict

(* Mutant: the pool may grow without limit.                                 *)
UnlimitedCreate(c) ==
    LET k == toolCall[c].key IN
    /\ \/ toolCall[c].pc = "asking" /\ holder = "none" /\ ~InPool(k)
       \/ toolCall[c].pc = "evicting"
    /\ LET n == CHOOSE i \in ClientNumbers : <<k, i>> \notin HeldClients \cup open
       IN  /\ pooled' = [pooled EXCEPT ![k] = <<k, n>>]
           /\ open' = open \cup {<<k, n>>}
           /\ toolCall' = [toolCall EXCEPT ![c] = CallAt("using", k, <<k, n>>)]
    /\ pool' = Append(pool, k)
    /\ idle' = [idle EXCEPT ![k] = 0]
    /\ holder' = "none"
    /\ UNCHANGED toEvict

(* There is room: a new client, its number one that nobody still refers to. *)
Create(c) ==
    LET k == toolCall[c].key IN
    /\ \/ toolCall[c].pc = "asking" /\ holder = "none" /\ ~InPool(k)
       \/ toolCall[c].pc = "evicting"
    /\ Len(pool) < MaxClients
    /\ LET n == CHOOSE i \in ClientNumbers : <<k, i>> \notin HeldClients \cup open
       IN  /\ pooled' = [pooled EXCEPT ![k] = <<k, n>>]
           /\ open' = open \cup {<<k, n>>}
           /\ toolCall' = [toolCall EXCEPT ![c] = CallAt("using", k, <<k, n>>)]
    /\ pool' = Append(pool, k)
    /\ idle' = [idle EXCEPT ![k] = 0]
    /\ holder' = "none"
    /\ UNCHANGED toEvict

(* Mutants: leaving `async with` closes the pooled client; a call cancelled *)
(* while it evicts keeps the lock.                                          *)
ClosingFinish(c) ==
    /\ toolCall[c].pc # "idle"
    /\ toolCall' = [toolCall EXCEPT ![c] = NotInUse]
    /\ open' = open \ {toolCall[c].client}
    /\ holder' = IF holder = c THEN "none" ELSE holder
    /\ UNCHANGED <<pool, pooled, idle, toEvict>>
LockedFinish(c) ==
    /\ toolCall[c].pc # "idle"
    /\ toolCall' = [toolCall EXCEPT ![c] = NotInUse]
    /\ UNCHANGED <<pool, pooled, idle, open, holder, toEvict>>

(* The call is done with its client, or is cancelled while it asks.         *)
Finish(c) ==
    /\ toolCall[c].pc # "idle"
    /\ toolCall' = [toolCall EXCEPT ![c] = NotInUse]
    /\ holder' = IF holder = c THEN "none" ELSE holder
    /\ UNCHANGED <<pool, pooled, idle, open, toEvict>>

----------------------------------------------------------------------------
(* cleanup_idle.  The list of idle keys is made under the lock, by a cutoff *)
(* taken before the lock was awaited: a key idle only since may be missing. *)
(* The lock is held until the last of them is closed.                       *)

IdleKeys == {k \in Services : InPool(k) /\ idle[k] >= IdleTimeout}

CleanupStart ==
    /\ holder = "none"
    /\ toEvict' \in SUBSET IdleKeys \ {{}}
    /\ holder' = "cleanup"
    /\ UNCHANGED <<pool, pooled, idle, open, toolCall>>

CleanupClose(k) ==
    /\ k \in toEvict
    /\ Close(k)
    /\ toEvict' = toEvict \ {k}
    /\ UNCHANGED <<holder, toolCall>>

CleanupEnd ==
    /\ holder = "cleanup"
    /\ toEvict = {}
    /\ holder' = "none"
    /\ UNCHANGED <<pool, pooled, idle, open, toEvict, toolCall>>

PoolTick ==
    /\ idle' = [k \in Services |-> IF InPool(k) /\ idle[k] < IdleTimeout
                                   THEN idle[k] + 1 ELSE idle[k]]
    /\ UNCHANGED <<pool, pooled, open, holder, toEvict, toolCall>>

PoolNext ==
    \/ \E c \in Calls : \/ \E k \in Services : Ask(c, k)
                        \/ Reuse(c)
                        \/ Evict(c)
                        \/ Create(c)
                        \/ Finish(c)
    \/ CleanupStart
    \/ \E k \in Services : CleanupClose(k)
    \/ CleanupEnd
    \/ PoolTick

PoolSpec == PoolInit /\ [][PoolNext]_poolVars

(* A close ends, the cleanup goes on, and a call that waits for the lock is *)
(* served in its turn.                                                      *)
PoolFairness ==
    /\ \A k \in Services : WF_poolVars(CleanupClose(k))
    /\ WF_poolVars(CleanupEnd)
    /\ \A c \in Calls : SF_poolVars(Reuse(c) \/ Evict(c) \/ Create(c))

PoolFairSpec == PoolSpec /\ PoolFairness

----------------------------------------------------------------------------
(* Properties *)

PoolTypeOK ==
    /\ pool \in Seq(Services) /\ Len(pool) <= MaxClients
    /\ pooled \in [Services -> Clients \cup {NoClient}]
    /\ idle \in [Services -> 0..IdleTimeout]
    /\ open \subseteq Clients
    /\ holder \in Calls \cup {"cleanup", "none"}
    /\ toEvict \subseteq Services
    /\ toolCall \in [Calls -> [pc : Steps, key : Services \cup {"none"},
                               client : Clients \cup {NoClient}]]

(* What the pool hands out works when it is handed out, and nothing open is *)
(* lost: the clients in the pool are exactly those not yet closed, across   *)
(* evictions, cleanups and calls cancelled in the middle of either.         *)
PooledIffOpen == open = {pooled[k] : k \in {x \in Services : InPool(x)}}

(* A call that asks for a client gets one.                                  *)
AskIsAnswered == \A c \in Calls : toolCall[c].pc = "asking" ~> toolCall[c].pc # "asking"
=============================================================================
