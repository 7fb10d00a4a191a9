----------------------------- MODULE S2STokens -----------------------------
(***************************************************************************)
(* The cache of server-to-server OAuth tokens (src/asibot/token_store.py,  *)
(* get_s2s_token), which every Zoom and Paylocity tool call goes through.  *)
(* A call takes the lock of its cache key, looks for a token, and fetches  *)
(* one under the lock if there is none.  The locks live in a bounded       *)
(* OrderedDict of their own, from which the least recently used is dropped *)
(* even when a call holds it or waits for it.                              *)
(***************************************************************************)
EXTENDS Naturals, FiniteSets, OrderedDict

CONSTANTS
    Callers,     \* calls of get_s2s_token (slots, reused)
    Keys,        \* cache keys: a service and an account of it
    MaxCached,   \* _MAX_S2S_CACHE, the limit of tokens and of locks
    Lifetimes    \* expires_in less _S2S_TOKEN_MARGIN, in ticks; 0 if no more

ASSUME S2SAssumption ==
    /\ "none" \notin Keys
    /\ IsFiniteSet(Callers)
    /\ MaxCached \in Nat \ {0}
    /\ Lifetimes \subseteq Nat /\ IsFiniteSet(Lifetimes)

VARIABLES
    locks,    \* keys of _s2s_token_locks, least recently used first
    lock,     \* the lock of each key in locks, told from earlier ones of it
              \* by a number
    tokens,   \* keys of _s2s_token_cache, least recently used first
    left,     \* ticks until a cached token comes within the margin of expiry
    call      \* the local state of each call

vars == <<locks, lock, tokens, left, call>>

NoLock == 0
Numbers == 1..(Cardinality(Callers) + 1)
NotCalled == [pc |-> "idle", key |-> "none", lock |-> NoLock]
At(pc, k, n) == [pc |-> pc, key |-> k, lock |-> n]

Held(k, n) == \E c \in Callers : call[c] = At("fetching", k, n)
Usable(k) == left[k] > 0

Init ==
    /\ locks = <<>>
    /\ lock = [k \in Keys |-> NoLock]
    /\ tokens = <<>>
    /\ left = [k \in Keys |-> 0]
    /\ call = [c \in Callers |-> NotCalled]

----------------------------------------------------------------------------
(* Under _s2s_locks_guard, which is never held across an await: the lock of *)
(* the key is created or moved to the end.  The number of a new one is one  *)
(* that no call still refers to.                                            *)
FindLock(c, k) ==
    /\ call[c].pc = "idle"
    /\ In(k, locks)
    /\ locks' = MovedToEnd(locks, k)
    /\ call' = [call EXCEPT ![c] = At("waiting", k, lock[k])]
    /\ UNCHANGED <<lock, tokens, left>>

CreateLock(c, k) ==
    LET full == Len(locks) >= MaxCached
        n == CHOOSE i \in Numbers : \A d \in Callers : call[d].lock # i
    IN
    /\ call[c].pc = "idle"
    /\ ~In(k, locks)
    /\ locks' = Append(IF full THEN Tail(locks) ELSE locks, k)
    /\ lock' = [i \in Keys |-> IF i = k THEN n
                               ELSE IF full /\ i = Head(locks) THEN NoLock
                               ELSE lock[i]]
    /\ call' = [call EXCEPT ![c] = At("waiting", k, n)]
    /\ UNCHANGED <<tokens, left>>

(* The lock is acquired and a token is at hand.                             *)
ReturnCached(c) ==
    /\ call[c].pc = "waiting"
    /\ ~Held(call[c].key, call[c].lock)
    /\ Usable(call[c].key)
    /\ tokens' = MovedToEnd(tokens, call[c].key)
    /\ call' = [call EXCEPT ![c] = NotCalled]
    /\ UNCHANGED <<locks, lock, left>>

(* Mutant: the cache was looked at before the lock was awaited.             *)
BadStartFetch(c) ==
    /\ call[c].pc = "waiting"
    /\ ~Held(call[c].key, call[c].lock)
    /\ call' = [call EXCEPT ![c] = At("fetching", call[c].key, call[c].lock)]
    /\ UNCHANGED <<locks, lock, tokens, left>>

(* The lock is acquired, there is none, and the request goes out.           *)
StartFetch(c) ==
    /\ call[c].pc = "waiting"
    /\ ~Held(call[c].key, call[c].lock)
    /\ ~Usable(call[c].key)
    /\ call' = [call EXCEPT ![c] = At("fetching", call[c].key, call[c].lock)]
    /\ UNCHANGED <<locks, lock, tokens, left>>

(* Mutant: the cache grows to one entry more than its limit.                *)
BadStore(c, life) ==
    LET k == call[c].key
        kept == IF Len(tokens) > MaxCached THEN Tail(tokens) ELSE tokens
    IN
    /\ call[c].pc = "fetching"
    /\ tokens' = IF In(k, kept) THEN kept ELSE Append(kept, k)
    /\ left' = [i \in Keys |-> IF i = k THEN life ELSE IF In(i, kept) THEN left[i] ELSE 0]
    /\ call' = [call EXCEPT ![c] = NotCalled]
    /\ UNCHANGED <<locks, lock>>

(* The token arrives.  A full cache drops its oldest entry first, even when *)
(* it holds an expired token of this key, which would be replaced in place. *)
Store(c, life) ==
    LET k == call[c].key
        kept == IF Len(tokens) >= MaxCached THEN Tail(tokens) ELSE tokens
    IN
    /\ call[c].pc = "fetching"
    /\ tokens' = IF In(k, kept) THEN kept ELSE Append(kept, k)
    /\ left' = [i \in Keys |-> IF i = k THEN life ELSE IF In(i, kept) THEN left[i] ELSE 0]
    /\ call' = [call EXCEPT ![c] = NotCalled]
    /\ UNCHANGED <<locks, lock>>

(* Mutant: a refused request is tried again for ever.                       *)
BadFail(c) ==
    /\ call[c].pc = "fetching"
    /\ call' = [call EXCEPT ![c].pc = "waiting"]
    /\ UNCHANGED <<locks, lock, tokens, left>>

(* An HTTP error, no access_token in the answer, or a cancelled call.       *)
Fail(c) ==
    /\ call[c].pc # "idle"
    /\ call' = [call EXCEPT ![c] = NotCalled]
    /\ UNCHANGED <<locks, lock, tokens, left>>

Tick ==
    /\ left' = [k \in Keys |-> IF left[k] > 0 THEN left[k] - 1 ELSE 0]
    /\ UNCHANGED <<locks, lock, tokens, call>>

Next ==
    \/ \E c \in Callers : \/ \E k \in Keys : FindLock(c, k) \/ CreateLock(c, k)
                          \/ ReturnCached(c)
                          \/ StartFetch(c)
                          \/ \E life \in Lifetimes : Store(c, life)
                          \/ Fail(c)
    \/ Tick

Spec == Init /\ [][Next]_vars

(* A request ends, by its 30 s timeout at the latest, and asyncio.Lock      *)
(* serves its waiters in order.                                             *)
Fairness ==
    \A c \in Callers :
        /\ WF_vars(call[c].pc = "fetching" /\ (Fail(c) \/ \E life \in Lifetimes : Store(c, life)))
        /\ SF_vars(ReturnCached(c) \/ StartFetch(c))

FairSpec == Spec /\ Fairness

----------------------------------------------------------------------------
(* Properties *)

(* Types, and the limit of both dicts.                                      *)
TypeOK ==
    /\ locks \in Seq(Keys) /\ Len(locks) <= MaxCached
    /\ lock \in [Keys -> Numbers \cup {NoLock}]
    /\ tokens \in Seq(Keys) /\ Len(tokens) <= MaxCached
    /\ left \in [Keys -> Nat]
    /\ \A k \in Keys : Usable(k) => In(k, tokens)
    /\ call \in [Callers -> [pc : {"idle", "waiting", "fetching"},
                             key : Keys \cup {"none"},
                             lock : Numbers \cup {NoLock}]]

(* get_s2s_token is a single-flight cache: a token is requested only when   *)
(* none is usable and no other call is requesting it, whatever expires,     *)
(* fails or is evicted meanwhile - but for calls whose lock was dropped     *)
(* from the dict while they held it or waited for it.                       *)
Flights == INSTANCE SingleFlight WITH
    NoKey <- "none",
    fetching <- [c \in Callers |-> IF call[c].pc = "fetching" THEN call[c].key ELSE "none"],
    usable <- {k \in Keys : Usable(k)},
    lost <- {c \in Callers : call[c].pc # "idle" /\ call[c].lock # lock[call[c].key]}
SingleFlightSpec == Flights!Spec

(* A call of get_s2s_token returns, also when the calls before it in the    *)
(* queue for its lock fail or are cancelled.                                *)
CallReturns == \A c \in Callers : call[c].pc = "waiting" ~> call[c].pc = "idle"
=============================================================================
