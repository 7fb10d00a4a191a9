---------------------------- MODULE CachesProofs ----------------------------
(***************************************************************************)
(* The two caches that keep to a limit by dropping what was not used for   *)
(* longest, for any number of callers and any limit: S2STokens, its token  *)
(* and its lock dict, and HttpPool.                                        *)
(*                                                                         *)
(* First what moving, dropping and adding a key does to an OrderedDict.    *)
(*                                                                         *)
(* S2STokens: the dicts keep to the limit, and get_s2s_token implements    *)
(* SingleFlight.  The refinement needs that the lock a call has differs    *)
(* from every lock made later: a call whose lock was dropped from the dict *)
(* is never again taken for one that has the lock in it.  That is so       *)
(* because no lock is left behind for a key that is not in the dict        *)
(* (Locked), the dict holds a key once, and there is always a lock that no *)
(* call has.                                                               *)
(*                                                                         *)
(* HttpPool: the pool keeps to its limit and holds exactly the clients     *)
(* that are open.  This needs that the lock is held by the one who evicts  *)
(* or cleans up, and by nobody else, so that what they are about to close  *)
(* or make room for is still as they found it (PoolLocked), that a pooled  *)
(* client is one of its key, which tells it from all others in the pool    *)
(* (Pooled), and that there is always a client nobody refers to.           *)
(***************************************************************************)
EXTENDS S2STokens, HttpPool, FiniteSetTheorems, TLAPS

(* A dict holds a key at most once.                                         *)
Distinct(dict) == \A i, j \in DOMAIN dict : dict[i] = dict[j] => i = j

(* Where a key of a dict is.                                                *)
LEMMA PlaceFacts ==
    ASSUME NEW S, NEW dict \in Seq(S), NEW k, In(k, dict)
    PROVE  /\ Place(dict, k) \in 1..Len(dict) /\ dict[Place(dict, k)] = k
           /\ k \in S /\ Len(dict) \in Nat /\ Len(dict) > 0
<1>1. PICK i \in DOMAIN dict : dict[i] = k
  BY DEF In
<1>2. Place(dict, k) \in DOMAIN dict /\ dict[Place(dict, k)] = k
  BY <1>1 DEF Place
<1>3. DOMAIN dict = 1..Len(dict) /\ Len(dict) \in Nat
  OBVIOUS
<1> QED
  BY <1>2, <1>3

(* A key taken out leaves all others, and in a dict no other of its own.    *)
LEMMA WithoutFacts ==
    ASSUME NEW S, NEW dict \in Seq(S), NEW k, In(k, dict)
    PROVE  /\ Without(dict, k) \in Seq(S) /\ Len(Without(dict, k)) = Len(dict) - 1
           /\ \A j : j # k => (In(j, Without(dict, k)) <=> In(j, dict))
           /\ Distinct(dict) => Distinct(Without(dict, k)) /\ ~In(k, Without(dict, k))
<1> DEFINE p == Place(dict, k)
           n == Len(dict)
           rest == Without(dict, k)
<1>1. p \in 1..n /\ dict[p] = k /\ n \in Nat /\ n > 0
  BY PlaceFacts
<1>2. rest = [i \in 1..(n - 1) |-> IF i < p THEN dict[i] ELSE dict[i + 1]]
  BY DEF Without
<1>3. DOMAIN dict = 1..n /\ \A i \in 1..n : dict[i] \in S
  OBVIOUS
<1> HIDE DEF p, n, rest
<1>4. rest \in Seq(S) /\ Len(rest) = n - 1 /\ DOMAIN rest = 1..(n - 1)
  <2>1. \A i \in 1..(n - 1) : rest[i] \in S
    BY <1>1, <1>2, <1>3
  <2>2. rest \in [1..(n - 1) -> S] /\ n - 1 \in Nat
    BY <1>1, <1>2, <2>1
  <2> QED
    BY <2>2
<1>5. ASSUME NEW j, j # k PROVE In(j, rest) <=> In(j, dict)
  <2>1. ASSUME In(j, rest) PROVE In(j, dict)
    <3>1. PICK i \in 1..(n - 1) : rest[i] = j
      BY <2>1, <1>4 DEF In
    <3>2. i \in 1..n /\ i + 1 \in 1..n /\ (rest[i] = dict[i] \/ rest[i] = dict[i + 1])
      BY <3>1, <1>1, <1>2
    <3> QED
      BY <3>1, <3>2, <1>3 DEF In
  <2>2. ASSUME In(j, dict) PROVE In(j, rest)
    <3>1. PICK i \in 1..n : dict[i] = j
      BY <2>2, <1>3 DEF In
    <3>2. i # p
      BY <3>1, <1>1, <1>5
    <3>3. CASE i < p
      <4>1. i \in 1..(n - 1) /\ rest[i] = dict[i]
        BY <3>3, <1>1, <1>2
      <4> QED
        BY <3>1, <4>1, <1>4 DEF In
    <3>4. CASE i > p
      <4>1. i - 1 \in 1..(n - 1) /\ ~(i - 1 < p) /\ (i - 1) + 1 = i
        BY <3>4, <1>1
      <4>2. rest[i - 1] = dict[i]
        BY <4>1, <1>2
      <4> QED
        BY <3>1, <4>1, <4>2, <1>4 DEF In
    <3> QED
      BY <3>2, <3>3, <3>4, <1>1
  <2> QED
    BY <2>1, <2>2
<1>6. ASSUME Distinct(dict) PROVE Distinct(rest) /\ ~In(k, rest)
  <2> DEFINE at(i) == IF i < p THEN i ELSE i + 1
  <2>1. \A i \in 1..(n - 1) : at(i) \in 1..n /\ at(i) # p /\ rest[i] = dict[at(i)]
    BY <1>1, <1>2
  <2>2. \A i, j \in 1..(n - 1) : at(i) = at(j) => i = j
    BY <1>1
  <2> HIDE DEF at
  <2>3. Distinct(rest)
    BY <2>1, <2>2, <1>3, <1>4, <1>6 DEF Distinct
  <2>4. ASSUME NEW i \in 1..(n - 1), rest[i] = k PROVE FALSE
    BY <2>1, <2>4, <1>1, <1>3, <1>6 DEF Distinct
  <2> QED
    BY <2>3, <2>4, <1>4 DEF In
<1> QED
  BY <1>4, <1>5, <1>6 DEF rest, n

(* A key added to a dict.                                                   *)
LEMMA AppendFacts ==
    ASSUME NEW S, NEW dict \in Seq(S), NEW k \in S
    PROVE  /\ Append(dict, k) \in Seq(S) /\ Len(Append(dict, k)) = Len(dict) + 1
           /\ \A j : In(j, Append(dict, k)) <=> j = k \/ In(j, dict)
           /\ Distinct(dict) /\ ~In(k, dict) => Distinct(Append(dict, k))
<1> DEFINE n == Len(dict)
           more == Append(dict, k)
<1>1. /\ n \in Nat /\ DOMAIN dict = 1..n
      /\ more \in Seq(S) /\ Len(more) = n + 1 /\ DOMAIN more = 1..(n + 1)
      /\ more[n + 1] = k /\ \A i \in 1..n : more[i] = dict[i]
  OBVIOUS
<1> HIDE DEF n, more
<1>2. ASSUME NEW j PROVE In(j, more) <=> j = k \/ In(j, dict)
  <2>1. \A i \in 1..(n + 1) : i = n + 1 \/ i \in 1..n
    BY <1>1
  <2>2. n + 1 \in 1..(n + 1) /\ 1..n \subseteq 1..(n + 1)
    BY <1>1
  <2> QED
    BY <2>1, <2>2, <1>1 DEF In
<1>3. ASSUME Distinct(dict), ~In(k, dict) PROVE Distinct(more)
  <2> SUFFICES ASSUME NEW i \in 1..(n + 1), NEW j \in 1..(n + 1), more[i] = more[j]
               PROVE  i = j
    BY <1>1 DEF Distinct
  <2>1. CASE i = n + 1 \/ j = n + 1
    BY <2>1, <1>1, <1>3 DEF In
  <2>2. CASE i \in 1..n /\ j \in 1..n
    BY <2>2, <1>1, <1>3 DEF Distinct
  <2> QED
    BY <2>1, <2>2, <1>1
<1> QED
  BY <1>1, <1>2, <1>3 DEF more, n

(* The oldest key dropped.                                                  *)
LEMMA TailFacts ==
    ASSUME NEW S, NEW dict \in Seq(S), Len(dict) > 0
    PROVE  /\ Tail(dict) \in Seq(S) /\ Len(Tail(dict)) = Len(dict) - 1
           /\ Head(dict) \in S /\ In(Head(dict), dict)
           /\ \A j : j # Head(dict) => (In(j, Tail(dict)) <=> In(j, dict))
           /\ Distinct(dict) => Distinct(Tail(dict)) /\ ~In(Head(dict), Tail(dict))
<1> DEFINE n == Len(dict)
           rest == Tail(dict)
           h == Head(dict)
<1>1. /\ n \in Nat /\ n > 0 /\ DOMAIN dict = 1..n /\ dict[1] = h /\ h \in S
      /\ rest \in Seq(S) /\ Len(rest) = n - 1 /\ DOMAIN rest = 1..(n - 1)
      /\ \A i \in 1..(n - 1) : rest[i] = dict[i + 1]
  OBVIOUS
<1> HIDE DEF n, rest, h
<1>2. In(h, dict)
  BY <1>1 DEF In
<1>3. ASSUME NEW j, j # h PROVE In(j, rest) <=> In(j, dict)
  <2>1. ASSUME In(j, rest) PROVE In(j, dict)
    <3>1. PICK i \in 1..(n - 1) : rest[i] = j
      BY <2>1, <1>1 DEF In
    <3>2. i + 1 \in 1..n /\ dict[i + 1] = j
      BY <3>1, <1>1
    <3> QED
      BY <3>2, <1>1 DEF In
  <2>2. ASSUME In(j, dict) PROVE In(j, rest)
    <3>1. PICK i \in 1..n : dict[i] = j
      BY <2>2, <1>1 DEF In
    <3>2. i - 1 \in 1..(n - 1) /\ (i - 1) + 1 = i
      BY <3>1, <1>1, <1>3
    <3>3. rest[i - 1] = j
      BY <3>1, <3>2, <1>1
    <3> QED
      BY <3>2, <3>3, <1>1 DEF In
  <2> QED
    BY <2>1, <2>2
<1>4. ASSUME Distinct(dict) PROVE Distinct(rest) /\ ~In(h, rest)
  <2>1. \A i \in 1..(n - 1) : i + 1 \in 1..n /\ i + 1 # 1
    BY <1>1
  <2>2. Distinct(rest)
    <3> SUFFICES ASSUME NEW i \in 1..(n - 1), NEW j \in 1..(n - 1), rest[i] = rest[j]
                 PROVE  i = j
      BY <1>1 DEF Distinct
    <3>1. i + 1 = j + 1
      BY <2>1, <1>1, <1>4 DEF Distinct
    <3> QED
      BY <3>1
  <2>3. ASSUME NEW i \in 1..(n - 1), rest[i] = h PROVE FALSE
    <3>1. dict[i + 1] = dict[1] /\ 1 \in 1..n
      BY <2>3, <1>1
    <3> QED
      BY <3>1, <2>1, <1>1, <1>4 DEF Distinct
  <2> QED
    BY <2>2, <2>3, <1>1 DEF In
<1> QED
  BY <1>1, <1>2, <1>3, <1>4 DEF rest, n, h

(* A key that is used keeps the dict as it is, but for the order.           *)
LEMMA MovedFacts ==
    ASSUME NEW S, NEW dict \in Seq(S), NEW k, In(k, dict)
    PROVE  /\ MovedToEnd(dict, k) \in Seq(S) /\ Len(MovedToEnd(dict, k)) = Len(dict)
           /\ \A j : In(j, MovedToEnd(dict, k)) <=> In(j, dict)
           /\ Distinct(dict) => Distinct(MovedToEnd(dict, k))
<1>1. k \in S /\ Len(dict) \in Nat /\ Len(dict) > 0
  BY PlaceFacts
<1>2. /\ Without(dict, k) \in Seq(S) /\ Len(Without(dict, k)) = Len(dict) - 1
      /\ \A j : j # k => (In(j, Without(dict, k)) <=> In(j, dict))
      /\ Distinct(dict) => Distinct(Without(dict, k)) /\ ~In(k, Without(dict, k))
  BY WithoutFacts
<1> QED
  BY <1>1, <1>2, AppendFacts DEF MovedToEnd

----------------------------------------------------------------------------
(* S2STokens *)

CallOK(k) ==
    \/ k = NotCalled
    \/ k \in [pc : {"waiting", "fetching"}, key : Keys, lock : Numbers]

Locked ==
    /\ Distinct(locks)
    /\ \A k \in Keys : lock[k] # NoLock <=> In(k, locks)

IInv == TypeOK /\ Locked /\ \A c \in Callers : CallOK(call[c])

(* There are more locks than calls.                                         *)
LEMMA FreshLock ==
    ASSUME TypeOK
    PROVE  \E i \in Numbers : \A d \in Callers : call[d].lock # i
<1> DEFINE f == [d \in Callers |-> call[d].lock]
           used == {f[d] : d \in Callers}
<1>1. IsFiniteSet(Callers) /\ Cardinality(Callers) \in Nat
  BY S2SAssumption, FS_CardinalityType
<1>2. f \in Surjection(Callers, used)
  BY DEF Surjection
<1>3. IsFiniteSet(used) /\ Cardinality(used) <= Cardinality(Callers)
  BY <1>1, <1>2, FS_Surjection
<1>4. Cardinality(Numbers) = Cardinality(Callers) + 1
  BY <1>1, FS_Interval DEF Numbers
<1>5. ~(Numbers \subseteq used)
  <2>1. ASSUME Numbers \subseteq used PROVE FALSE
    <3>1. Cardinality(Numbers) <= Cardinality(used)
      BY <2>1, <1>3, FS_Subset
    <3>2. Cardinality(used) \in Nat
      BY <1>3, FS_CardinalityType
    <3> QED
      BY <3>1, <3>2, <1>1, <1>3, <1>4
  <2> QED
    BY <2>1
<1> QED
  BY <1>5

(* The lock made for a key is none that a call has.                         *)
LEMMA NewLock ==
    ASSUME TypeOK, NEW n, n = CHOOSE i \in Numbers : \A d \in Callers : call[d].lock # i
    PROVE  n \in Numbers /\ n # NoLock /\ \A d \in Callers : call[d].lock # n
<1>1. n \in Numbers /\ \A d \in Callers : call[d].lock # n
  BY FreshLock
<1>2. \A i \in Numbers : i # NoLock
  BY DEF Numbers, NoLock
<1> QED
  BY <1>1, <1>2

(* Nothing is cached and nobody has called.                                 *)
LEMMA Initially == Init => IInv
<1> SUFFICES ASSUME Init PROVE IInv
  OBVIOUS
<1>1. TypeOK
  BY S2SAssumption DEF Init, TypeOK, NotCalled, NoLock, Usable
<1>2. Locked
  BY DEF Init, Locked, Distinct, In, NoLock
<1>3. \A c \in Callers : CallOK(call[c])
  BY DEF Init, CallOK
<1> QED
  BY <1>1, <1>2, <1>3 DEF IInv

(* What the type of call says of a call in order.                           *)
LEMMA CallTypes ==
    ASSUME NEW k, CallOK(k)
    PROVE  /\ k \in [pc : {"idle", "waiting", "fetching"}, key : Keys \cup {"none"},
                     lock : Numbers \cup {NoLock}]
           /\ k.pc # "idle" => /\ k.key \in Keys /\ k.key # "none"
                               /\ k.lock \in Numbers /\ k.lock # NoLock
BY S2SAssumption DEF CallOK, NotCalled, Numbers, NoLock

(* One call moves on.                                                       *)
LEMMA OneCall ==
    ASSUME IInv, NEW c \in Callers, NEW k, CallOK(k), call' = [call EXCEPT ![c] = k]
    PROVE  /\ call' \in [Callers -> [pc : {"idle", "waiting", "fetching"}, key : Keys \cup {"none"},
                                     lock : Numbers \cup {NoLock}]]
           /\ call'[c] = k /\ \A d \in Callers : d # c => call'[d] = call[d]
           /\ \A d \in Callers : CallOK(call'[d])
BY CallTypes DEF IInv, TypeOK

(* The lock found in the dict is that of the key.                           *)
LEMMA FindLockStep ==
    ASSUME IInv, NEW c \in Callers, NEW k \in Keys, FindLock(c, k)
    PROVE  IInv'
<1> DEFINE new == At("waiting", k, lock[k])
<1>1. In(k, locks) /\ locks \in Seq(Keys) /\ lock[k] \in Numbers
  BY DEF FindLock, IInv, TypeOK, Locked
<1>2. CallOK(new) /\ call' = [call EXCEPT ![c] = new]
  BY <1>1 DEF CallOK, At, FindLock
<1> HIDE DEF new
<1>3. /\ call' \in [Callers -> [pc : {"idle", "waiting", "fetching"}, key : Keys \cup {"none"},
                                lock : Numbers \cup {NoLock}]]
      /\ \A d \in Callers : CallOK(call'[d])
  BY <1>2, OneCall
<1>4. /\ locks' \in Seq(Keys) /\ Len(locks') = Len(locks)
      /\ \A j : In(j, locks') <=> In(j, locks)
      /\ Distinct(locks) => Distinct(locks')
  <2>1. locks' = MovedToEnd(locks, k)
    BY DEF FindLock
  <2> QED
    BY <1>1, <2>1, MovedFacts
<1>5. TypeOK'
  BY <1>3, <1>4 DEF IInv, TypeOK, FindLock, Usable
<1>6. Locked'
  BY <1>4 DEF IInv, Locked, FindLock
<1> QED
  BY <1>3, <1>5, <1>6 DEF IInv

(* A lock made anew differs from all that calls have.                       *)
LEMMA CreateLockStep ==
    ASSUME IInv, NEW c \in Callers, NEW k \in Keys, CreateLock(c, k)
    PROVE  IInv'
<1> DEFINE full == Len(locks) >= MaxCached
           n == CHOOSE i \in Numbers : \A d \in Callers : call[d].lock # i
           new == At("waiting", k, n)
           kept == IF full THEN Tail(locks) ELSE locks
<1>1. /\ ~In(k, locks) /\ locks' = Append(kept, k) /\ call' = [call EXCEPT ![c] = new]
      /\ lock' = [i \in Keys |-> IF i = k THEN n
                                 ELSE IF full /\ i = Head(locks) THEN NoLock ELSE lock[i]]
      /\ UNCHANGED <<tokens, left>>
  BY DEF CreateLock
<1>2. n \in Numbers /\ n # NoLock
  BY NewLock DEF IInv
<1> HIDE DEF n
<1>3. CallOK(new)
  BY <1>2 DEF CallOK, At
<1> HIDE DEF new
<1>4. /\ call' \in [Callers -> [pc : {"idle", "waiting", "fetching"}, key : Keys \cup {"none"},
                                lock : Numbers \cup {NoLock}]]
      /\ \A d \in Callers : CallOK(call'[d])
  BY <1>1, <1>3, OneCall
<1>5. /\ locks \in Seq(Keys) /\ Len(locks) \in Nat /\ Len(locks) <= MaxCached
      /\ MaxCached \in Nat /\ MaxCached > 0 /\ Distinct(locks)
  BY S2SAssumption DEF IInv, TypeOK, Locked
<1>6. /\ kept \in Seq(Keys) /\ Len(kept) < MaxCached /\ Distinct(kept) /\ ~In(k, kept)
      /\ \A j : In(j, kept) <=> In(j, locks) /\ ~(full /\ j = Head(locks))
  <2>1. CASE full
    <3>1. Len(locks) > 0
      BY <2>1, <1>5
    <3>2. /\ Tail(locks) \in Seq(Keys) /\ Len(Tail(locks)) = Len(locks) - 1
          /\ \A j : j # Head(locks) => (In(j, Tail(locks)) <=> In(j, locks))
          /\ Distinct(Tail(locks)) /\ ~In(Head(locks), Tail(locks))
      BY <3>1, <1>5, TailFacts
    <3> QED
      BY <2>1, <3>2, <1>1, <1>5
  <2>2. CASE ~full
    BY <2>2, <1>1, <1>5
  <2> QED
    BY <2>1, <2>2
<1> HIDE DEF kept
<1>7. /\ locks' \in Seq(Keys) /\ Len(locks') = Len(kept) + 1 /\ Distinct(locks')
      /\ \A j : In(j, locks') <=> j = k \/ In(j, kept)
  BY <1>1, <1>6, AppendFacts
<1>8. Len(locks') <= MaxCached
  BY <1>5, <1>6, <1>7
<1> HIDE DEF full
<1>9. lock' \in [Keys -> Numbers \cup {NoLock}]
  BY <1>1, <1>2 DEF IInv, TypeOK
<1>10. TypeOK'
  BY <1>1, <1>4, <1>7, <1>8, <1>9 DEF IInv, TypeOK, Usable
<1>11. Locked'
  <2> SUFFICES ASSUME NEW j \in Keys PROVE lock'[j] # NoLock <=> In(j, locks')
    BY <1>7 DEF Locked
  <2>1. CASE j = k
    BY <2>1, <1>1, <1>2, <1>7
  <2>2. CASE j # k
    BY <2>2, <1>1, <1>6, <1>7 DEF IInv, Locked
  <2> QED
    BY <2>1, <2>2
<1> QED
  BY <1>4, <1>10, <1>11 DEF IInv

(* A token found.                                                           *)
LEMMA ReturnCachedStep ==
    ASSUME IInv, NEW c \in Callers, ReturnCached(c)
    PROVE  IInv'
<1> DEFINE k == call[c].key
<1>1. CallOK(NotCalled) /\ call' = [call EXCEPT ![c] = NotCalled]
  BY DEF CallOK, ReturnCached
<1>2. /\ call' \in [Callers -> [pc : {"idle", "waiting", "fetching"}, key : Keys \cup {"none"},
                                lock : Numbers \cup {NoLock}]]
      /\ \A d \in Callers : CallOK(call'[d])
  BY <1>1, OneCall
<1>3. k \in Keys /\ Usable(k)
  BY CallTypes DEF IInv, ReturnCached
<1>4. In(k, tokens) /\ tokens \in Seq(Keys) /\ tokens' = MovedToEnd(tokens, k)
  BY <1>3 DEF IInv, TypeOK, ReturnCached
<1> HIDE DEF k
<1>5. tokens' \in Seq(Keys) /\ Len(tokens') = Len(tokens) /\ \A j : In(j, tokens') <=> In(j, tokens)
  BY <1>4, MovedFacts
<1>6. TypeOK'
  BY <1>2, <1>5 DEF IInv, TypeOK, ReturnCached, Usable
<1> QED
  BY <1>2, <1>6 DEF IInv, Locked, ReturnCached

(* A step that leaves the dicts as they are.                                *)
LEMMA CallOnly ==
    ASSUME IInv, NEW c \in Callers, NEW k, CallOK(k), call' = [call EXCEPT ![c] = k],
           UNCHANGED <<locks, lock, tokens, left>>
    PROVE  IInv'
<1>1. /\ call' \in [Callers -> [pc : {"idle", "waiting", "fetching"}, key : Keys \cup {"none"},
                                lock : Numbers \cup {NoLock}]]
      /\ \A d \in Callers : CallOK(call'[d])
  BY OneCall
<1> QED
  BY <1>1 DEF IInv, TypeOK, Locked, Usable

(* A fetch goes on with the lock the call waited for.                       *)
LEMMA StartFetchStep ==
    ASSUME IInv, NEW c \in Callers, StartFetch(c)
    PROVE  IInv'
<1>1. CallOK(At("fetching", call[c].key, call[c].lock))
  BY CallTypes DEF IInv, StartFetch, CallOK, At
<1> QED
  BY <1>1, CallOnly DEF StartFetch

(* A fetch that fails leaves the caches as they are.                        *)
LEMMA FailStep ==
    ASSUME IInv, NEW c \in Callers, Fail(c)
    PROVE  IInv'
BY CallOnly DEF Fail, CallOK

(* A token stored, after the oldest if the cache was full.                  *)
LEMMA StoreStep ==
    ASSUME IInv, NEW c \in Callers, NEW life \in Lifetimes, Store(c, life)
    PROVE  IInv'
<1> DEFINE k == call[c].key
           kept == IF Len(tokens) >= MaxCached THEN Tail(tokens) ELSE tokens
<1>1. CallOK(NotCalled) /\ call' = [call EXCEPT ![c] = NotCalled]
  BY DEF CallOK, Store
<1>2. /\ call' \in [Callers -> [pc : {"idle", "waiting", "fetching"}, key : Keys \cup {"none"},
                                lock : Numbers \cup {NoLock}]]
      /\ \A d \in Callers : CallOK(call'[d])
  BY <1>1, OneCall
<1>3. /\ tokens' = IF In(k, kept) THEN kept ELSE Append(kept, k)
      /\ left' = [i \in Keys |-> IF i = k THEN life ELSE IF In(i, kept) THEN left[i] ELSE 0]
      /\ UNCHANGED <<locks, lock>>
  BY DEF Store
<1>4. k \in Keys
  BY CallTypes DEF IInv, Store
<1>5. /\ tokens \in Seq(Keys) /\ Len(tokens) \in Nat /\ Len(tokens) <= MaxCached
      /\ MaxCached \in Nat /\ MaxCached > 0 /\ life \in Nat
  BY S2SAssumption DEF IInv, TypeOK
<1>6. kept \in Seq(Keys) /\ Len(kept) < MaxCached
  <2>1. CASE Len(tokens) >= MaxCached
    <3>1. Len(tokens) > 0
      BY <2>1, <1>5
    <3>2. Tail(tokens) \in Seq(Keys) /\ Len(Tail(tokens)) = Len(tokens) - 1
      BY <3>1, <1>5, TailFacts
    <3> QED
      BY <2>1, <3>2, <1>5
  <2>2. CASE ~(Len(tokens) >= MaxCached)
    BY <2>2, <1>5
  <2> QED
    BY <2>1, <2>2
<1> HIDE DEF kept, k
<1>7. /\ tokens' \in Seq(Keys) /\ Len(tokens') <= MaxCached
      /\ \A j : In(j, tokens') <=> j = k \/ In(j, kept)
  <2>1. CASE In(k, kept)
    BY <2>1, <1>3, <1>5, <1>6
  <2>2. CASE ~In(k, kept)
    <3>1. /\ Append(kept, k) \in Seq(Keys) /\ Len(Append(kept, k)) = Len(kept) + 1
          /\ \A j : In(j, Append(kept, k)) <=> j = k \/ In(j, kept)
      BY <1>4, <1>6, AppendFacts
    <3> QED
      BY <2>2, <3>1, <1>3, <1>5, <1>6
  <2> QED
    BY <2>1, <2>2
<1>8. left' \in [Keys -> Nat]
  BY <1>3, <1>5 DEF IInv, TypeOK
<1>9. \A j \in Keys : Usable(j)' => In(j, tokens')
  BY <1>3, <1>7 DEF Usable
<1>10. TypeOK'
  BY <1>2, <1>3, <1>7, <1>8, <1>9 DEF IInv, TypeOK
<1> QED
  BY <1>2, <1>3, <1>10 DEF IInv, Locked

(* Time makes no token usable.                                              *)
LEMMA TickStep == ASSUME IInv, Tick PROVE IInv'
<1>1. left' \in [Keys -> Nat] /\ \A k \in Keys : Usable(k)' => Usable(k)
  BY DEF IInv, TypeOK, Tick, Usable
<1> QED
  BY <1>1 DEF IInv, TypeOK, Locked, Tick

(* Every step keeps the invariant.                                          *)
LEMMA NextStep == IInv /\ [Next]_vars => IInv'
<1> SUFFICES ASSUME IInv, [Next]_vars PROVE IInv'
  OBVIOUS
<1>1. ASSUME NEW c \in Callers, NEW k \in Keys, FindLock(c, k) \/ CreateLock(c, k) PROVE IInv'
  BY <1>1, FindLockStep, CreateLockStep
<1>2. ASSUME NEW c \in Callers, ReturnCached(c) \/ StartFetch(c) \/ Fail(c) PROVE IInv'
  BY <1>2, ReturnCachedStep, StartFetchStep, FailStep
<1>3. ASSUME NEW c \in Callers, NEW life \in Lifetimes, Store(c, life) PROVE IInv'
  BY <1>3, StoreStep
<1>4. CASE UNCHANGED vars
  BY <1>4 DEF IInv, TypeOK, Locked, Usable, vars
<1> QED
  BY <1>1, <1>2, <1>3, <1>4, TickStep DEF Next

(* The invariant holds of every reachable state.                            *)
LEMMA AlwaysIInv == Spec => []IInv
BY Initially, NextStep, PTL DEF Spec

(* Both dicts keep to their limit, and a usable token is in the cache.      *)
THEOREM S2STypeCorrect == Spec => []TypeOK
<1>1. IInv => TypeOK
  BY DEF IInv
<1> QED
  BY <1>1, AlwaysIInv, PTL

----------------------------------------------------------------------------
(* The refinement *)

Fetching == [c \in Callers |-> IF call[c].pc = "fetching" THEN call[c].key ELSE "none"]
UsableKeys == {k \in Keys : Usable(k)}
Lost == {c \in Callers : call[c].pc # "idle" /\ call[c].lock # lock[call[c].key]}

(* Only c moves: what the others fetch, and which of them are lost.         *)
LEMMA OneMoves ==
    ASSUME IInv, NEW c \in Callers, \A d \in Callers : d # c => call'[d] = call[d],
           UNCHANGED lock
    PROVE  /\ \A d \in Callers : d # c => (d \in Lost' <=> d \in Lost)
           /\ \A d \in Callers : d # c => Fetching'[d] = Fetching[d]
BY DEF Lost, Fetching

(* A call that is through: it no longer fetches, and is no longer lost.     *)
LEMMA CallEnds ==
    ASSUME IInv, NEW c \in Callers, call' = [call EXCEPT ![c] = NotCalled], UNCHANGED lock
    PROVE  /\ Fetching' = [Fetching EXCEPT ![c] = "none"]
           /\ Lost' = Lost \ {c}
<1>1. call'[c] = NotCalled /\ \A d \in Callers : d # c => call'[d] = call[d]
  BY DEF IInv, TypeOK
<1>2. \A d \in Callers : d # c => (d \in Lost' <=> d \in Lost) /\ Fetching'[d] = Fetching[d]
  BY <1>1, OneMoves
<1>3. c \notin Lost' /\ Fetching'[c] = "none"
  BY <1>1 DEF Lost, Fetching, NotCalled
<1>4. Lost \subseteq Callers /\ Lost' \subseteq Callers
  BY DEF Lost
<1>5. Lost' = Lost \ {c}
  BY <1>2, <1>3, <1>4
<1>6. /\ Fetching' = [d \in Callers |-> Fetching'[d]]
      /\ Fetching = [d \in Callers |-> Fetching[d]]
  BY DEF Fetching
<1>7. Fetching' = [Fetching EXCEPT ![c] = "none"]
  BY <1>2, <1>3, <1>6
<1> QED
  BY <1>5, <1>7

(* A call that finds the lock does not fetch yet.                           *)
LEMMA FindLockRefines ==
    ASSUME IInv, NEW c \in Callers, NEW k \in Keys, FindLock(c, k)
    PROVE  UNCHANGED <<Fetching, UsableKeys, Lost>>
<1>1. /\ call'[c] = At("waiting", k, lock[k]) /\ call[c].pc = "idle"
      /\ \A d \in Callers : d # c => call'[d] = call[d]
      /\ UNCHANGED <<lock, left>>
  BY DEF IInv, TypeOK, FindLock
<1>2. \A d \in Callers : d # c => (d \in Lost' <=> d \in Lost) /\ Fetching'[d] = Fetching[d]
  BY <1>1, OneMoves
<1>3. c \notin Lost /\ c \notin Lost' /\ Fetching'[c] = Fetching[c]
  BY <1>1 DEF Lost, Fetching, At
<1>4. UNCHANGED UsableKeys
  BY <1>1 DEF UsableKeys, Usable
<1> QED
  BY <1>2, <1>3, <1>4 DEF Fetching, Lost

(* A lock made pushes another out: whoever has that one is lost.            *)
LEMMA CreateLockRefines ==
    ASSUME IInv, NEW c \in Callers, NEW k \in Keys, CreateLock(c, k)
    PROVE  UNCHANGED <<Fetching, UsableKeys>> /\ Lost \subseteq Lost' /\ Lost' \subseteq Callers
<1> DEFINE n == CHOOSE i \in Numbers : \A d \in Callers : call[d].lock # i
           full == Len(locks) >= MaxCached
<1>1. n # NoLock /\ \A d \in Callers : call[d].lock # n
  BY NewLock DEF IInv
<1>2. /\ call'[c] = At("waiting", k, n) /\ call[c].pc = "idle"
      /\ \A d \in Callers : d # c => call'[d] = call[d]
      /\ UNCHANGED left
  BY DEF IInv, TypeOK, CreateLock
<1>3. lock' = [i \in Keys |-> IF i = k THEN n
                               ELSE IF full /\ i = Head(locks) THEN NoLock ELSE lock[i]]
  BY DEF CreateLock
<1> HIDE DEF n, full
<1>4. \A d \in Callers : Fetching'[d] = Fetching[d]
  BY <1>2 DEF Fetching, At
<1>5. ASSUME NEW d \in Lost PROVE d \in Lost'
  <2>1. d \in Callers /\ call[d].pc # "idle" /\ call[d].lock # lock[call[d].key]
    BY DEF Lost
  <2>2. d # c /\ call'[d] = call[d] /\ call[d].key \in Keys /\ call[d].lock # NoLock
    BY <2>1, <1>2, CallTypes DEF IInv
  <2>3. call[d].lock # lock'[call[d].key]
    BY <2>1, <2>2, <1>1, <1>3
  <2> QED
    BY <2>1, <2>2, <2>3 DEF Lost
<1>6. UNCHANGED UsableKeys
  BY <1>2 DEF UsableKeys, Usable
<1>7. UNCHANGED Fetching
  BY <1>4 DEF Fetching
<1> QED
  BY <1>5, <1>6, <1>7 DEF Lost

(* Whoever fetches with the lock in the dict holds it against all others    *)
(* who have found it there.                                                 *)
LEMMA StartFetchRefines ==
    ASSUME IInv, NEW c \in Callers, StartFetch(c)
    PROVE  LET k == call[c].key
           IN  /\ k \in Keys /\ Fetching[c] = "none" /\ k \notin UsableKeys
               /\ c \in Lost \/ \A d \in Callers : ~(d \notin Lost /\ Fetching[d] = k)
               /\ Fetching' = [Fetching EXCEPT ![c] = k]
               /\ UNCHANGED <<UsableKeys, Lost>>
<1> DEFINE k == call[c].key
           l == call[c].lock
<1>1. /\ call[c].pc = "waiting" /\ ~Held(k, l) /\ ~Usable(k)
      /\ call'[c] = At("fetching", k, l)
      /\ \A d \in Callers : d # c => call'[d] = call[d]
      /\ UNCHANGED <<lock, left>>
  BY DEF IInv, TypeOK, StartFetch
<1>2. k \in Keys /\ k # "none"
  BY <1>1, CallTypes DEF IInv
<1>3. ASSUME c \notin Lost, NEW d \in Callers, d \notin Lost, Fetching[d] = k PROVE FALSE
  <2>1. call[d].pc = "fetching" /\ call[d].key = k
    BY <1>2, <1>3 DEF Fetching
  <2>2. call[d].lock = l
    BY <1>1, <1>3, <2>1 DEF Lost
  <2>3. call[d] = At("fetching", k, l)
    <3>1. call[d] \in [pc : {"idle", "waiting", "fetching"}, key : Keys \cup {"none"},
                       lock : Numbers \cup {NoLock}]
      BY DEF IInv, TypeOK
    <3> QED
      BY <2>1, <2>2, <3>1 DEF At
  <2> QED
    BY <2>3, <1>1 DEF Held
<1>4. \A d \in Callers : d # c => (d \in Lost' <=> d \in Lost) /\ Fetching'[d] = Fetching[d]
  BY <1>1, OneMoves
<1>5. (c \in Lost' <=> c \in Lost) /\ Fetching'[c] = k /\ Fetching[c] = "none"
  BY <1>1 DEF Lost, Fetching, At
<1>6. UNCHANGED UsableKeys /\ k \notin UsableKeys
  BY <1>1 DEF UsableKeys, Usable
<1>7. UNCHANGED Lost
  BY <1>4, <1>5 DEF Lost
<1>8. Fetching' = [Fetching EXCEPT ![c] = k]
  BY <1>4, <1>5 DEF Fetching
<1> QED
  BY <1>2, <1>3, <1>5, <1>6, <1>7, <1>8

(* A token stored is the end of a fetch.                                    *)
LEMMA StoreRefines ==
    ASSUME IInv, NEW c \in Callers, NEW life \in Lifetimes, Store(c, life)
    PROVE  /\ Fetching[c] # "none" /\ Fetching' = [Fetching EXCEPT ![c] = "none"]
           /\ UsableKeys' \subseteq UsableKeys \cup {Fetching[c]}
           /\ Lost' = Lost \ {c}
<1>1. call' = [call EXCEPT ![c] = NotCalled] /\ UNCHANGED lock /\ call[c].pc = "fetching"
  BY DEF Store
<1>2. Fetching[c] = call[c].key /\ Fetching[c] # "none"
  BY <1>1, CallTypes DEF Fetching, IInv
<1>3. \A k \in Keys : k # call[c].key => left'[k] \in {left[k], 0}
  BY DEF Store
<1>4. UsableKeys' \subseteq UsableKeys \cup {Fetching[c]}
  BY <1>2, <1>3 DEF UsableKeys, Usable
<1> QED
  BY <1>1, <1>2, <1>4, CallEnds

(* get_s2s_token is a single-flight cache, but for the calls whose lock it  *)
(* has dropped: every step of it is a step of SingleFlight or changes       *)
(* nothing there.                                                           *)
THEOREM ImplementsSingleFlight == Spec => SingleFlightSpec
<1> USE DEF Fetching, UsableKeys, Lost
<1>1. Init => Flights!Init
  BY DEF Init, Flights!Init, NotCalled, Usable
<1>2. IInv /\ [Next]_vars => [Flights!Next]_(Flights!vars)
  <2> SUFFICES ASSUME IInv, [Next]_vars PROVE [Flights!Next]_(Flights!vars)
    OBVIOUS
  <2> USE DEF Flights!Next, Flights!vars
  <2>1. ASSUME NEW c \in Callers, NEW k \in Keys, FindLock(c, k)
        PROVE  UNCHANGED Flights!vars
    BY <2>1, FindLockRefines
  <2>2. ASSUME NEW c \in Callers, NEW k \in Keys, CreateLock(c, k)
        PROVE  Flights!LoseTrack
    BY <2>2, CreateLockRefines DEF Flights!LoseTrack
  <2>3. ASSUME NEW c \in Callers, ReturnCached(c)
        PROVE  Flights!Return(c)
    <3>1. call' = [call EXCEPT ![c] = NotCalled] /\ UNCHANGED <<lock, left>> /\ call[c].pc = "waiting"
      BY <2>3 DEF ReturnCached
    <3>2. Fetching' = [Fetching EXCEPT ![c] = "none"] /\ Lost' = Lost \ {c} /\ Fetching[c] = "none"
      BY <3>1, CallEnds
    <3>3. Fetching' = Fetching /\ UsableKeys' = UsableKeys
      BY <3>1, <3>2 DEF Usable
    <3> QED
      BY <3>2, <3>3 DEF Flights!Return
  <2>4. ASSUME NEW c \in Callers, StartFetch(c)
        PROVE  \E k \in Keys : Flights!Begin(c, k)
    BY <2>4, StartFetchRefines DEF Flights!Begin, Flights!Fetches
  <2>5. ASSUME NEW c \in Callers, NEW life \in Lifetimes, Store(c, life)
        PROVE  Flights!End(c)
    BY <2>5, StoreRefines DEF Flights!End
  <2>6. ASSUME NEW c \in Callers, Fail(c)
        PROVE  Flights!End(c) \/ Flights!Return(c)
    <3>1. call' = [call EXCEPT ![c] = NotCalled] /\ UNCHANGED <<lock, left>>
      BY <2>6 DEF Fail
    <3>2. Fetching' = [Fetching EXCEPT ![c] = "none"] /\ Lost' = Lost \ {c}
      BY <3>1, CallEnds
    <3>3. UsableKeys' = UsableKeys
      BY <3>1 DEF Usable
    <3>4. CASE Fetching[c] # "none"
      BY <3>2, <3>3, <3>4 DEF Flights!End
    <3>5. CASE Fetching[c] = "none"
      <4>1. Fetching' = Fetching
        BY <3>2, <3>5
      <4> QED
        BY <3>2, <3>3, <3>5, <4>1 DEF Flights!Return
    <3> QED
      BY <3>4, <3>5
  <2>7. ASSUME Tick PROVE Flights!Forget
    BY <2>7 DEF Tick, IInv, TypeOK, Usable, Flights!Forget
  <2>8. CASE UNCHANGED vars
    BY <2>8 DEF vars, Usable
  <2> QED
    BY <2>1, <2>2, <2>3, <2>4, <2>5, <2>6, <2>7, <2>8 DEF Next
<1> QED
  BY <1>1, <1>2, AlwaysIInv, PTL DEF Spec, SingleFlightSpec, Flights!Spec

----------------------------------------------------------------------------
(* HttpPool *)

Pooled ==
    /\ Distinct(pool)
    /\ \A k \in Services : IF InPool(k) THEN pooled[k] \in {k} \X ClientNumbers
                           ELSE pooled[k] = NoClient

PoolLocked ==
    /\ \A c \in Calls :
           /\ toolCall[c].pc # "idle" => toolCall[c].key \in Services
           /\ toolCall[c].pc = "evicting" => holder = c /\ ~InPool(toolCall[c].key)
    /\ \A k \in toEvict : InPool(k)
    /\ toEvict # {} => holder = "cleanup"

PoolIInv == PoolTypeOK /\ Pooled /\ PoolLocked /\ PooledIffOpen

(* The clients of a key that is not in the pool are all closed.             *)
LEMMA NotOpen ==
    ASSUME PoolIInv, NEW k \in Services, ~InPool(k), NEW i \in ClientNumbers
    PROVE  <<k, i>> \notin open
<1> SUFFICES ASSUME <<k, i>> \in open PROVE FALSE
  OBVIOUS
<1>1. PICK x \in Services : InPool(x) /\ pooled[x] = <<k, i>>
  BY DEF PoolIInv, PooledIffOpen
<1>2. pooled[x] \in {x} \X ClientNumbers
  BY <1>1 DEF PoolIInv, Pooled
<1>3. x = k
  BY <1>1, <1>2
<1> QED
  BY <1>1, <1>3

(* There are more clients of a key than calls.                              *)
LEMMA FreshClient ==
    ASSUME PoolIInv, NEW k \in Services, ~InPool(k)
    PROVE  \E i \in ClientNumbers : <<k, i>> \notin HeldClients \cup open
<1> DEFINE f == [c \in Calls |-> toolCall[c].client[2]]
           used == {f[c] : c \in Calls}
<1>1. IsFiniteSet(Calls) /\ Cardinality(Calls) \in Nat
  BY PoolAssumption, FS_CardinalityType
<1>2. f \in Surjection(Calls, used)
  BY DEF Surjection
<1>3. IsFiniteSet(used) /\ Cardinality(used) <= Cardinality(Calls)
  BY <1>1, <1>2, FS_Surjection
<1>4. Cardinality(ClientNumbers) = Cardinality(Calls) + 1
  BY <1>1, FS_Interval DEF ClientNumbers
<1>5. ASSUME ClientNumbers \subseteq used PROVE FALSE
  <2>1. Cardinality(ClientNumbers) <= Cardinality(used)
    BY <1>5, <1>3, FS_Subset
  <2>2. Cardinality(used) \in Nat
    BY <1>3, FS_CardinalityType
  <2> QED
    BY <2>1, <2>2, <1>1, <1>3, <1>4
<1>6. PICK i \in ClientNumbers : i \notin used
  BY <1>5
<1>7. <<k, i>> \notin HeldClients
  BY <1>6 DEF HeldClients
<1>8. <<k, i>> \notin open
  BY NotOpen
<1> QED
  BY <1>7, <1>8

(* One call moves on.                                                       *)
LEMMA PoolOneCall ==
    ASSUME PoolIInv, NEW c \in Calls, NEW pc \in Steps, NEW k \in Services \cup {"none"},
           NEW client \in Clients \cup {NoClient}, toolCall' = [toolCall EXCEPT ![c] = CallAt(pc, k, client)]
    PROVE  /\ toolCall' \in [Calls -> [pc : Steps, key : Services \cup {"none"},
                                   client : Clients \cup {NoClient}]]
           /\ toolCall'[c].pc = pc /\ toolCall'[c].key = k
           /\ \A d \in Calls : d # c => toolCall'[d] = toolCall[d]
BY DEF PoolIInv, PoolTypeOK, CallAt

(* The pool is empty and nobody has called.                                 *)
LEMMA PoolInitially == PoolInit => PoolIInv
<1> SUFFICES ASSUME PoolInit PROVE PoolIInv
  OBVIOUS
<1>1. \A k \in Services : ~InPool(k)
  BY DEF PoolInit, InPool, In
<1>2. PoolTypeOK
  BY PoolAssumption DEF PoolInit, PoolTypeOK, NotInUse, Steps
<1>3. Pooled /\ PooledIffOpen
  BY <1>1 DEF Pooled, PooledIffOpen, PoolInit, Distinct
<1>4. PoolLocked
  BY DEF PoolLocked, PoolInit, NotInUse
<1> QED
  BY <1>2, <1>3, <1>4 DEF PoolIInv

(* A client closed leaves the pool, and no other does.                      *)
LEMMA CloseFacts ==
    ASSUME PoolIInv, NEW k \in Services, InPool(k), Close(k)
    PROVE  /\ pool' \in Seq(Services) /\ Len(pool') = Len(pool) - 1
           /\ pooled' \in [Services -> Clients \cup {NoClient}]
           /\ idle' \in [Services -> 0..IdleTimeout] /\ open' \subseteq Clients
           /\ \A j \in Services : InPool(j)' <=> InPool(j) /\ j # k
           /\ Pooled' /\ PooledIffOpen'
<1>1. pool \in Seq(Services) /\ In(k, pool) /\ Distinct(pool)
  BY DEF PoolIInv, PoolTypeOK, Pooled, InPool
<1>2. pool' = Without(pool, k)
  BY DEF Close
<1>3. /\ pool' \in Seq(Services) /\ Len(pool') = Len(pool) - 1 /\ Distinct(pool')
      /\ \A j : j # k => (In(j, pool') <=> In(j, pool))
      /\ ~In(k, pool')
  BY <1>1, <1>2, WithoutFacts
<1>4. \A j \in Services : InPool(j)' <=> InPool(j) /\ j # k
  BY <1>3 DEF InPool
<1>5. /\ pooled' \in [Services -> Clients \cup {NoClient}] /\ open' \subseteq Clients
      /\ idle' \in [Services -> 0..IdleTimeout]
      /\ pooled'[k] = NoClient /\ \A j \in Services : j # k => pooled'[j] = pooled[j]
      /\ open' = open \ {pooled[k]}
  BY PoolAssumption DEF PoolIInv, PoolTypeOK, Close
<1>6. Pooled'
  <2> SUFFICES ASSUME NEW j \in Services
               PROVE  IF InPool(j)' THEN pooled'[j] \in {j} \X ClientNumbers ELSE pooled'[j] = NoClient
    BY <1>3 DEF Pooled
  <2> QED
    BY <1>4, <1>5 DEF PoolIInv, Pooled
<1>7. \A j \in Services : InPool(j) /\ j # k => pooled[j] # pooled[k]
  <2> SUFFICES ASSUME NEW j \in Services, InPool(j), pooled[j] = pooled[k] PROVE j = k
    OBVIOUS
  <2>1. pooled[j] \in {j} \X ClientNumbers /\ pooled[k] \in {k} \X ClientNumbers
    BY DEF PoolIInv, Pooled
  <2> QED
    BY <2>1
<1>8. PooledIffOpen'
  BY <1>4, <1>5, <1>7 DEF PoolIInv, PooledIffOpen
<1> QED
  BY <1>3, <1>4, <1>5, <1>6, <1>8

(* A call asks, and does not have the lock yet.                             *)
LEMMA AskStep ==
    ASSUME PoolIInv, NEW c \in Calls, NEW k \in Services, Ask(c, k)
    PROVE  PoolIInv'
<1>1. /\ toolCall' \in [Calls -> [pc : Steps, key : Services \cup {"none"},
                              client : Clients \cup {NoClient}]]
      /\ toolCall'[c].pc = "asking" /\ toolCall'[c].key = k
      /\ \A d \in Calls : d # c => toolCall'[d] = toolCall[d]
  BY PoolOneCall DEF Ask, Steps
<1>2. UNCHANGED <<pool, pooled, idle, open, holder, toEvict>>
  BY DEF Ask
<1>3. PoolTypeOK'
  BY <1>1, <1>2 DEF PoolIInv, PoolTypeOK
<1>4. PoolLocked'
  BY <1>1, <1>2 DEF PoolIInv, PoolLocked, InPool
<1> QED
  BY <1>2, <1>3, <1>4 DEF PoolIInv, Pooled, PooledIffOpen, InPool

(* A client handed out again.                                               *)
LEMMA ReuseStep ==
    ASSUME PoolIInv, NEW c \in Calls, Reuse(c)
    PROVE  PoolIInv'
<1> DEFINE k == toolCall[c].key
<1>1. k \in Services /\ InPool(k) /\ pooled[k] \in Clients \cup {NoClient}
  BY DEF PoolIInv, PoolTypeOK, PoolLocked, Reuse
<1>2. /\ toolCall' \in [Calls -> [pc : Steps, key : Services \cup {"none"},
                              client : Clients \cup {NoClient}]]
      /\ toolCall'[c].pc = "using" /\ toolCall'[c].key = k
      /\ \A d \in Calls : d # c => toolCall'[d] = toolCall[d]
  BY <1>1, PoolOneCall DEF Reuse, Steps
<1>3. /\ pool' = MovedToEnd(pool, k) /\ UNCHANGED <<pooled, open, holder, toEvict>>
      /\ idle' = [idle EXCEPT ![k] = 0]
  BY DEF Reuse
<1>4. pool \in Seq(Services) /\ In(k, pool) /\ Distinct(pool)
  BY <1>1 DEF PoolIInv, PoolTypeOK, Pooled, InPool
<1> HIDE DEF k
<1>5. /\ pool' \in Seq(Services) /\ Len(pool') = Len(pool) /\ Distinct(pool')
      /\ \A j : In(j, pool') <=> In(j, pool)
  BY <1>3, <1>4, MovedFacts
<1>6. \A j \in Services : InPool(j)' <=> InPool(j)
  BY <1>5 DEF InPool
<1>7. idle' \in [Services -> 0..IdleTimeout]
  <2>1. 0 \in 0..IdleTimeout
    BY PoolAssumption
  <2>2. idle \in [Services -> 0..IdleTimeout]
    BY DEF PoolIInv, PoolTypeOK
  <2> QED
    BY <1>3, <2>1, <2>2
<1>8. PoolTypeOK'
  BY <1>2, <1>3, <1>5, <1>7 DEF PoolIInv, PoolTypeOK
<1>9. Pooled' /\ PooledIffOpen'
  BY <1>3, <1>5, <1>6 DEF PoolIInv, Pooled, PooledIffOpen
<1>10. PoolLocked'
  <2>1. toEvict \subseteq Services
    BY DEF PoolIInv, PoolTypeOK
  <2> QED
    BY <1>1, <1>2, <1>3, <1>6, <2>1 DEF PoolIInv, PoolLocked
<1> QED
  BY <1>8, <1>9, <1>10 DEF PoolIInv

(* The one who evicts or creates: it has the lock, or takes it.             *)
LEMMA LockTaken ==
    ASSUME PoolIInv, NEW c \in Calls,
           \/ toolCall[c].pc = "asking" /\ holder = "none" /\ ~InPool(toolCall[c].key)
           \/ toolCall[c].pc = "evicting"
    PROVE  /\ toolCall[c].key \in Services /\ ~InPool(toolCall[c].key) /\ toEvict = {}
           /\ \A d \in Calls : d # c => toolCall[d].pc # "evicting"
BY PoolAssumption DEF PoolIInv, PoolLocked

(* The oldest client leaves the pool before it is closed.                   *)
LEMMA EvictStep ==
    ASSUME PoolIInv, NEW c \in Calls, Evict(c)
    PROVE  PoolIInv'
<1> DEFINE k == toolCall[c].key
           h == Head(pool)
<1>1. /\ k \in Services /\ ~InPool(k) /\ toEvict = {}
      /\ \A d \in Calls : d # c => toolCall[d].pc # "evicting"
  BY LockTaken DEF Evict
<1>2. /\ pool \in Seq(Services) /\ Len(pool) \in Nat /\ Len(pool) > 0 /\ Len(pool) <= MaxClients
      /\ MaxClients \in Nat
  BY PoolAssumption DEF Evict, PoolIInv, PoolTypeOK
<1>3. h \in Services /\ InPool(h) /\ Close(h)
  BY <1>2, TailFacts DEF InPool, Evict
<1>4. toolCall' = [toolCall EXCEPT ![c] = CallAt("evicting", k, NoClient)] /\ holder' = c /\ UNCHANGED toEvict
  BY DEF Evict
<1> HIDE DEF k, h
<1>5. /\ pool' \in Seq(Services) /\ Len(pool') = Len(pool) - 1
      /\ pooled' \in [Services -> Clients \cup {NoClient}]
      /\ idle' \in [Services -> 0..IdleTimeout] /\ open' \subseteq Clients
      /\ \A j \in Services : InPool(j)' <=> InPool(j) /\ j # h
      /\ Pooled' /\ PooledIffOpen'
  BY <1>3, CloseFacts
<1>6. /\ toolCall' \in [Calls -> [pc : Steps, key : Services \cup {"none"},
                              client : Clients \cup {NoClient}]]
      /\ toolCall'[c].pc = "evicting" /\ toolCall'[c].key = k
      /\ \A d \in Calls : d # c => toolCall'[d] = toolCall[d]
  BY <1>1, <1>4, PoolOneCall DEF Steps
<1>7. PoolTypeOK'
  BY <1>2, <1>4, <1>5, <1>6 DEF PoolIInv, PoolTypeOK
<1>8. PoolLocked'
  BY <1>1, <1>4, <1>5, <1>6 DEF PoolIInv, PoolLocked
<1> QED
  BY <1>5, <1>7, <1>8 DEF PoolIInv

(* A new client is none of those in use.                                    *)
LEMMA CreateStep ==
    ASSUME PoolIInv, NEW c \in Calls, Create(c)
    PROVE  PoolIInv'
<1> DEFINE k == toolCall[c].key
           n == CHOOSE i \in ClientNumbers : <<k, i>> \notin HeldClients \cup open
           new == <<k, n>>
<1>1. /\ k \in Services /\ ~InPool(k) /\ toEvict = {}
      /\ \A d \in Calls : d # c => toolCall[d].pc # "evicting"
  BY LockTaken DEF Create
<1>2. n \in ClientNumbers
  BY <1>1, FreshClient
<1>3. new \in Clients /\ new \in {k} \X ClientNumbers
  <2> HIDE DEF n
  <2> QED
    BY <1>1, <1>2 DEF Clients
<1>4. /\ pooled' = [pooled EXCEPT ![k] = new] /\ open' = open \cup {new}
      /\ toolCall' = [toolCall EXCEPT ![c] = CallAt("using", k, new)]
      /\ pool' = Append(pool, k) /\ idle' = [idle EXCEPT ![k] = 0]
      /\ holder' = "none" /\ UNCHANGED toEvict /\ Len(pool) < MaxClients
  BY DEF Create
<1> HIDE DEF k, n, new
<1>5. /\ pool \in Seq(Services) /\ Len(pool) \in Nat /\ MaxClients \in Nat /\ Distinct(pool)
      /\ ~In(k, pool)
  BY <1>1, PoolAssumption DEF PoolIInv, PoolTypeOK, Pooled, InPool
<1>6. /\ pool' \in Seq(Services) /\ Len(pool') <= MaxClients /\ Distinct(pool')
      /\ \A j : In(j, pool') <=> j = k \/ In(j, pool)
  BY <1>1, <1>4, <1>5, AppendFacts
<1>7. \A j \in Services : InPool(j)' <=> j = k \/ InPool(j)
  BY <1>6 DEF InPool
<1>8. /\ pooled' \in [Services -> Clients \cup {NoClient}] /\ open' \subseteq Clients
      /\ idle' \in [Services -> 0..IdleTimeout]
      /\ pooled'[k] = new /\ \A j \in Services : j # k => pooled'[j] = pooled[j]
  BY <1>1, <1>3, <1>4, PoolAssumption DEF PoolIInv, PoolTypeOK
<1>9. /\ toolCall' \in [Calls -> [pc : Steps, key : Services \cup {"none"},
                              client : Clients \cup {NoClient}]]
      /\ toolCall'[c].pc = "using" /\ toolCall'[c].key = k
      /\ \A d \in Calls : d # c => toolCall'[d] = toolCall[d]
  BY <1>1, <1>3, <1>4, PoolOneCall DEF Steps
<1>10. PoolTypeOK'
  BY <1>4, <1>6, <1>8, <1>9 DEF PoolIInv, PoolTypeOK
<1>11. Pooled'
  <2> SUFFICES ASSUME NEW j \in Services
               PROVE  IF InPool(j)' THEN pooled'[j] \in {j} \X ClientNumbers ELSE pooled'[j] = NoClient
    BY <1>6 DEF Pooled
  <2>1. CASE j = k
    BY <2>1, <1>3, <1>7, <1>8
  <2>2. CASE j # k
    BY <2>2, <1>7, <1>8 DEF PoolIInv, Pooled
  <2> QED
    BY <2>1, <2>2
<1>12. PooledIffOpen'
  <2>1. {pooled'[j] : j \in {x \in Services : InPool(x)'}} =
        {pooled[j] : j \in {x \in Services : InPool(x)}} \cup {new}
    BY <1>1, <1>7, <1>8
  <2> QED
    BY <2>1, <1>4 DEF PoolIInv, PooledIffOpen
<1>13. PoolLocked'
  BY <1>1, <1>4, <1>9 DEF PoolIInv, PoolLocked
<1> QED
  BY <1>10, <1>11, <1>12, <1>13 DEF PoolIInv

(* A call that ends gives the lock back if it had it.                       *)
LEMMA FinishStep ==
    ASSUME PoolIInv, NEW c \in Calls, Finish(c)
    PROVE  PoolIInv'
<1>1. /\ toolCall' \in [Calls -> [pc : Steps, key : Services \cup {"none"},
                              client : Clients \cup {NoClient}]]
      /\ toolCall'[c].pc = "idle"
      /\ \A d \in Calls : d # c => toolCall'[d] = toolCall[d]
  BY PoolOneCall DEF Finish, Steps, NotInUse, CallAt
<1>2. /\ UNCHANGED <<pool, pooled, idle, open, toEvict>>
      /\ holder' = IF holder = c THEN "none" ELSE holder
  BY DEF Finish
<1>3. PoolTypeOK'
  BY <1>1, <1>2 DEF PoolIInv, PoolTypeOK
<1>4. PoolLocked'
  BY <1>1, <1>2, PoolAssumption DEF PoolIInv, PoolLocked, InPool
<1> QED
  BY <1>2, <1>3, <1>4 DEF PoolIInv, Pooled, PooledIffOpen, InPool

(* The cleanup keeps the lock until all it found idle is closed.            *)
LEMMA CleanupStep ==
    ASSUME PoolIInv, CleanupStart \/ (\E k \in Services : CleanupClose(k)) \/ CleanupEnd
    PROVE  PoolIInv'
<1>1. CASE CleanupStart
  <2>1. /\ toEvict' \subseteq {k \in Services : InPool(k)} /\ holder = "none" /\ holder' = "cleanup"
        /\ UNCHANGED <<pool, pooled, idle, open, toolCall>>
    BY <1>1 DEF CleanupStart, IdleKeys
  <2>2. PoolTypeOK'
    BY <2>1 DEF PoolIInv, PoolTypeOK
  <2>3. PoolLocked'
    BY <2>1, PoolAssumption DEF PoolIInv, PoolLocked, InPool
  <2> QED
    BY <2>1, <2>2, <2>3 DEF PoolIInv, Pooled, PooledIffOpen, InPool
<1>2. ASSUME NEW k \in Services, CleanupClose(k) PROVE PoolIInv'
  <2>1. k \in toEvict /\ Close(k) /\ toEvict' = toEvict \ {k} /\ UNCHANGED <<holder, toolCall>>
    BY <1>2 DEF CleanupClose
  <2>2. InPool(k) /\ holder = "cleanup" /\ \A c \in Calls : toolCall[c].pc # "evicting"
    BY <2>1, PoolAssumption DEF PoolIInv, PoolLocked
  <2>3. /\ pool' \in Seq(Services) /\ Len(pool') = Len(pool) - 1
        /\ pooled' \in [Services -> Clients \cup {NoClient}]
        /\ idle' \in [Services -> 0..IdleTimeout] /\ open' \subseteq Clients
        /\ \A j \in Services : InPool(j)' <=> InPool(j) /\ j # k
        /\ Pooled' /\ PooledIffOpen'
    BY <2>1, <2>2, CloseFacts
  <2>4. Len(pool') <= MaxClients
    BY <2>3, PoolAssumption DEF PoolIInv, PoolTypeOK
  <2>5. PoolTypeOK'
    BY <2>1, <2>3, <2>4 DEF PoolIInv, PoolTypeOK
  <2>6. PoolLocked'
    <3>1. toEvict \subseteq Services
      BY DEF PoolIInv, PoolTypeOK
    <3> QED
      BY <2>1, <2>2, <2>3, <3>1 DEF PoolIInv, PoolLocked
  <2> QED
    BY <2>3, <2>5, <2>6 DEF PoolIInv
<1>3. CASE CleanupEnd
  <2>1. /\ toEvict = {} /\ holder = "cleanup" /\ holder' = "none"
        /\ UNCHANGED <<pool, pooled, idle, open, toEvict, toolCall>>
    BY <1>3 DEF CleanupEnd
  <2>2. PoolTypeOK'
    BY <2>1 DEF PoolIInv, PoolTypeOK
  <2>3. PoolLocked'
    BY <2>1, PoolAssumption DEF PoolIInv, PoolLocked
  <2> QED
    BY <2>1, <2>2, <2>3 DEF PoolIInv, Pooled, PooledIffOpen, InPool
<1> QED
  BY <1>1, <1>2, <1>3

(* Time changes no client.                                                  *)
LEMMA PoolTickStep == ASSUME PoolIInv, PoolTick PROVE PoolIInv'
<1>1. UNCHANGED <<pool, pooled, open, holder, toEvict, toolCall>>
  BY DEF PoolTick
<1>2. idle' \in [Services -> 0..IdleTimeout]
  BY PoolAssumption DEF PoolIInv, PoolTypeOK, PoolTick
<1> QED
  BY <1>1, <1>2 DEF PoolIInv, PoolTypeOK, Pooled, PooledIffOpen, PoolLocked, InPool

(* Every step keeps the invariant of the pool.                              *)
LEMMA PoolNextStep == PoolIInv /\ [PoolNext]_poolVars => PoolIInv'
<1> SUFFICES ASSUME PoolIInv, [PoolNext]_poolVars PROVE PoolIInv'
  OBVIOUS
<1>1. ASSUME NEW c \in Calls, NEW k \in Services, Ask(c, k) PROVE PoolIInv'
  BY <1>1, AskStep
<1>2. ASSUME NEW c \in Calls, Reuse(c) \/ Evict(c) \/ Create(c) \/ Finish(c) PROVE PoolIInv'
  BY <1>2, ReuseStep, EvictStep, CreateStep, FinishStep
<1>3. CASE UNCHANGED poolVars
  BY <1>3 DEF poolVars, PoolIInv, PoolTypeOK, Pooled, PooledIffOpen, PoolLocked, InPool
<1> QED
  BY <1>1, <1>2, <1>3, CleanupStep, PoolTickStep DEF PoolNext

(* That invariant holds in every reachable state.                           *)
LEMMA PoolAlwaysIInv == PoolSpec => []PoolIInv
BY PoolInitially, PoolNextStep, PTL DEF PoolSpec

(* The pool keeps to _MAX_POOL_CLIENTS whoever evicts, creates and cleans   *)
(* up in whatever order, and every call's locals keep their types.          *)
THEOREM PoolTypeCorrect == PoolSpec => []PoolTypeOK
<1>1. PoolIInv => PoolTypeOK
  BY DEF PoolIInv
<1> QED
  BY <1>1, PoolAlwaysIInv, PTL

(* What get_base_client hands out is open when it is handed out, and no     *)
(* client that is open is forgotten.                                        *)
THEOREM PoolHoldsOpen == PoolSpec => []PooledIffOpen
<1>1. PoolIInv => PooledIffOpen
  BY DEF PoolIInv
<1> QED
  BY <1>1, PoolAlwaysIInv, PTL
=============================================================================
