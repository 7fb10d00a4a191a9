--------------------------- MODULE SessionsProofs ---------------------------
(***************************************************************************)
(* Proofs about Sessions, for any users, sessions, calls and bounds that   *)
(* SessionsAssumption allows.                                              *)
(***************************************************************************)
EXTENDS Sessions, FiniteSetTheorems, TLAPS

(***************************************************************************)
(* The inductive invariant.  RevokedStaysOut is not inductive: a lookup    *)
(* could be on its way to put a revoked session back.  It stays out        *)
(* because its key is old (Stale), keys only move on (KeysInOrder), so     *)
(* that any lookup of it still to be answered fails, and because no lookup *)
(* answered earlier is left (RevokedInv).                                  *)
(***************************************************************************)
KeysInOrder ==
    \A s \in Connected : client[s].version <= keyVersion[client[s].user]

CallsConnected ==
    \A r \in Requests : req[r].pc # "idle" => req[r].sid \in Connected

RevokedInv ==
    \A s \in revoked :
        /\ Stale(s)
        /\ s \notin cached
        /\ \A r \in Requests : ~(req[r].sid = s /\ req[r].pc = "known")

(* The failures already counted plus the lookups that may still add one.    *)
Pending(k) ==
    {r \in Requests : /\ req[r].pc \in {"looking_up", "known", "unknown"}
                      /\ client[req[r].sid] = k}

PendingBounded ==
    \A k \in Keys :
        failures[k] + Cardinality(Pending(k)) < AuthFailMax + Cardinality(Requests)

Typed == TypeOK /\ KeysInOrder /\ CallsConnected

----------------------------------------------------------------------------
(* The store's operations *)

(* What put_session keeps was in the store.                                 *)
LEMMA KeptSubset ==
  ASSUME NEW s, NEW k \in Kept(s)
  PROVE  k \subseteq cached /\ s \notin k
  BY DEF Kept, Expired

(* put_session adds one session and resets one age.                         *)
LEMMA PutTypes ==
  ASSUME Typed, NEW s \in Connected, PutSession(s)
  PROVE  /\ cached' \subseteq cached \cup {s}
         /\ age' \in [SessionIds -> 0..(SessionTTL + 1)]
<1>1. PICK k \in Kept(s) :
         /\ cached' = k \cup {s}
         /\ age' = [i \in SessionIds |-> IF i \in k THEN age[i] ELSE 0]
  BY DEF PutSession
<1> QED
  BY <1>1, KeptSubset, SessionsAssumption DEF Typed, TypeOK

(* delete_user_sessions removes the sessions of a user.                     *)
LEMMA DeleteTypes ==
  ASSUME Typed, NEW u, DeleteUserSessions(u)
  PROVE  /\ cached' = {s \in cached : client[s].user # u}
         /\ age' \in [SessionIds -> 0..(SessionTTL + 1)]
  BY SessionsAssumption DEF Typed, TypeOK, DeleteUserSessions

----------------------------------------------------------------------------
(* Types *)

(* No client is connected at first.                                         *)
LEMMA InitTyped == Init => Typed
  BY SessionsAssumption
  DEF Init, Typed, TypeOK, KeysInOrder, CallsConnected, Connected, Keys,
      NotConnected, NoRequest, At, Steps, Ops

(* A client that connects sends a key.                                      *)
LEMMA ConnectTyped ==
  ASSUME Typed, NEW s \in SessionIds, NEW k \in Keys, Connect(s, k)
  PROVE  Typed' /\ Connected \subseteq Connected'
<1> USE SessionsAssumption DEF Typed
<1>1. k # NotConnected
  BY DEF Keys, NotConnected
<1>2. Connected' = Connected \cup {s} /\ s \notin Connected
  BY <1>1 DEF Connect, Connected, TypeOK
<1>3. TypeOK'
  BY <1>2 DEF Connect, TypeOK, store, table, rotations
<1>4. KeysInOrder'
  BY <1>2 DEF Connect, TypeOK, KeysInOrder, Connected
<1>5. CallsConnected'
  BY <1>2 DEF Connect, CallsConnected
<1> QED
  BY <1>2, <1>3, <1>4, <1>5

(* Every step keeps the types.                                              *)
LEMMA NextTyped == Typed /\ [Next]_vars => Typed'
<1> SUFFICES ASSUME Typed, [Next]_vars
             PROVE  Typed'
  OBVIOUS
<1> USE SessionsAssumption DEF Typed, Steps, Ops, At, NoRequest
<1>1. ASSUME NEW s \in SessionIds, NEW k \in Keys, Connect(s, k)
      PROVE  Typed'
  BY <1>1, ConnectTyped
<1>2. ASSUME NEW r \in Requests, NEW op \in Ops, NEW s \in SessionIds,
             StartCached(r, op, s)
      PROVE  Typed'
  BY <1>2 DEF StartCached, Hit, Live, Proceed, TypeOK, KeysInOrder,
              CallsConnected, Connected, Stale, store, table, rotations
<1>3. ASSUME NEW r \in Requests, NEW op \in Ops, NEW s \in SessionIds,
             StartLookup(r, op, s)
      PROVE  Typed'
  BY <1>3 DEF StartLookup, Miss, Live, TypeOK, KeysInOrder, CallsConnected,
              Connected, store, table, rotations
<1>4. ASSUME NEW r \in Requests, Select(r)
      PROVE  Typed'
  BY <1>4 DEF Select, TypeOK, KeysInOrder, CallsConnected, Connected,
              store, table, rotations
<1>5. ASSUME NEW r \in Requests, ResumeKnown(r)
      PROVE  Typed'
  <2>1. req[r].sid \in Connected
    BY <1>5 DEF ResumeKnown, CallsConnected
  <2>2. /\ cached' \subseteq cached \cup {req[r].sid}
        /\ age' \in [SessionIds -> 0..(SessionTTL + 1)]
    BY <1>5, <2>1, PutTypes DEF ResumeKnown
  <2> QED
    BY <1>5, <2>1, <2>2 DEF ResumeKnown, Proceed, TypeOK, KeysInOrder,
                            CallsConnected, Connected, rotations
<1>6. ASSUME NEW r \in Requests, ResumeUnknown(r)
      PROVE  Typed'
  BY <1>6 DEF ResumeUnknown, TypeOK, KeysInOrder, CallsConnected, Connected,
              store, table, rotations
<1>7. ASSUME NEW r \in Requests, Update(r)
      PROVE  Typed'
  <2>1. req[r].sid \in Connected
    BY <1>7 DEF Update, CallsConnected
  <2>2. client[req[r].sid].user \in Users
    BY <2>1 DEF Connected, TypeOK, Keys
  <2>3. TypeOK'
    BY <1>7, <2>1, <2>2 DEF Update, TypeOK, Connected, store, table, rotations
  <2>4. KeysInOrder'
    BY <1>7, <2>2 DEF Update, TypeOK, KeysInOrder, Connected, Keys
  <2>5. CallsConnected'
    BY <1>7, <2>1 DEF Update, TypeOK, CallsConnected, Connected
  <2> QED
    BY <2>3, <2>4, <2>5
<1>8. ASSUME NEW r \in Requests, Invalidate(r)
      PROVE  Typed'
  <2> DEFINE u == client[req[r].sid].user
  <2>1. req[r].sid \in Connected
    BY <1>8 DEF Invalidate, CallsConnected
  <2>2. u \in Users
    BY <2>1 DEF Connected, TypeOK, Keys
  <2>3. /\ cached' \subseteq cached
        /\ age' \in [SessionIds -> 0..(SessionTTL + 1)]
    BY <1>8, DeleteTypes DEF Invalidate
  <2>4. Outdated(u) \subseteq Connected
    BY DEF Outdated
  <2>5. keyVersion[u] \in 0..MaxVersion
    BY <2>2 DEF TypeOK
  <2>6. TypeOK'
    BY <1>8, <2>1, <2>2, <2>3, <2>4, <2>5 DEF Invalidate, TypeOK, Connected
  <2> QED
    BY <1>8, <2>1, <2>6 DEF Invalidate, TypeOK, KeysInOrder, CallsConnected, Connected
<1>9. ASSUME NEW r \in Requests, Abort(r)
      PROVE  Typed'
  BY <1>9 DEF Abort, TypeOK, KeysInOrder, CallsConnected, Connected,
              store, table, rotations
<1>10. ASSUME NEW s \in SessionIds, StartLimited(s)
       PROVE  Typed'
  BY <1>10 DEF StartLimited, Miss, Live, TypeOK, KeysInOrder, CallsConnected,
               Connected, store, table, rotations
<1>11. ASSUME NEW w \in writes, ApplyWrite(w) \/ LoseWrite(w)
       PROVE  Typed'
  BY <1>11 DEF ApplyWrite, LoseWrite, TypeOK, KeysInOrder, CallsConnected,
               Connected, store, rotations
<1>12. CASE Tick
  BY <1>12 DEF Tick, Older, TypeOK, KeysInOrder, CallsConnected, Connected, rotations
<1>13. ASSUME NEW k \in Keys, FailureAges(k)
       PROVE  Typed'
  BY <1>13 DEF FailureAges, TypeOK, KeysInOrder, CallsConnected, Connected,
               store, table, rotations
<1>14. CASE Restart
  BY <1>14 DEF Restart, TypeOK, KeysInOrder, CallsConnected, Connected, rotations
<1>15. CASE UNCHANGED vars
  BY <1>15 DEF vars, store, table, rotations, TypeOK, KeysInOrder,
               CallsConnected, Connected
<1> QED
  BY <1>1, <1>2, <1>3, <1>4, <1>5, <1>6, <1>7, <1>8, <1>9, <1>10, <1>11,
     <1>12, <1>13, <1>14, <1>15
  DEF Next

(* The types hold in every reachable state.                                 *)
LEMMA AlwaysTyped == Spec => []Typed
  BY InitTyped, NextTyped, PTL DEF Spec

(* Types, and that only sessions of connected clients are cached, revoked   *)
(* or spoken for.                                                           *)
THEOREM SessionsTypeCorrect == Spec => []TypeOK
<1>1. Typed => TypeOK
  BY DEF Typed
<1> QED
  BY AlwaysTyped, <1>1, PTL

----------------------------------------------------------------------------
(* Revocation *)

(* What every action but Connect, Update and Invalidate needs: keys and     *)
(* clients stay, nothing revoked is put or becomes known.                   *)
LEMMA RevokedFrame ==
  ASSUME RevokedInv, UNCHANGED <<keyVersion, client, revoked>>,
         cached' \cap revoked \subseteq cached,
         \A r \in Requests : req'[r].pc = "known" =>
             req'[r].sid \notin revoked \/ req'[r] = req[r]
  PROVE  RevokedInv'
  BY DEF RevokedInv, Stale

(* No step brings a revoked session back or nearer to it.                   *)
LEMMA NextRevoked == Typed /\ RevokedInv /\ [Next]_vars => RevokedInv'
<1> SUFFICES ASSUME Typed, RevokedInv, [Next]_vars
             PROVE  RevokedInv'
  OBVIOUS
<1> USE DEF NoRequest, At
<1>0. /\ revoked \subseteq Connected
      /\ req \in [Requests -> [pc : Steps, op : Ops, sid : Connected \cup {"none"}]]
  BY DEF Typed, TypeOK
<1>1. ASSUME NEW s \in SessionIds, NEW k \in Keys, Connect(s, k)
      PROVE  RevokedInv'
  <2>1. \A t \in Connected : client'[t] = client[t]
    BY <1>1 DEF Connect, Connected, Typed, TypeOK
  <2> QED
    BY <1>0, <1>1, <2>1 DEF Connect, RevokedInv, Stale, store, rotations
<1>2. ASSUME NEW r \in Requests, NEW op \in Ops, NEW s \in SessionIds,
             StartCached(r, op, s) \/ StartLookup(r, op, s)
      PROVE  RevokedInv'
  BY <1>0, <1>2, RevokedFrame
  DEF StartCached, StartLookup, Hit, Miss, Proceed, rotations
(* The lookup of a revoked session finds a newer key in the table.          *)
<1>3. ASSUME NEW r \in Requests, Select(r)
      PROVE  RevokedInv'
  <2>1. req[r].sid \in revoked => Stale(req[r].sid)
    BY DEF RevokedInv
  <2> QED
    BY <1>0, <1>3, <2>1, RevokedFrame DEF Select, store, rotations
(* What is put was known, so it is not revoked.                             *)
<1>4. ASSUME NEW r \in Requests, ResumeKnown(r)
      PROVE  RevokedInv'
  <2>1. req[r].sid \in Connected /\ req[r].sid \notin revoked
    BY <1>4 DEF ResumeKnown, RevokedInv, Typed, CallsConnected
  <2>2. cached' \subseteq cached \cup {req[r].sid}
    BY <1>4, <2>1, PutTypes DEF ResumeKnown
  <2> QED
    BY <1>0, <1>4, <2>1, <2>2, RevokedFrame DEF ResumeKnown, Proceed, rotations
<1>5. ASSUME NEW r \in Requests, ResumeUnknown(r) \/ Abort(r)
      PROVE  RevokedInv'
  BY <1>0, <1>5, RevokedFrame DEF ResumeUnknown, Abort, store, rotations
(* A rotation only makes a key older.                                       *)
<1>6. ASSUME NEW r \in Requests, Update(r)
      PROVE  RevokedInv'
  <2> DEFINE u == client[req[r].sid].user
  <2>1. u \in Users
    BY <1>6 DEF Update, Typed, TypeOK, CallsConnected, Connected, Keys
  <2>2. ASSUME NEW s \in revoked
        PROVE  Stale(s)'
    <3>1. /\ client[s].version \in Nat /\ client[s].user \in Users
          /\ client[s].version < keyVersion[client[s].user]
      <4>1. s \in Connected /\ client[s] \in Keys
        BY <1>0 DEF Typed, TypeOK, Connected
      <4>2. client[s].version \in 0..MaxVersion /\ client[s].user \in Users
        BY <4>1 DEF Keys
      <4>3. keyVersion[client[s].user] \in 1..MaxVersion
        BY <4>2 DEF Typed, TypeOK
      <4>4. client[s].version # keyVersion[client[s].user]
        BY DEF RevokedInv, Stale
      <4> QED
        BY <4>1, <4>2, <4>3, <4>4, SessionsAssumption DEF Typed, KeysInOrder
    <3>2. keyVersion \in [Users -> Nat]
      BY DEF Typed, TypeOK
    <3>3. keyVersion'[client[s].user] >= keyVersion[client[s].user]
      BY <1>6, <2>1, <3>1, <3>2 DEF Update
    <3>4. keyVersion'[client[s].user] \in Nat
      BY <1>6, <2>1, <3>1, <3>2 DEF Update
    <3> QED
      BY <1>6, <3>1, <3>2, <3>3, <3>4 DEF Update, Stale
  <2> QED
    BY <1>0, <1>6, <2>2 DEF Update, RevokedInv, store, rotations
<1>7. ASSUME NEW r \in Requests, Invalidate(r)
      PROVE  RevokedInv'
  <2> DEFINE u == client[req[r].sid].user
  <2>1. cached' = {s \in cached : client[s].user # u}
    BY <1>7, DeleteTypes DEF Invalidate
  <2>2. ASSUME NEW s \in revoked'
        PROVE  /\ Stale(s) /\ s \notin cached'
               /\ \A q \in Requests : ~(req[q].sid = s /\ req[q].pc = "known")
    <3>1. CASE s \in revoked
      BY <2>1, <3>1 DEF RevokedInv
    <3>2. CASE s \in Outdated(u)
      BY <2>1, <3>2 DEF Outdated
    <3> QED
      BY <1>7, <3>1, <3>2 DEF Invalidate
  <2> QED
    BY <1>0, <1>7, <2>2 DEF Invalidate, RevokedInv, Stale
<1>8. ASSUME NEW s \in SessionIds, StartLimited(s)
      PROVE  RevokedInv'
  BY <1>8, RevokedFrame DEF StartLimited, Miss, rotations
<1>9. CASE \/ \E w \in writes : ApplyWrite(w) \/ LoseWrite(w)
           \/ Tick
           \/ \E k \in Keys : FailureAges(k)
           \/ UNCHANGED vars
  BY <1>9, RevokedFrame
  DEF ApplyWrite, LoseWrite, Tick, FailureAges, vars, store, rotations
<1>10. CASE Restart
  BY <1>10, RevokedFrame DEF Restart, rotations
<1> QED
  BY <1>1, <1>2, <1>3, <1>4, <1>5, <1>6, <1>7, <1>8, <1>9, <1>10 DEF Next

(* A session a rotation ended never gets back into the store, however many  *)
(* lookups, rotations, crashes and restarts interleave.                     *)
THEOREM RevocationFinal == Spec => []RevokedStaysOut
<1>1. Init => RevokedInv
  BY DEF Init, RevokedInv
<1>2. RevokedInv => RevokedStaysOut
  BY DEF RevokedInv, RevokedStaysOut
<1> QED
  BY AlwaysTyped, NextRevoked, <1>1, <1>2, PTL DEF Spec

----------------------------------------------------------------------------
(* Who gets in *)

Issued(s) == s \in Connected /\ client[s].version > 0

(* OnlyIssuedKeys, and that the lookups and the writes on their way to the   *)
(* store and the table are of sessions with an issued key.                  *)
IssuedInv ==
    /\ \A s \in cached : Issued(s)
    /\ \A s \in SessionIds : rowAge[s] < SessionTTL => Issued(s)
    /\ \A w \in writes : w.op = "insert" => Issued(w.of)
    /\ \A r \in Requests : req[r].pc = "known" => Issued(req[r].sid)

(* Clients keep their keys.                                                 *)
LEMMA IssuedStays ==
  ASSUME Typed, [Next]_vars, NEW s, Issued(s)
  PROVE  Issued(s)'
<1>1. s \in SessionIds
  BY DEF Issued, Connected
<1>2. CASE client' = client
  BY <1>2 DEF Issued, Connected
<1>3. ASSUME NEW t \in SessionIds, NEW k \in Keys, Connect(t, k)
      PROVE  Issued(s)'
  BY <1>1, <1>3 DEF Connect, Issued, Connected, Typed, TypeOK
<1> QED
  BY <1>2, <1>3 DEF Next, StartCached, StartLookup, StartLimited, Select,
     ResumeKnown, ResumeUnknown, Update, Invalidate, Abort, ApplyWrite,
     LoseWrite, Tick, FailureAges, Restart, vars

(* A row that is live after a step was live before, or its INSERT was in    *)
(* flight.                                                                  *)
LEMMA LiveRows ==
  ASSUME Typed, [Next]_vars, NEW s \in SessionIds, rowAge'[s] < SessionTTL
  PROVE  \/ rowAge[s] < SessionTTL
         \/ \E w \in writes : w.op = "insert" /\ w.of = s
<1> USE SessionsAssumption
<1>1. rowAge \in [SessionIds -> 0..SessionTTL]
  BY DEF Typed, TypeOK
<1>2. CASE rowAge' = rowAge
  BY <1>2
<1>3. ASSUME NEW w \in writes, ApplyWrite(w)
      PROVE  \/ rowAge[s] < SessionTTL
             \/ \E x \in writes : x.op = "insert" /\ x.of = s
  <2>1. CASE w.op = "insert" /\ w.of = s
    BY <2>1
  <2>2. CASE w.op = "insert" /\ w.of # s
    BY <1>1, <1>3, <2>2 DEF ApplyWrite
  <2>3. CASE w.op # "insert"
    BY <1>1, <1>3, <2>3 DEF ApplyWrite
  <2> QED
    BY <2>1, <2>2, <2>3
<1>4. CASE Tick
  <2>1. rowAge'[s] = Older(rowAge[s], SessionTTL)
    BY <1>4 DEF Tick
  <2> QED
    BY <1>1, <2>1 DEF Older
<1> QED
  BY <1>2, <1>3, <1>4 DEF Next, Connect, StartCached, StartLookup, StartLimited,
     Select, ResumeKnown, ResumeUnknown, Update, Invalidate, Abort, LoseWrite,
     FailureAges, Restart, vars, table

(* No step lets a key in that was never issued.                             *)
LEMMA NextIssued == Typed /\ IssuedInv /\ [Next]_vars => IssuedInv'
<1> SUFFICES ASSUME Typed, IssuedInv, [Next]_vars
             PROVE  IssuedInv'
  OBVIOUS
<1> USE DEF NoRequest, At
<1>0. /\ req \in [Requests -> [pc : Steps, op : Ops, sid : Connected \cup {"none"}]]
      /\ \A s : Issued(s) => Issued(s)'
  BY IssuedStays DEF Typed, TypeOK
<1>1. ASSUME NEW r \in Requests, ResumeKnown(r)
      PROVE  /\ cached' \subseteq cached \cup {req[r].sid}
             /\ writes' = writes \cup {[op |-> "insert", of |-> req[r].sid]}
             /\ Issued(req[r].sid)
  <2>1. Issued(req[r].sid)
    BY <1>1 DEF ResumeKnown, IssuedInv
  <2>2. req[r].sid \in Connected
    BY <2>1 DEF Issued
  <2>3. cached' \subseteq cached \cup {req[r].sid}
    BY <1>1, <2>2, PutTypes DEF ResumeKnown
  <2> QED
    BY <1>1, <2>1, <2>3 DEF ResumeKnown
<1>2. \A s \in cached' : Issued(s)'
  <2>1. ASSUME NEW r \in Requests, Invalidate(r)
        PROVE  cached' \subseteq cached
    BY <2>1, DeleteTypes DEF Invalidate
  <2>2. \/ cached' \subseteq cached
        \/ \E r \in Requests : ResumeKnown(r)
    BY <2>1 DEF Next, Connect, StartCached, StartLookup, StartLimited, Hit,
                Miss, Select, ResumeUnknown, Update, Abort, ApplyWrite,
                LoseWrite, Tick, FailureAges, Restart, vars, store
  <2> QED
    BY <1>0, <1>1, <2>2 DEF IssuedInv
<1>3. \A s \in SessionIds : rowAge'[s] < SessionTTL => Issued(s)'
  BY <1>0, LiveRows DEF IssuedInv
<1>4. \A w \in writes' : w.op = "insert" => Issued(w.of)'
  <2>1. ASSUME NEW r \in Requests, ResumeKnown(r)
        PROVE  \A w \in writes' : w.op = "insert" => Issued(w.of)'
    BY <1>0, <1>1, <2>1 DEF IssuedInv
  <2>2. CASE ~\E r \in Requests : ResumeKnown(r)
    <3>1. ASSUME NEW r \in Requests, Invalidate(r)
          PROVE  \A w \in writes' : w.op = "insert" => w \in writes
      BY <3>1 DEF Invalidate
    <3>2. \A w \in writes' : w.op = "insert" => w \in writes
      BY <2>2, <3>1
      DEF Next, Connect, StartCached, StartLookup, StartLimited, Select,
          ResumeUnknown, Update, Abort, ApplyWrite, LoseWrite, Tick,
          FailureAges, Restart, vars, table
    <3> QED
      BY <1>0, <3>2 DEF IssuedInv
  <2> QED
    BY <2>1, <2>2
(* A key that Select finds is the user's present one, and those are issued. *)
<1>5. ASSUME NEW r \in Requests, req'[r].pc = "known"
      PROVE  Issued(req[r].sid)'
  <2>1. CASE req'[r] = req[r]
    <3>1. Issued(req[r].sid)
      BY <1>5, <2>1 DEF IssuedInv
    <3> QED
      BY <1>0, <2>1, <3>1 DEF Issued
  <2>2. CASE Select(r)
    <3>1. /\ req'[r].sid = req[r].sid /\ req[r].sid \in Connected
          /\ ~Stale(req[r].sid)
      BY <1>0, <1>5, <2>2 DEF Select, Typed, CallsConnected
    <3>2. client[req[r].sid] \in Keys
      BY <3>1 DEF Connected, Typed, TypeOK
    <3>3. keyVersion[client[req[r].sid].user] \in 1..MaxVersion
      BY <3>2 DEF Keys, Typed, TypeOK
    <3>4. Issued(req[r].sid)
      BY <3>1, <3>3, SessionsAssumption DEF Stale, Issued
    <3>5. client' = client
      BY <2>2 DEF Select
    <3> QED
      BY <3>1, <3>4, <3>5 DEF Issued, Connected
  <2>3. req'[r] = req[r] \/ Select(r)
    <3>1. ASSUME NEW q \in Requests, NEW v, v.pc # "known",
                 req' = [req EXCEPT ![q] = v]
          PROVE  req'[r] = req[r]
      BY <1>0, <1>5, <3>1
    <3>2. ASSUME NEW q \in Requests, Select(q)
          PROVE  req'[r] = req[r] \/ Select(r)
      BY <1>0, <3>2 DEF Select
    <3>3. ASSUME NEW q \in Requests,
                 \/ \E op \in Ops, s \in SessionIds :
                      StartCached(q, op, s) \/ StartLookup(q, op, s)
                 \/ ResumeKnown(q) \/ ResumeUnknown(q) \/ Update(q)
                 \/ Invalidate(q) \/ Abort(q)
          PROVE  req'[r] = req[r]
      <4>1. PICK v : v.pc # "known" /\ req' = [req EXCEPT ![q] = v]
        BY <3>3 DEF StartCached, StartLookup, ResumeKnown, ResumeUnknown,
                    Update, Invalidate, Abort, Proceed
      <4> QED
        BY <3>1, <4>1
    <3>4. CASE Restart
      BY <1>5, <3>4 DEF Restart
    <3>5. CASE req' = req
      BY <3>5
    <3> QED
      BY <3>2, <3>3, <3>4, <3>5
      DEF Next, Connect, StartLimited, ApplyWrite, LoseWrite, Tick,
          FailureAges, vars
  <2> QED
    BY <2>1, <2>2, <2>3
<1> QED
  BY <1>2, <1>3, <1>4, <1>5 DEF IssuedInv

(* Only sessions whose client's key was issued get into store or table.     *)
THEOREM IssuedOnly == Spec => []OnlyIssuedKeys
<1>1. Init => IssuedInv
  BY SessionsAssumption DEF Init, IssuedInv, NoRequest
<1>2. IssuedInv => OnlyIssuedKeys
  BY DEF IssuedInv, Issued, OnlyIssuedKeys
<1> QED
  BY AlwaysTyped, NextIssued, <1>1, <1>2, PTL DEF Spec

----------------------------------------------------------------------------
(* The size of the store *)

(* put_session makes room before it adds.                                   *)
LEMMA PutBounded ==
  ASSUME Typed, StoreBounded, NEW s \in Connected, PutSession(s)
  PROVE  StoreBounded'
<1> USE SessionsAssumption DEF StoreBounded
<1>1. PICK k \in Kept(s) : cached' = k \cup {s}
  BY DEF PutSession
<1>2. cached \subseteq SessionIds
  BY DEF Typed, TypeOK, Connected
<1>3. k \subseteq cached
  BY KeptSubset
<1>4. IsFiniteSet(k) /\ Cardinality(k) \in Nat
  BY <1>2, <1>3, FS_Subset, FS_CardinalityType
<1>5. Cardinality(k) < MaxSessions
  <2>1. Cardinality(k) < MaxSessions \/ Cardinality(k) = MaxSessions - 1
    <3> DEFINE others == cached \ {s}
               fresh == IF Cardinality(others) >= MaxSessions
                        THEN others \ Expired ELSE others
    <3>1. CASE Cardinality(fresh) < MaxSessions
      BY <3>1, Zenon DEF Kept
    <3>2. CASE ~(Cardinality(fresh) < MaxSessions)
      BY <3>2, Zenon DEF Kept
    <3> QED
      BY <3>1, <3>2
  <2> QED
    BY <1>4, <2>1
<1>6. Cardinality(k \cup {s}) = Cardinality(k) \/ Cardinality(k \cup {s}) = Cardinality(k) + 1
  BY <1>4, FS_AddElement
<1> QED
  BY <1>1, <1>4, <1>5, <1>6, FS_AddElement, FS_CardinalityType

(* A store with fewer sessions is within the limit too.                     *)
LEMMA FewerBounded ==
  ASSUME Typed, StoreBounded, cached' \subseteq cached
  PROVE  StoreBounded'
<1>1. cached \subseteq SessionIds
  BY DEF Typed, TypeOK, Connected
<1>2. IsFiniteSet(cached)
  BY <1>1, SessionsAssumption, FS_Subset
<1> QED
  BY <1>2, FS_Subset, FS_CardinalityType, SessionsAssumption DEF StoreBounded

(* put_session keeps the store at max_sessions entries or fewer.            *)
THEOREM StoreStaysBounded == Spec => []StoreBounded
<1>1. Init => StoreBounded
  BY SessionsAssumption, FS_EmptySet DEF Init, StoreBounded
<1>2. Typed /\ StoreBounded /\ [Next]_vars => StoreBounded'
  <2> SUFFICES ASSUME Typed, StoreBounded, [Next]_vars
               PROVE  StoreBounded'
    OBVIOUS
  <2>1. ASSUME NEW r \in Requests, ResumeKnown(r)
        PROVE  StoreBounded'
    <3>1. req[r].sid \in Connected
      BY <2>1 DEF ResumeKnown, Typed, CallsConnected
    <3> QED
      BY <2>1, <3>1, PutBounded DEF ResumeKnown
  <2>2. ASSUME NEW r \in Requests, Invalidate(r)
        PROVE  StoreBounded'
    <3>1. cached' \subseteq cached
      BY <2>2, DeleteTypes DEF Invalidate
    <3> QED
      BY <3>1, FewerBounded
  <2>3. CASE /\ ~\E r \in Requests : ResumeKnown(r)
             /\ ~\E r \in Requests : Invalidate(r)
    <3>1. cached' \subseteq cached
      BY <2>3 DEF Next, Connect, StartCached, StartLookup, StartLimited, Hit,
                  Miss, Select, ResumeUnknown, Update, Abort, ApplyWrite,
                  LoseWrite, Tick, FailureAges, Restart, vars, store
    <3> QED
      BY <3>1, FewerBounded
  <2> QED
    BY <2>1, <2>2, <2>3
<1> QED
  BY AlwaysTyped, <1>1, <1>2, PTL DEF Spec

----------------------------------------------------------------------------
(* The auth-failure limiter *)

(* No more calls may still fail than there are.                             *)
LEMMA PendingFinite ==
  ASSUME NEW k
  PROVE  /\ IsFiniteSet(Pending(k))
         /\ Cardinality(Pending(k)) \in Nat
         /\ Cardinality(Pending(k)) <= Cardinality(Requests)
<1>1. Pending(k) \subseteq Requests
  BY DEF Pending
<1> QED
  BY <1>1, SessionsAssumption, FS_Subset, FS_CardinalityType

(* Nor may there after the step.                                            *)
LEMMA PendingFinitePrime ==
  ASSUME NEW k
  PROVE  /\ IsFiniteSet(Pending(k)')
         /\ Cardinality(Pending(k)') \in Nat
         /\ Cardinality(Pending(k)') <= Cardinality(Requests)
<1>1. Pending(k)' \subseteq Requests
  BY DEF Pending
<1> QED
  BY <1>1, SessionsAssumption, FS_Subset, FS_CardinalityType

(* A step that starts no lookup of k and counts no failure against it.      *)
LEMMA PendingShrinks ==
  ASSUME Typed, PendingBounded, NEW k \in Keys,
         Pending(k)' \subseteq Pending(k),
         failures'[k] \in Nat, failures'[k] <= failures[k]
  PROVE  failures'[k] + Cardinality(Pending(k)') < AuthFailMax + Cardinality(Requests)
<1>1. Cardinality(Pending(k)') <= Cardinality(Pending(k))
  BY PendingFinite, FS_Subset
<1>2. failures[k] \in Nat
  BY DEF Typed, TypeOK
<1> QED
  BY <1>1, <1>2, PendingFinite, PendingFinitePrime, SessionsAssumption,
     FS_CardinalityType
  DEF PendingBounded

(* A failure is recorded by a call that could still add one.                *)
LEMMA NextPending == Typed /\ PendingBounded /\ [Next]_vars => PendingBounded'
<1> SUFFICES ASSUME Typed, PendingBounded, [Next]_vars, NEW k \in Keys
             PROVE  failures'[k] + Cardinality(Pending(k)')
                      < AuthFailMax + Cardinality(Requests)
  BY DEF PendingBounded
<1> USE DEF NoRequest, At
<1>0. /\ failures \in [Keys -> Nat]
      /\ req \in [Requests -> [pc : Steps, op : Ops, sid : Connected \cup {"none"}]]
      /\ \A r \in Requests : req[r].pc # "idle" => req[r].sid \in Connected
      /\ Cardinality(Requests) \in Nat
  BY SessionsAssumption, FS_CardinalityType DEF Typed, TypeOK, CallsConnected
<1>1. ASSUME NEW s \in SessionIds, NEW c \in Keys, Connect(s, c)
      PROVE  failures'[k] + Cardinality(Pending(k)') < AuthFailMax + Cardinality(Requests)
  <2>1. \A t \in Connected : client'[t] = client[t]
    BY <1>1 DEF Connect, Connected, Typed, TypeOK
  <2>2. Pending(k)' \subseteq Pending(k)
    BY <1>0, <1>1, <2>1 DEF Connect, Pending
  <2> QED
    BY <1>0, <1>1, <2>2, PendingShrinks DEF Connect
(* The check passes below the maximum, and everyone may have passed it.     *)
<1>2. ASSUME NEW r \in Requests, NEW op \in Ops, NEW s \in SessionIds,
             StartLookup(r, op, s)
      PROVE  failures'[k] + Cardinality(Pending(k)') < AuthFailMax + Cardinality(Requests)
  <2>1. CASE client[s] = k
    <3>1. failures'[k] < AuthFailMax /\ failures'[k] \in Nat
      BY <1>0, <1>2, <2>1 DEF StartLookup
    <3> QED
      BY <1>0, <3>1, PendingFinitePrime, SessionsAssumption
  <2>2. CASE client[s] # k
    <3>1. Pending(k)' \subseteq Pending(k)
      BY <1>0, <1>2, <2>2 DEF StartLookup, Pending
    <3> QED
      BY <1>0, <1>2, <3>1, PendingShrinks DEF StartLookup
  <2> QED
    BY <2>1, <2>2
(* A failure is counted by a call that stops being pending.                 *)
<1>3. ASSUME NEW r \in Requests, ResumeUnknown(r)
      PROVE  failures'[k] + Cardinality(Pending(k)') < AuthFailMax + Cardinality(Requests)
  <2>1. CASE client[req[r].sid] = k
    <3>1. r \in Pending(k) /\ Pending(k)' = Pending(k) \ {r}
      BY <1>0, <1>3, <2>1 DEF ResumeUnknown, Pending
    <3>2. Cardinality(Pending(k)') = Cardinality(Pending(k)) - 1
      BY <3>1, PendingFinite, FS_RemoveElement
    <3>3. failures'[k] = failures[k] + 1
      BY <1>0, <1>3, <2>1 DEF ResumeUnknown
    <3> QED
      BY <1>0, <3>2, <3>3, PendingFinite, SessionsAssumption DEF PendingBounded
  <2>2. CASE client[req[r].sid] # k
    <3>1. Pending(k)' \subseteq Pending(k)
      BY <1>0, <1>3 DEF ResumeUnknown, Pending
    <3>2. failures'[k] = failures[k]
      BY <1>0, <1>3, <2>2 DEF ResumeUnknown
    <3> QED
      BY <1>0, <3>1, <3>2, PendingShrinks
  <2> QED
    BY <2>1, <2>2
<1>4. ASSUME NEW r \in Requests,
             \/ \E op \in Ops, s \in SessionIds : StartCached(r, op, s)
             \/ Select(r) \/ ResumeKnown(r) \/ Update(r) \/ Invalidate(r) \/ Abort(r)
      PROVE  failures'[k] + Cardinality(Pending(k)') < AuthFailMax + Cardinality(Requests)
  <2>1. Pending(k)' \subseteq Pending(k)
    BY <1>0, <1>4 DEF StartCached, Select, ResumeKnown, Update, Invalidate,
                      Abort, Proceed, Pending
  <2> QED
    BY <1>0, <1>4, <2>1, PendingShrinks
    DEF StartCached, Select, ResumeKnown, Update, Invalidate, Abort
<1>5. CASE \/ \E s \in SessionIds : StartLimited(s)
           \/ \E w \in writes : ApplyWrite(w) \/ LoseWrite(w)
           \/ Tick
           \/ UNCHANGED vars
  <2>1. Pending(k)' = Pending(k) /\ failures' = failures
    BY <1>5 DEF StartLimited, ApplyWrite, LoseWrite, Tick, vars, Pending
  <2> QED
    BY <1>0, <2>1, PendingShrinks
<1>6. ASSUME NEW c \in Keys, FailureAges(c)
      PROVE  failures'[k] + Cardinality(Pending(k)') < AuthFailMax + Cardinality(Requests)
  <2>1. Pending(k)' = Pending(k)
    BY <1>6 DEF FailureAges, Pending
  <2>2. failures'[k] \in Nat /\ failures'[k] <= failures[k]
    BY <1>0, <1>6 DEF FailureAges
  <2> QED
    BY <2>1, <2>2, PendingShrinks
<1>7. CASE Restart
  <2>1. Pending(k)' \subseteq Pending(k)
    BY <1>7 DEF Restart, Pending
  <2>2. failures'[k] = 0
    BY <1>7 DEF Restart
  <2>3. failures'[k] \in Nat /\ failures'[k] <= failures[k]
    BY <1>0, <2>2
  <2> QED
    BY <2>1, <2>3, PendingShrinks
<1> QED
  BY <1>1, <1>2, <1>3, <1>4, <1>5, <1>6, <1>7 DEF Next

(* However many calls with a bad key pass the check before the first of     *)
(* them is counted, the count stays within the number of calls served.      *)
THEOREM FailuresBounded == Spec => []OvershootBounded
<1>1. ASSUME Init PROVE PendingBounded
  <2> SUFFICES ASSUME NEW k \in Keys
               PROVE  failures[k] + Cardinality(Pending(k))
                        < AuthFailMax + Cardinality(Requests)
    BY DEF PendingBounded
  <2>1. failures[k] = 0
    BY <1>1 DEF Init
  <2> QED
    BY <2>1, PendingFinite, SessionsAssumption, FS_CardinalityType
<1>2. Typed /\ PendingBounded => OvershootBounded
  <2> SUFFICES ASSUME Typed, PendingBounded, NEW k \in Keys
               PROVE  failures[k] < AuthFailMax + Cardinality(Requests)
    BY DEF OvershootBounded
  <2>1. failures[k] \in Nat
    BY DEF Typed, TypeOK
  <2> QED
    BY <2>1, PendingFinite, SessionsAssumption, FS_CardinalityType DEF PendingBounded
<1> QED
  BY AlwaysTyped, NextPending, <1>1, <1>2, PTL DEF Spec
=============================================================================
