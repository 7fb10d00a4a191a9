------------------------------ MODULE Sessions ------------------------------
(***************************************************************************)
(* Who a request speaks for: require_user and its session cache            *)
(* (src/asibot/user_session.py, session_store.py), the API keys it falls   *)
(* back to (auth.py, db_postgres.py) and asibot_rotate_key (server.py).    *)
(*                                                                         *)
(* The server is one event loop.  A coroutine runs from one await to the   *)
(* next in one step.  A lookup of a key is two steps more, the SELECT that *)
(* takes effect in PostgreSQL and the coroutine resuming with its result;  *)
(* so is a rotation, the UPDATE and the rest of the tool.  The session     *)
(* store is the in-memory one.  A key is a user and a version: version 0   *)
(* was never issued, version keyVersion[u] is the one the users table      *)
(* holds, any version between is an old key.                               *)
(***************************************************************************)
EXTENDS Naturals, FiniteSets

CONSTANTS
    Users,
    SessionIds,      \* MCP session ids; each belongs to one client connection
    Requests,        \* tool calls being served (slots, reused)
    MaxSessions,     \* max_sessions of the store
    SessionTTL,      \* session_ttl, the inactivity timeout, in ticks
    AuthFailMax,     \* _AUTH_FAIL_MAX
    MaxVersion       \* bound: how often a key is rotated

ASSUME SessionsAssumption ==
    /\ "nobody" \notin Users /\ "none" \notin SessionIds
    /\ IsFiniteSet(SessionIds) /\ IsFiniteSet(Requests)
    /\ MaxSessions \in Nat \ {0}
    /\ SessionTTL \in Nat \ {0}
    /\ AuthFailMax \in Nat \ {0}
    /\ MaxVersion \in Nat \ {0}

NotConnected == [user |-> "nobody", version |-> 0]
Keys == [user : Users, version : 0..MaxVersion]

VARIABLES
    keyVersion,  \* users.api_key
    client,      \* the key in the Authorization header of a session's client
    cached,      \* _sessions: ids with an entry, whose user is the client's
    age,         \* ticks since an entry was last used, expired above SessionTTL
    rowAge,      \* the sessions table: ticks since the row was written;
                 \* SessionTTL stands for an expired row and for none
    writes,      \* fire-and-forget writes of the sessions table in flight
    failures,    \* _auth_failures: failures of a key still in the window
    req,         \* the local state of each tool call
    replied,     \* history: the key version in force when a rotation last replied
    revoked      \* history: sessions a rotation found with no call resuming

store == <<cached, age>>
table == <<rowAge, writes>>
rotations == <<replied, revoked>>
vars == <<keyVersion, client, store, table, failures, req, rotations>>

(* Between "looking_up" and "known"/"unknown" the SELECT of get_user_by_key *)
(* takes effect; between "rotating" and "rotated" the UPDATE of rotate_key. *)
Steps == {"idle", "looking_up", "known", "unknown", "rotating", "rotated"}
Ops == {"call", "rotate"}
NoRequest == [pc |-> "idle", op |-> "call", sid |-> "none"]
At(pc, op, s) == [pc |-> pc, op |-> op, sid |-> s]

Connected == {s \in SessionIds : client[s] # NotConnected}
Stale(s) == client[s].version # keyVersion[client[s].user]

Init ==
    /\ keyVersion = [u \in Users |-> 1]
    /\ client = [s \in SessionIds |-> NotConnected]
    /\ cached = {}
    /\ age = [s \in SessionIds |-> 0]
    /\ rowAge = [s \in SessionIds |-> SessionTTL]
    /\ writes = {}
    /\ failures = [k \in Keys |-> 0]
    /\ req = [r \in Requests |-> NoRequest]
    /\ replied = [u \in Users |-> 0]
    /\ revoked = {}

----------------------------------------------------------------------------
(* The session store *)

Live(s) == s \in cached /\ age[s] <= SessionTTL
Expired == {s \in cached : age[s] > SessionTTL}

(* get_session: a hit is refreshed, an expired entry is deleted.            *)
Hit(s) ==
    /\ Live(s)
    /\ age' = [age EXCEPT ![s] = 0]
    /\ UNCHANGED cached

Miss(s) ==
    /\ ~Live(s)
    /\ cached' = cached \ {s}
    /\ age' = [age EXCEPT ![s] = 0]

(* Mutant: a full store drops its expired entries and no others.            *)
BadKept(s) ==
    LET others == cached \ {s}
    IN  {IF Cardinality(others) >= MaxSessions THEN others \ Expired ELSE others}

(* What put_session leaves of the other entries.  A full store first drops  *)
(* the expired ones, then pops the least recently used until one fits.  The *)
(* order of the OrderedDict is the order of last use, so the ones popped    *)
(* are no younger than the ones kept; ties within a tick go either way.     *)
Kept(s) ==
    LET others == cached \ {s}
        fresh == IF Cardinality(others) >= MaxSessions
                 THEN others \ Expired ELSE others
    IN  IF Cardinality(fresh) < MaxSessions THEN {fresh}
        ELSE {k \in SUBSET fresh :
                /\ Cardinality(k) = MaxSessions - 1
                /\ \A a \in k, b \in fresh \ k : age[a] <= age[b]}

PutSession(s) ==
    \E k \in Kept(s) :
        /\ cached' = k \cup {s}
        /\ age' = [i \in SessionIds |-> IF i \in k THEN age[i] ELSE 0]

(* Mutant: sessions in use at this moment are spared.                       *)
BadDeleteUserSessions(u) ==
    LET kept == {s \in cached : client[s].user # u \/ age[s] = 0}
    IN  /\ cached' = kept
        /\ age' = [i \in SessionIds |-> IF i \in kept THEN age[i] ELSE 0]

DeleteUserSessions(u) ==
    LET kept == {s \in cached : client[s].user # u}
    IN  /\ cached' = kept
        /\ age' = [i \in SessionIds |-> IF i \in kept THEN age[i] ELSE 0]

----------------------------------------------------------------------------
(* Clients *)

(* A client connects with a new session id and some key: the current one,   *)
(* one since rotated, or one that never existed.                            *)
Connect(s, k) ==
    /\ client[s] = NotConnected
    /\ k.version <= keyVersion[k.user]
    /\ client' = [client EXCEPT ![s] = k]
    /\ UNCHANGED <<keyVersion, store, table, failures, req, rotations>>

----------------------------------------------------------------------------
(* require_user, up to its await, and the rest of a call that needs none.   *)
(* The sqlite lookup between cache and API key reads a file in which the    *)
(* program never creates the table, so it always answers None.              *)

Proceed(op, s) == IF op = "rotate" THEN At("rotating", op, s) ELSE NoRequest

StartCached(r, op, s) ==
    /\ req[r].pc = "idle"
    /\ s \in Connected
    /\ Hit(s)
    /\ req' = [req EXCEPT ![r] = Proceed(op, s)]
    /\ UNCHANGED <<keyVersion, client, table, failures, rotations>>

(* Mutant: failures are counted but never checked.                          *)
BadStartLookup(r, op, s) ==
    /\ req[r].pc = "idle"
    /\ s \in Connected
    /\ Miss(s)
    /\ req' = [req EXCEPT ![r] = At("looking_up", op, s)]
    /\ UNCHANGED <<keyVersion, client, table, failures, rotations>>

StartLookup(r, op, s) ==
    /\ req[r].pc = "idle"
    /\ s \in Connected
    /\ failures[client[s]] < AuthFailMax
    /\ Miss(s)
    /\ req' = [req EXCEPT ![r] = At("looking_up", op, s)]
    /\ UNCHANGED <<keyVersion, client, table, failures, rotations>>

(* The key is locked out: the call is refused without a lookup.             *)
StartLimited(s) ==
    /\ s \in Connected
    /\ failures[client[s]] >= AuthFailMax
    /\ Miss(s)
    /\ UNCHANGED <<keyVersion, client, table, failures, req, rotations>>

(* Mutant: the row found is not compared with the key.                      *)
BadSelect(r) ==
    /\ req[r].pc = "looking_up"
    /\ req' = [req EXCEPT ![r] = At("known", req[r].op, req[r].sid)]
    /\ UNCHANGED <<keyVersion, client, store, table, failures, rotations>>

(* SELECT ... WHERE api_key = ... in PostgreSQL                             *)
Select(r) ==
    /\ req[r].pc = "looking_up"
    /\ req' = [req EXCEPT ![r] = At(IF Stale(req[r].sid) THEN "unknown" ELSE "known",
                                    req[r].op, req[r].sid)]
    /\ UNCHANGED <<keyVersion, client, store, table, failures, rotations>>

(* _cache_session puts the session and schedules the INSERT.                *)
ResumeKnown(r) ==
    LET s == req[r].sid IN
    /\ req[r].pc = "known"
    /\ PutSession(s)
    /\ writes' = writes \cup {[op |-> "insert", of |-> s]}
    /\ req' = [req EXCEPT ![r] = Proceed(req[r].op, s)]
    /\ UNCHANGED <<keyVersion, client, rowAge, failures, rotations>>

ResumeUnknown(r) ==
    /\ req[r].pc = "unknown"
    /\ failures' = [failures EXCEPT ![client[req[r].sid]] = @ + 1]
    /\ req' = [req EXCEPT ![r] = NoRequest]
    /\ UNCHANGED <<keyVersion, client, store, table, rotations>>

----------------------------------------------------------------------------
(* asibot_rotate_key *)

Update(r) ==
    LET u == client[req[r].sid].user IN
    /\ req[r].pc = "rotating"
    /\ keyVersion[u] < MaxVersion
    /\ keyVersion' = [keyVersion EXCEPT ![u] = @ + 1]
    /\ req' = [req EXCEPT ![r] = At("rotated", "rotate", req[r].sid)]
    /\ UNCHANGED <<client, store, table, failures, rotations>>

(* The sessions a rotation means to end: opened with an older key, and with *)
(* no lookup of that key that has been answered but not yet resumed.        *)
Outdated(u) ==
    {s \in Connected : /\ client[s].user = u /\ Stale(s)
                       /\ \A q \in Requests :
                            ~(req[q].sid = s /\ req[q].pc = "known")}

(* invalidate_user_sessions: the store at once, the table by a scheduled    *)
(* DELETE.  Then the tool replies.                                          *)
Invalidate(r) ==
    LET u == client[req[r].sid].user IN
    /\ req[r].pc = "rotated"
    /\ DeleteUserSessions(u)
    /\ writes' = writes \cup {[op |-> "delete", of |-> u]}
    /\ replied' = [replied EXCEPT ![u] = keyVersion[u]]
    /\ revoked' = revoked \cup Outdated(u)
    /\ req' = [req EXCEPT ![r] = NoRequest]
    /\ UNCHANGED <<keyVersion, client, rowAge, failures>>

(* A failed query or a cancelled call: the exception leaves the tool, which *)
(* does nothing more.  After the UPDATE that is the read of the updated row *)
(* failing: the key has changed and nothing is invalidated.                 *)
Abort(r) ==
    /\ req[r].pc # "idle"
    /\ req' = [req EXCEPT ![r] = NoRequest]
    /\ UNCHANGED <<keyVersion, client, store, table, failures, rotations>>

----------------------------------------------------------------------------
(* The background and the environment *)

(* A scheduled write takes effect.  Writes scheduled in one order may reach *)
(* the database in another, over different connections of the pool.         *)
ApplyWrite(w) ==
    /\ w \in writes
    /\ writes' = writes \ {w}
    /\ rowAge' = IF w.op = "insert" THEN [rowAge EXCEPT ![w.of] = 0]
                 ELSE [s \in SessionIds |-> IF client[s].user = w.of
                                            THEN SessionTTL ELSE rowAge[s]]
    /\ UNCHANGED <<keyVersion, client, store, failures, req, rotations>>

(* _async_db_* swallows any exception: the write is lost.                   *)
LoseWrite(w) ==
    /\ w \in writes
    /\ writes' = writes \ {w}
    /\ UNCHANGED <<keyVersion, client, store, rowAge, failures, req, rotations>>

Older(a, limit) == IF a < limit THEN a + 1 ELSE a

Tick ==
    /\ age' = [s \in SessionIds |->
                 IF s \in cached THEN Older(age[s], SessionTTL + 1) ELSE 0]
    /\ rowAge' = [s \in SessionIds |-> Older(rowAge[s], SessionTTL)]
    /\ UNCHANGED <<keyVersion, client, cached, writes, failures, req, rotations>>

(* Mutant: the window also slides for a key without failures.               *)
BadFailureAges(k) ==
    /\ failures' = [failures EXCEPT ![k] = @ - 1]
    /\ UNCHANGED <<keyVersion, client, store, table, req, rotations>>

(* The oldest failure of a key leaves the window of is_rate_limited.        *)
FailureAges(k) ==
    /\ failures[k] > 0
    /\ failures' = [failures EXCEPT ![k] = @ - 1]
    /\ UNCHANGED <<keyVersion, client, store, table, req, rotations>>

(* A crash and a restart.  Memory is gone, PostgreSQL is not; nothing calls *)
(* load_sessions_from_db.                                                   *)
Restart ==
    /\ cached' = {}
    /\ age' = [s \in SessionIds |-> 0]
    /\ writes' = {}
    /\ failures' = [k \in Keys |-> 0]
    /\ req' = [r \in Requests |-> NoRequest]
    /\ UNCHANGED <<keyVersion, client, rowAge, rotations>>

Next ==
    \/ \E s \in SessionIds, k \in Keys : Connect(s, k)
    \/ \E r \in Requests : \/ \E op \in Ops, s \in SessionIds :
                                \/ StartCached(r, op, s)
                                \/ StartLookup(r, op, s)
                           \/ Select(r)
                           \/ ResumeKnown(r)
                           \/ ResumeUnknown(r)
                           \/ Update(r)
                           \/ Invalidate(r)
                           \/ Abort(r)
    \/ \E s \in SessionIds : StartLimited(s)
    \/ \E w \in writes : ApplyWrite(w) \/ LoseWrite(w)
    \/ Tick
    \/ \E k \in Keys : FailureAges(k)
    \/ Restart

Spec == Init /\ [][Next]_vars

----------------------------------------------------------------------------
(* Properties *)

(* Types; only sessions of connected clients are cached, counted from zero. *)
TypeOK ==
    /\ keyVersion \in [Users -> 1..MaxVersion]
    /\ client \in [SessionIds -> Keys \cup {NotConnected}]
    /\ cached \subseteq Connected
    /\ age \in [SessionIds -> 0..(SessionTTL + 1)]
    /\ rowAge \in [SessionIds -> 0..SessionTTL]
    /\ writes \subseteq [op : {"insert"}, of : SessionIds]
                        \cup [op : {"delete"}, of : Users]
    /\ failures \in [Keys -> Nat]
    /\ req \in [Requests -> [pc : Steps, op : Ops, sid : Connected \cup {"none"}]]
    /\ replied \in [Users -> 0..MaxVersion]
    /\ revoked \subseteq Connected

(* The store never holds more than max_sessions entries, however puts,      *)
(* refreshes and expiries follow one another.                               *)
StoreBounded == Cardinality(cached) <= MaxSessions

(* Whoever is in the store or in the table was let in by the users table: a *)
(* session whose client sends a key that was never issued gets into         *)
(* neither, by no interleaving of lookups, late writes and restarts.        *)
OnlyIssuedKeys ==
    \A s \in SessionIds :
        s \in cached \/ rowAge[s] < SessionTTL => client[s].version > 0

(* A rotation is final for the sessions it ends: a session opened with an   *)
(* older key, none of whose lookups was being resumed at that moment, never *)
(* gets back into the store, whatever is in flight and whatever follows.    *)
RevokedStaysOut == revoked \cap cached = {}

(* Failures counted against a key exceed _AUTH_FAIL_MAX by no more than the *)
(* calls that had passed the check when it was reached.                     *)
OvershootBounded ==
    \A k \in Keys : failures[k] < AuthFailMax + Cardinality(Requests)
=============================================================================
