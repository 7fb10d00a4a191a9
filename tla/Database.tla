------------------------------ MODULE Database ------------------------------
(***************************************************************************)
(* How the servers reach their database: the backend every request asks    *)
(* for (db.py, _get_backend), the one each server makes when it starts     *)
(* (server.py, init_db_backend), and what both run first, the base schema  *)
(* and the migrations (db_postgres.py, initialize).                        *)
(*                                                                         *)
(* Several servers share one PostgreSQL.  Each statement commits by itself.*)
(* A server may stop between any two; a statement may fail, because the    *)
(* connection is lost or the request that awaits it is cancelled.  Of the  *)
(* tables only what the migrations change is kept: the columns of          *)
(* audit_log that version 2 added, users.role of version 3, the foreign    *)
(* keys of version 4.  The base schema creates pending_setups, so version  *)
(* 5 finds nothing to do.  No row breaks a foreign key.                    *)
(***************************************************************************)
EXTENDS Naturals, Sequences

CONSTANTS
    Servers,
    Requests,      \* requests of a server that use the database (slots)
    ForeignKeys    \* the constraints of version 4, in order

Items == <<"columns", "role">> \o ForeignKeys
ItemNames == {Items[i] : i \in DOMAIN Items}
CurrentVersion == 5

(* How many of the items the versions up to v have added.                   *)
Below(v) == CASE v < 2 -> 0 [] v = 2 -> 1 [] v = 3 -> 2 [] OTHER -> Len(Items)
UpTo(v) == {Items[i] : i \in 1..Below(v)}
Above(v) == SubSeq(Items, Below(v) + 1, Len(Items))

ASSUME DatabaseAssumption ==
    /\ ForeignKeys \in Seq(STRING)
    /\ \A i, j \in DOMAIN Items : Items[i] = Items[j] => i = j

VARIABLES
    have,       \* the items the tables have
    created,    \* the tables exist
    version,    \* MAX(version) of schema_migrations
    promoted,   \* the earliest user is an administrator
    server,     \* each server process: down, starting or serving
    backend,    \* _backend of db.py: none, made (assigned, its pool not open),
                \* open (it has a pool) or ready (initialize has returned)
    init,       \* the initialize that runs in a server
    request,    \* each request: idle, waiting for the lock, initializing,
                \* and what it got: the backend, or an exception
    faults      \* history: a server has stopped or a statement has failed

tables == <<have, created, version, promoted>>
vars == <<tables, server, backend, init, request, faults>>

(* at: the statement awaited next; todo: the items not yet dealt with       *)
NoInit == [at |-> "off", todo |-> <<>>]
Awaiting == {"connect", "schema", "version", "look", "add", "promote", "record"}

Init ==
    /\ \E v \in 0..CurrentVersion :
           /\ version = v
           /\ created = (v > 0)
           /\ have = UpTo(v)
           /\ promoted = (v # 2)
    /\ server = [s \in Servers |-> "down"]
    /\ backend = [s \in Servers |-> "none"]
    /\ init = [s \in Servers |-> NoInit]
    /\ request = [s \in Servers |-> [r \in Requests |-> "idle"]]
    /\ faults = FALSE

----------------------------------------------------------------------------
(* db_postgres.py: initialize, statement by statement *)

At(s, step) == init[s].at = step
Goto(s, step, todo) == init' = [init EXCEPT ![s] = [at |-> step, todo |-> todo]]

(* Mutant: only a success lets go of the lock.                              *)
LockKept(outcome) == IF outcome = "raised" THEN "initializing" ELSE outcome

Answer(outcome) == outcome

(* The one who made the backend, at startup or for a request, is told.      *)
Returned(s, outcome) ==
    /\ init' = [init EXCEPT ![s] = NoInit]
    /\ server' = [server EXCEPT ![s] = "serving"]
    /\ request' = [request EXCEPT ![s] =
           [r \in Requests |-> IF @[r] = "initializing" THEN Answer(outcome) ELSE @[r]]]

(* _get_backend for a request: what the backend of the server has become.   *)
Becomes(s, state) ==
    backend' = IF server[s] = "serving" THEN [backend EXCEPT ![s] = state] ELSE backend

Connect(s) ==
    /\ At(s, "connect")
    /\ Goto(s, "schema", <<>>)
    /\ Becomes(s, "open")
    /\ UNCHANGED <<tables, server, request, faults>>

Raise(s) ==
    /\ Returned(s, "raised")
    /\ UNCHANGED <<tables, backend>>

(* The base schema is one implicit transaction.  It indexes a column that   *)
(* an audit_log of version 1 does not have.                                 *)
Schema(s) ==
    /\ At(s, "schema")
    /\ IF created /\ "columns" \notin have
       THEN Raise(s) /\ UNCHANGED faults
       ELSE /\ created' = TRUE
            /\ have' = IF created THEN have ELSE {"columns", "role"}
            /\ Goto(s, "version", <<>>)
            /\ UNCHANGED <<version, promoted, server, backend, request, faults>>

(* Mutant: the version is recorded before the migrations it stands for.     *)
RecordedEarly(v) == "record"

AfterVersion(v) == IF v = CurrentVersion THEN "done" ELSE "look"

ReadVersion(s) ==
    /\ At(s, "version")
    /\ Goto(s, AfterVersion(version), Above(version))
    /\ UNCHANGED <<tables, server, backend, request, faults>>

Todo(s) == init[s].todo

Look(s) ==
    /\ At(s, "look")
    /\ IF Todo(s) = <<>> THEN Goto(s, "record", <<>>)
       ELSE IF Head(Todo(s)) \in have THEN Goto(s, "look", Tail(Todo(s)))
       ELSE Goto(s, "add", Todo(s))
    /\ UNCHANGED <<tables, server, backend, request, faults>>

(* Mutant: the promotion is left to the next who looks.                     *)
AddOnly(item) == "look"

AfterAdd(item) == IF item = "role" THEN "promote" ELSE "look"

(* Another server may have added it since: then the statement fails.        *)
Add(s) ==
    LET item == Head(Todo(s))
    IN /\ At(s, "add")
       /\ IF item \in have
          THEN Raise(s) /\ UNCHANGED faults
          ELSE /\ have' = have \cup {item}
               /\ Goto(s, AfterAdd(item), Tail(Todo(s)))
               /\ UNCHANGED <<created, version, promoted, server, backend, request, faults>>

Promote(s) ==
    /\ At(s, "promote")
    /\ promoted' = TRUE
    /\ Goto(s, "look", Todo(s))
    /\ UNCHANGED <<have, created, version, server, backend, request, faults>>

Record(s) ==
    /\ At(s, "record")
    /\ version' = CurrentVersion
    /\ Goto(s, "done", <<>>)
    /\ UNCHANGED <<have, created, promoted, server, backend, request, faults>>

Initialized(s) ==
    /\ At(s, "done")
    /\ Returned(s, "backend")
    /\ Becomes(s, "ready")
    /\ UNCHANGED <<tables, faults>>

(* A statement fails or its request is cancelled: it has had no effect.     *)
Fail(s) ==
    /\ init[s].at \in Awaiting
    /\ Raise(s)
    /\ faults' = TRUE

----------------------------------------------------------------------------
(* The server process and its requests *)

(* main: init_db_backend makes a backend of its own and survives its        *)
(* failure; only then are requests served.                                  *)
Start(s) ==
    /\ server[s] = "down"
    /\ server' = [server EXCEPT ![s] = "starting"]
    /\ Goto(s, "connect", <<>>)
    /\ UNCHANGED <<tables, backend, request, faults>>

Stop(s) ==
    /\ server[s] # "down"
    /\ server' = [server EXCEPT ![s] = "down"]
    /\ backend' = [backend EXCEPT ![s] = "none"]
    /\ init' = [init EXCEPT ![s] = NoInit]
    /\ request' = [request EXCEPT ![s] = [r \in Requests |-> "idle"]]
    /\ faults' = TRUE
    /\ UNCHANGED tables

SetRequest(s, r, to) == request' = [request EXCEPT ![s][r] = to]

(* What a caller gets of a backend that is there: without a pool it raises  *)
(* RuntimeError.                                                            *)
Got(s) == CASE backend[s] = "made" -> "raised"
            [] backend[s] = "open" -> "early"
            [] backend[s] = "ready" -> "backend"

(* The fast path looks before the lock.                                     *)
Ask(s, r) ==
    /\ server[s] = "serving" /\ request[s][r] \notin {"waiting", "initializing"}
    /\ SetRequest(s, r, IF backend[s] # "none" THEN Got(s) ELSE "waiting")
    /\ UNCHANGED <<tables, server, backend, init, faults>>

LockFree(s) == \A r \in Requests : request[s][r] # "initializing"

(* With the lock: the backend is assigned, then initialized.                *)
Acquire(s, r) ==
    /\ request[s][r] = "waiting" /\ LockFree(s)
    /\ IF backend[s] # "none"
       THEN SetRequest(s, r, Got(s)) /\ UNCHANGED <<backend, init>>
       ELSE /\ SetRequest(s, r, "initializing")
            /\ backend' = [backend EXCEPT ![s] = "made"]
            /\ Goto(s, "connect", <<>>)
    /\ UNCHANGED <<tables, server, faults>>

Cancel(s, r) ==
    /\ request[s][r] = "waiting"
    /\ SetRequest(s, r, "raised")
    /\ UNCHANGED <<tables, server, backend, init, faults>>

----------------------------------------------------------------------------
Proceed(s) ==
    \/ Connect(s) \/ Schema(s) \/ ReadVersion(s) \/ Look(s)
    \/ Add(s) \/ Promote(s) \/ Record(s) \/ Initialized(s)

Next == \E s \in Servers :
    \/ Proceed(s)
    \/ Fail(s)
    \/ Start(s)
    \/ Stop(s)
    \/ \E r \in Requests : Ask(s, r) \/ Acquire(s, r) \/ Cancel(s, r)

Spec == Init /\ [][Next]_vars

(* A statement is answered or fails, a lock that is free is taken.          *)
FairSpec ==
    /\ Spec
    /\ \A s \in Servers : WF_vars(Proceed(s) \/ Fail(s))
    /\ \A s \in Servers, r \in Requests : WF_vars(Acquire(s, r))

----------------------------------------------------------------------------
Outcomes == {"backend", "early", "raised"}

TypeOK ==
    /\ have \subseteq ItemNames /\ created \in BOOLEAN
    /\ version \in 0..CurrentVersion /\ promoted \in BOOLEAN
    /\ server \in [Servers -> {"down", "starting", "serving"}]
    /\ backend \in [Servers -> {"none", "made", "open", "ready"}]
    /\ init \in [Servers -> [at : Awaiting \cup {"off", "done"}, todo : Seq(ItemNames)]]
    /\ request \in [Servers -> [Requests -> Outcomes \cup {"idle", "waiting", "initializing"}]]
    /\ faults \in BOOLEAN

(* The recorded version is true of the tables, wherever servers stopped and *)
(* whichever of them came first: nothing is skipped at the next start that  *)
(* was not done, and a backend that is ready finds every column.            *)
VersionMeansSchema ==
    /\ version > 0 => created /\ UpTo(version) \subseteq have
    /\ \A s \in Servers : backend[s] = "ready" => UpTo(CurrentVersion) \subseteq have

(* Servers that start together stop one another's migration when two add    *)
(* the same item, but never all of them, and the one stopped never leaves   *)
(* the promotion of the earliest user to nobody: as long as nothing else    *)
(* fails, a migration begun is over or somewhere still going on.            *)
OneUpgrades ==
    ~faults =>
        /\ have # UpTo(version) => \E s \in Servers : init[s].at # "off"
        /\ "role" \in have => promoted \/ \E s \in Servers : At(s, "promote")

(* A request that asks for the backend gets it or an exception: the lock is *)
(* let go of by an initialize that fails or is cancelled.                   *)
RequestsAnswered ==
    \A s \in Servers, r \in Requests :
        request[s][r] \in {"waiting", "initializing"} ~> request[s][r] \in Outcomes \cup {"idle"}

(* _get_backend is said to return the initialised backend.                  *)
ReturnsInitialised == \A s \in Servers, r \in Requests : request[s][r] # "early"

=============================================================================
