------------------------------ MODULE Accounts ------------------------------
(***************************************************************************)
(* The users table and auth.create_user (src/asibot/auth.py), which every  *)
(* completed Microsoft sign-in runs (server.py, _complete_setup).  The     *)
(* sign-ins are tasks of one event loop, so they interleave at each of the *)
(* four statements create_user awaits; no transaction spans them.  What a  *)
(* read returns is kept in a local, so the read and the coroutine resuming *)
(* with its result are one step.                                           *)
(***************************************************************************)
EXTENDS Naturals, FiniteSets

CONSTANTS
    Emails,
    SignIns      \* sign-ins; each runs create_user once, a retry is another

VARIABLES
    users,       \* the users table: role and API key of each email
    flow         \* the local state of each sign-in

accounts == <<users, flow>>

NoUser == [role |-> "none", key |-> "none"]
User(role, key) == [role |-> role, key |-> key]
Registered == {e \in Emails : users[e] # NoUser}
Admins == {e \in Emails : users[e].role = "admin"}

FlowSteps == {"idle", "checking", "counting", "inserting", "rereading", "done", "aborted"}
Flow(pc, e, role, got) == [pc |-> pc, email |-> e, role |-> role, got |-> got]
NotStarted == Flow("idle", "none", "none", NoUser)

AccountsInit ==
    /\ users = [e \in Emails |-> NoUser]
    /\ flow = [f \in SignIns |-> NotStarted]

(* on_success has the profile and calls create_user(email, name).           *)
Start(f, e) ==
    /\ flow[f].pc = "idle"
    /\ flow' = [flow EXCEPT ![f] = Flow("checking", e, "none", NoUser)]
    /\ UNCHANGED users

(* get_user_by_email: an existing user is returned as it is.                *)
Check(f) ==
    LET e == flow[f].email IN
    /\ flow[f].pc = "checking"
    /\ flow' = [flow EXCEPT ![f] = IF users[e] # NoUser
                                   THEN Flow("done", e, "none", users[e])
                                   ELSE Flow("counting", e, "none", NoUser)]
    /\ UNCHANGED users

(* Mutants: only the first user gets a role; the sign-in counts itself.     *)
NoRoleCount(f) ==
    /\ flow[f].pc = "counting"
    /\ flow' = [flow EXCEPT ![f] =
                  Flow("inserting", flow[f].email,
                     IF Registered = {} THEN "admin" ELSE "none", NoUser)]
    /\ UNCHANGED users
OffByOneCount(f) ==
    /\ flow[f].pc = "counting"
    /\ flow' = [flow EXCEPT ![f] =
                  Flow("inserting", flow[f].email,
                     IF Cardinality(Registered) = 1 THEN "admin" ELSE "user", NoUser)]
    /\ UNCHANGED users

(* list_users: the first user gets 'admin', subsequent users get 'user'.    *)
Count(f) ==
    /\ flow[f].pc = "counting"
    /\ flow' = [flow EXCEPT ![f] =
                  Flow("inserting", flow[f].email,
                     IF Registered = {} THEN "admin" ELSE "user", NoUser)]
    /\ UNCHANGED users

(* INSERT with this sign-in's own key; a unique violation inserts nothing   *)
(* and is not reported.                                                     *)
Insert(f) ==
    LET e == flow[f].email IN
    /\ flow[f].pc = "inserting"
    /\ users' = IF users[e] = NoUser
                THEN [users EXCEPT ![e] = User(flow[f].role, f)] ELSE users
    /\ flow' = [flow EXCEPT ![f] = Flow("rereading", e, flow[f].role, NoUser)]

(* Mutant: the user returned is the one this sign-in meant to insert.       *)
BadReread(f) ==
    LET e == flow[f].email IN
    /\ flow[f].pc = "rereading"
    /\ flow' = [flow EXCEPT ![f] = Flow("done", e, flow[f].role, User(flow[f].role, f))]
    /\ UNCHANGED users

(* The user returned is read back, whoever inserted it.                     *)
Reread(f) ==
    LET e == flow[f].email IN
    /\ flow[f].pc = "rereading"
    /\ flow' = [flow EXCEPT ![f] = Flow("done", e, flow[f].role, users[e])]
    /\ UNCHANGED users

(* A statement fails or the server stops: nothing is undone.                *)
Abort(f) ==
    /\ flow[f].pc \notin {"idle", "done", "aborted"}
    /\ flow' = [flow EXCEPT ![f] = Flow("aborted", flow[f].email, "none", NoUser)]
    /\ UNCHANGED users

AccountsNext ==
    \E f \in SignIns : \/ \E e \in Emails : Start(f, e)
                          \/ Check(f)
                          \/ Count(f)
                          \/ Insert(f)
                          \/ Reread(f)
                          \/ Abort(f)

AccountsSpec == AccountsInit /\ [][AccountsNext]_accounts

----------------------------------------------------------------------------
(* Properties *)

(* Types; a user is inserted under an email and with a role.                *)
Rows == [role : {"admin", "user"}, key : SignIns]
Flows == [pc : FlowSteps, email : Emails \cup {"none"},
          role : {"admin", "user", "none"}, got : Rows \cup {NoUser}]
AccountsTypeOK ==
    /\ users \in [Emails -> Rows \cup {NoUser}]
    /\ flow \in [SignIns -> Flows]
    /\ \A f \in SignIns :
         /\ flow[f].pc # "idle" => flow[f].email \in Emails
         /\ flow[f].pc = "inserting" => flow[f].role # "none"

(* The server never has users but no administrator, though the check for    *)
(* the first user and its insertion are apart.                              *)
AdminExists == Registered # {} => Admins # {}

(* However many sign-ins of one person overlap, each that ends with a user  *)
(* shows the key the table holds, not the one it generated itself.          *)
ShownKeyIsStored ==
    \A f \in SignIns :
        flow[f].pc = "done" => flow[f].got = users[flow[f].email] /\ flow[f].got # NoUser
=============================================================================
