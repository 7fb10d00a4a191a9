--------------------------- MODULE PendingSetups ---------------------------
(***************************************************************************)
(* Device-code sign-in (src/asibot/server.py): asibot_setup and            *)
(* _start_device_code_flow open a setup, a background task polls the       *)
(* provider, asibot_setup_status reports the outcome.  A setup lives in    *)
(* the dict _pending_setups, which _pending_setups_lock guards, and in the *)
(* pending_setups table (db_postgres.py).                                  *)
(*                                                                         *)
(* The lock is held across the database calls of a setup or status call,   *)
(* so those are two steps: take the lock and issue the statement, then     *)
(* take its effect and release.  The polling task and the cleanup await    *)
(* nothing under the lock and are one step each.                           *)
(***************************************************************************)
EXTENDS Naturals, FiniteSets

CONSTANTS
    Setups,          \* setup ids, each used once
    Callers,         \* tool calls being served (slots, reused)
    MaxPending,      \* _MAX_PENDING_SETUPS
    SetupTTL,        \* _SETUP_TTL, in ticks
    CodeTTL,         \* expires_in of the provider's device code, in ticks
    SetupRateLimit   \* _SETUP_RATE_LIMIT

ASSUME SetupsAssumption ==
    /\ "none" \notin Setups /\ "none" \notin Callers
    /\ IsFiniteSet(Setups)
    /\ MaxPending \in Nat \ {0}
    /\ SetupTTL \in Nat \ {0}
    /\ CodeTTL \in Nat \ {0}
    /\ SetupRateLimit \in Nat \ {0}

VARIABLES
    mem,      \* _pending_setups: status and age of each entry
    row,      \* the pending_setups table: state, its age, the row's own age
    holder,   \* the call that holds _pending_setups_lock
    call,     \* the local state of each tool call
    task,     \* the polling task of each setup, and what it has yet to write
    codeAge,  \* ticks since the task started
    stores,   \* fire-and-forget store_pending_setup calls in flight
    recent,   \* _setup_timestamps: setups started within the rate window
    reports   \* history: outcomes asibot_setup_status has reported, per setup

vars == <<mem, row, holder, call, task, codeAge, stores, recent, reports>>

Outcomes == {"complete", "failed", "expired"}
Statuses == {"pending"} \cup Outcomes

Absent == [status |-> "absent", age |-> 0]
Entry(status, age) == [status |-> status, age |-> age]
Known == {s \in Setups : mem[s] # Absent}

(* A row past its expires_at is never read again: it is the same as none.   *)
Row(status, created, age) == [status |-> status, created |-> created, age |-> age]
NoRow == Row("absent", 0, 0)

Idle == [pc |-> "idle", sid |-> "none", seen |-> "none"]
At(pc, s, seen) == [pc |-> pc, sid |-> s, seen |-> seen]
Free == holder = "none"
Steps == {"idle", "starting", "persisting", "asking", "loading", "deleting"}

(* Not started, polling, running on_success, waiting for the lock to write  *)
(* an outcome, or over.                                                     *)
TaskStates == {"none", "polling", "signing_in", "over"} \cup Outcomes

Init ==
    /\ mem = [s \in Setups |-> Absent]
    /\ row = [s \in Setups |-> NoRow]
    /\ holder = "none"
    /\ call = [c \in Callers |-> Idle]
    /\ task = [s \in Setups |-> "none"]
    /\ codeAge = [s \in Setups |-> 0]
    /\ stores = {}
    /\ recent = 0
    /\ reports = [s \in Setups |-> [o \in Outcomes |-> 0]]

----------------------------------------------------------------------------
(* Saturating counters: ages beyond a limit, and reports beyond the second, *)
(* are not told apart.                                                      *)
Older(a, limit) == IF a < limit THEN a + 1 ELSE a

(* _cleanup_pending_setups, which every holder of the lock runs first       *)
(* Mutant: only outcomes expire.                                            *)
BadCleaned == [s \in Setups |-> IF mem[s].age > SetupTTL /\ mem[s].status \in Outcomes
                                THEN Absent ELSE mem[s]]

Cleaned == [s \in Setups |-> IF mem[s].age > SetupTTL THEN Absent ELSE mem[s]]

Unused(s) == /\ mem[s] = Absent /\ row[s] = NoRow /\ task[s] = "none"
             /\ \A o \in Outcomes : reports[s][o] = 0
             /\ \A c \in Callers : call[c].sid # s

(* Mutant: attempts are recorded but not limited.                           *)
BadStartSetup(c, s) ==
    /\ call[c] = Idle
    /\ Unused(s)
    /\ recent' = recent + 1
    /\ call' = [call EXCEPT ![c] = At("starting", s, "none")]
    /\ UNCHANGED <<mem, row, holder, task, codeAge, stores, reports>>

(* asibot_setup or asibot_connect up to the request for a device code.  The *)
(* rate limit counts the attempt whether or not it leads to a setup.        *)
StartSetup(c, s) ==
    /\ call[c] = Idle
    /\ Unused(s)
    /\ recent < SetupRateLimit
    /\ recent' = recent + 1
    /\ call' = [call EXCEPT ![c] = At("starting", s, "none")]
    /\ UNCHANGED <<mem, row, holder, task, codeAge, stores, reports>>

(* The device code is there: take the lock, clean up, refuse when full,     *)
(* else enter the setup and start writing its row.                          *)
EnterSetup(c) ==
    LET s == call[c].sid IN
    /\ call[c].pc = "starting"
    /\ Free
    /\ IF Cardinality({t \in Setups : Cleaned[t] # Absent}) >= MaxPending
       THEN /\ mem' = Cleaned
            /\ call' = [call EXCEPT ![c] = Idle]
            /\ UNCHANGED holder
       ELSE /\ mem' = [Cleaned EXCEPT ![s] = Entry("pending", 0)]
            /\ call' = [call EXCEPT ![c] = At("persisting", s, "none")]
            /\ holder' = c
    /\ UNCHANGED <<row, task, codeAge, stores, recent, reports>>

(* The row is written, or the write fails with a warning; the lock is       *)
(* released and the task starts.                                            *)
StartTask(c) ==
    LET s == call[c].sid IN
    /\ call[c].pc = "persisting"
    /\ \/ row' = [row EXCEPT ![s] = Row("pending", mem[s].age, 0)]
       \/ UNCHANGED row
    /\ task' = [task EXCEPT ![s] = "polling"]
    /\ holder' = "none"
    /\ call' = [call EXCEPT ![c] = Idle]
    /\ UNCHANGED <<mem, codeAge, stores, recent, reports>>

----------------------------------------------------------------------------
(* The polling task *)

(* An answer that ends the polling; others leave it where it is.            *)
PollSignedIn(s) ==
    /\ task[s] = "polling"
    /\ task' = [task EXCEPT ![s] = "signing_in"]
    /\ UNCHANGED <<mem, row, holder, call, codeAge, stores, recent, reports>>

PollRefused(s) ==
    /\ task[s] = "polling"
    /\ task' = [task EXCEPT ![s] = "failed"]
    /\ UNCHANGED <<mem, row, holder, call, codeAge, stores, recent, reports>>

PollTimedOut(s) ==
    /\ task[s] = "polling"
    /\ codeAge[s] >= CodeTTL
    /\ task' = [task EXCEPT ![s] = "expired"]
    /\ UNCHANGED <<mem, row, holder, call, codeAge, stores, recent, reports>>

(* An answer that is no JSON raises out of the task: _on_task_done schedules *)
(* the write to the dict and, outside the lock, one to the table.           *)
PollRaised(s) ==
    /\ task[s] = "polling"
    /\ task' = [task EXCEPT ![s] = "failed"]
    /\ stores' = stores \cup {s}
    /\ UNCHANGED <<mem, row, holder, call, codeAge, recent, reports>>

(* on_success creates the account or stores the credentials, or raises.     *)
SignedIn(s) ==
    /\ task[s] = "signing_in"
    /\ \E o \in {"complete", "failed"} : task' = [task EXCEPT ![s] = o]
    /\ UNCHANGED <<mem, row, holder, call, codeAge, stores, recent, reports>>

(* Mutants: the task goes on polling after a failure; it does not wait for  *)
(* the lock.                                                                *)
BadSetOutcome(s) ==
    /\ task[s] \in Outcomes
    /\ Free
    /\ mem' = [mem EXCEPT ![s] = Entry(task[s], 0)]
    /\ task' = [task EXCEPT ![s] = IF @ = "failed" THEN "polling" ELSE "over"]
    /\ UNCHANGED <<row, holder, call, codeAge, stores, recent, reports>>
UnlockedSetOutcome(s) ==
    /\ task[s] \in Outcomes
    /\ mem' = [mem EXCEPT ![s] = Entry(task[s], 0)]
    /\ task' = [task EXCEPT ![s] = "over"]
    /\ UNCHANGED <<row, holder, call, codeAge, stores, recent, reports>>

(* _set_pending_setup: the dict only, whatever its size.                    *)
SetOutcome(s) ==
    /\ task[s] \in Outcomes
    /\ Free
    /\ mem' = [mem EXCEPT ![s] = Entry(task[s], 0)]
    /\ task' = [task EXCEPT ![s] = "over"]
    /\ UNCHANGED <<row, holder, call, codeAge, stores, recent, reports>>

StoreFailed(s) ==
    /\ s \in stores
    /\ stores' = stores \ {s}
    /\ \/ row' = [row EXCEPT ![s] = Row("failed", 0, 0)]
       \/ UNCHANGED row
    /\ UNCHANGED <<mem, holder, call, task, codeAge, recent, reports>>

----------------------------------------------------------------------------
(* asibot_setup_status *)

Ask(c, s) ==
    /\ call[c] = Idle
    /\ call' = [call EXCEPT ![c] = At("asking", s, "none")]
    /\ UNCHANGED <<mem, row, holder, task, codeAge, stores, recent, reports>>

(* Mutant: a reported outcome stays in the dict.                            *)
BadLook(c) ==
    LET s == call[c].sid IN
    /\ call[c].pc = "asking"
    /\ Free
    /\ mem' = Cleaned
    /\ IF Cleaned[s].status = "pending"
       THEN call' = [call EXCEPT ![c] = Idle] /\ UNCHANGED holder
       ELSE /\ call' = [call EXCEPT ![c] = IF Cleaned[s] = Absent
                                           THEN At("loading", s, "none")
                                           ELSE At("deleting", s, Cleaned[s].status)]
            /\ holder' = c
    /\ UNCHANGED <<row, task, codeAge, stores, recent, reports>>

(* With the lock taken and expired entries dropped: an outcome is popped    *)
(* and its row is to be deleted, a pending setup is reported as it is, and  *)
(* an id the dict does not know is looked up in the table.                  *)
Look(c) ==
    LET s == call[c].sid IN
    /\ call[c].pc = "asking"
    /\ Free
    /\ \/ /\ Cleaned[s].status \in Outcomes
          /\ mem' = [Cleaned EXCEPT ![s] = Absent]
          /\ call' = [call EXCEPT ![c] = At("deleting", s, Cleaned[s].status)]
          /\ holder' = c
       \/ /\ Cleaned[s].status = "pending"
          /\ mem' = Cleaned
          /\ call' = [call EXCEPT ![c] = Idle]
          /\ UNCHANGED holder
       \/ /\ Cleaned[s] = Absent
          /\ mem' = Cleaned
          /\ call' = [call EXCEPT ![c] = At("loading", s, "none")]
          /\ holder' = c
    /\ UNCHANGED <<row, task, codeAge, stores, recent, reports>>

(* The SELECT finds a row: it goes back into the dict, from which an        *)
(* outcome is popped at once.                                               *)
LoadFound(c) ==
    LET s == call[c].sid IN
    /\ call[c].pc = "loading"
    /\ row[s] # NoRow
    /\ IF row[s].status = "pending"
       THEN /\ mem' = [mem EXCEPT ![s] = Entry("pending", row[s].created)]
            /\ call' = [call EXCEPT ![c] = Idle]
            /\ holder' = "none"
       ELSE /\ call' = [call EXCEPT ![c] = At("deleting", s, row[s].status)]
            /\ UNCHANGED <<mem, holder>>
    /\ UNCHANGED <<row, task, codeAge, stores, recent, reports>>

(* It finds none, or fails: "No setup in progress."                         *)
LoadNothing(c) ==
    /\ call[c].pc = "loading"
    /\ call' = [call EXCEPT ![c] = Idle]
    /\ holder' = "none"
    /\ UNCHANGED <<mem, row, task, codeAge, stores, recent, reports>>

(* The row is deleted, or that fails with a warning; the outcome is told.   *)
Report(c) ==
    LET s == call[c].sid IN
    /\ call[c].pc = "deleting"
    /\ \/ row' = [row EXCEPT ![s] = NoRow]
       \/ UNCHANGED row
    /\ reports' = [reports EXCEPT ![s][call[c].seen] = Older(@, 2)]
    /\ holder' = "none"
    /\ call' = [call EXCEPT ![c] = Idle]
    /\ UNCHANGED <<mem, task, codeAge, stores, recent>>

----------------------------------------------------------------------------
(* The background and the environment *)

(* Mutant: a cancelled call keeps the lock.                                 *)
BadCancel(c) ==
    /\ call[c] # Idle
    /\ call' = [call EXCEPT ![c] = Idle]
    /\ UNCHANGED <<mem, row, holder, task, codeAge, stores, recent, reports>>

(* A call is cancelled, or its device-code request fails: async with        *)
(* releases the lock; a statement under way took effect or not.             *)
Cancel(c) ==
    LET s == call[c].sid IN
    /\ call[c] # Idle
    /\ call' = [call EXCEPT ![c] = Idle]
    /\ holder' = IF holder = c THEN "none" ELSE holder
    /\ \/ UNCHANGED row
       \/ call[c].pc = "persisting" /\ row' = [row EXCEPT ![s] = Row("pending", mem[s].age, 0)]
       \/ call[c].pc = "deleting" /\ row' = [row EXCEPT ![s] = NoRow]
    /\ UNCHANGED <<mem, task, codeAge, stores, recent, reports>>

(* The periodic _cleanup_setups.  Only a call of asibot_setup starts it, so *)
(* it may run and nothing may rely on it.                                   *)
Cleanup ==
    /\ Free
    /\ mem' = Cleaned
    /\ UNCHANGED <<row, holder, call, task, codeAge, stores, recent, reports>>

Tick ==
    /\ mem' = [s \in Setups |-> IF mem[s] = Absent THEN Absent
                                ELSE Entry(mem[s].status, Older(mem[s].age, SetupTTL + 1))]
    /\ row' = [s \in Setups |->
                 IF row[s] = NoRow \/ row[s].age + 1 >= SetupTTL THEN NoRow
                 ELSE Row(row[s].status, Older(row[s].created, SetupTTL + 1), row[s].age + 1)]
    /\ codeAge' = [s \in Setups |-> IF task[s] = "polling"
                                    THEN Older(codeAge[s], CodeTTL) ELSE 0]
    /\ UNCHANGED <<holder, call, task, stores, recent, reports>>

(* The oldest timestamp leaves the rate window.                             *)
RateAges ==
    /\ recent > 0
    /\ recent' = recent - 1
    /\ UNCHANGED <<mem, row, holder, call, task, codeAge, stores, reports>>

(* Memory and tasks are gone; nothing resumes the polling of a stored setup. *)
Restart ==
    /\ mem' = [s \in Setups |-> Absent]
    /\ holder' = "none"
    /\ call' = [c \in Callers |-> Idle]
    /\ task' = [s \in Setups |-> IF task[s] = "none" THEN "none" ELSE "over"]
    /\ codeAge' = [s \in Setups |-> 0]
    /\ stores' = {}
    /\ recent' = 0
    /\ UNCHANGED <<row, reports>>

Next ==
    \/ \E c \in Callers : \/ \E s \in Setups : StartSetup(c, s) \/ Ask(c, s)
                          \/ EnterSetup(c)
                          \/ StartTask(c)
                          \/ Look(c)
                          \/ LoadFound(c)
                          \/ LoadNothing(c)
                          \/ Report(c)
                          \/ Cancel(c)
    \/ \E s \in Setups : \/ PollSignedIn(s)
                         \/ PollRefused(s)
                         \/ PollTimedOut(s)
                         \/ PollRaised(s)
                         \/ SignedIn(s)
                         \/ SetOutcome(s)
                         \/ StoreFailed(s)
    \/ Cleanup
    \/ Tick
    \/ RateAges
    \/ Restart

Spec == Init /\ [][Next]_vars

(* Time passes, the database and the provider answer, a sleep ends; and, as *)
(* asyncio.Lock serves its waiters in order, whoever keeps asking for the   *)
(* lock gets it.                                                            *)
Fairness ==
    /\ WF_vars(Tick)
    /\ \A c \in Callers : /\ WF_vars(StartTask(c))
                          /\ WF_vars(LoadFound(c) \/ LoadNothing(c))
                          /\ WF_vars(Report(c))
                          /\ SF_vars(EnterSetup(c))
                          /\ SF_vars(Look(c))
    /\ \A s \in Setups : /\ WF_vars(PollTimedOut(s))
                         /\ WF_vars(SignedIn(s))
                         /\ SF_vars(SetOutcome(s))

FairSpec == Spec /\ Fairness

----------------------------------------------------------------------------
(* Properties *)

TypeOK ==
    /\ mem \in [Setups -> [status : Statuses, age : 0..(SetupTTL + 1)] \cup {Absent}]
    /\ row \in [Setups -> [status : {"pending", "failed"},
                           created : 0..(SetupTTL + 1),
                           age : 0..(SetupTTL - 1)] \cup {NoRow}]
    /\ holder \in Callers \cup {"none"}
    /\ call \in [Callers -> [pc : Steps, sid : Setups \cup {"none"},
                             seen : Outcomes \cup {"none"}]]
    /\ task \in [Setups -> TaskStates]
    /\ codeAge \in [Setups -> 0..CodeTTL]
    /\ stores \subseteq Setups
    /\ recent \in 0..SetupRateLimit
    /\ reports \in [Setups -> [Outcomes -> 0..2]]

(* A completed sign-in, and the API key it shows, is reported once, by one  *)
(* of the calls that ask, even when its row cannot be deleted or the server *)
(* restarts.                                                                *)
CompleteOnce == \A s \in Setups : reports[s]["complete"] <= 1

(* No setup is reported to have ended in two different ways.                *)
OneOutcome ==
    \A s \in Setups : \A o, p \in Outcomes :
        reports[s][o] > 0 /\ reports[s][p] > 0 => o = p

(* A completed sign-in leaves the dict only to be reported, by expiry, or   *)
(* in a restart: no cleanup, late load of an older row or other setup takes *)
(* its place.                                                               *)
CompletionKept ==
    [][\A s \in Setups :
         mem[s].status = "complete" /\ mem'[s].status # "complete" =>
            \/ \E c \in Callers : call[c].pc = "asking" /\ call'[c] = At("deleting", s, "complete")
            \/ mem[s].age > SetupTTL
            \/ Restart]_vars

(* Whoever holds the lock over a database call lets go of it.               *)
LockReleased == \A c \in Callers : holder = c ~> holder # c

(* "Still waiting for you to sign in", which is what asibot_setup_status    *)
(* would answer now, does not go on for ever, whatever became of the task,  *)
(* the row and the server.                                                  *)
Waiting(s) == \/ Cleaned[s].status = "pending"
              \/ Cleaned[s] = Absent /\ row[s].status = "pending"
WaitingEnds == \A s \in Setups : Waiting(s) ~> ~Waiting(s)
=============================================================================
