---------------------------- MODULE SignInProofs ----------------------------
(***************************************************************************)
(* Signing in, for any number of setups, tool calls, people and sign-ins.  *)
(*                                                                         *)
(* PendingSetups: a completed sign-in is told once, leaves the dict only   *)
(* to be told, by expiry or in a restart, and no setup is told to have     *)
(* ended in two ways.  An outcome of a setup may be in five places: with   *)
(* the task, in the dict, with the call about to tell it, told, and, of a  *)
(* failure, in the table or on its way there.  The invariant says that all *)
(* of them agree and none has one before the task is over (OneEnd), that a *)
(* completion is in one place at a time (CompleteHeldOnce), and of the     *)
(* calls (CallsOK) that the lock is held over each of their statements, so *)
(* that the dict still lacks the setup a call is loading.                  *)
(*                                                                         *)
(* Accounts, in the second part: the users table always has an             *)
(* administrator once it has a user, and every completed sign-in shows the *)
(* stored key.  Both rest on rows that, once inserted, are never changed.  *)
(***************************************************************************)
EXTENDS PendingSetups, Accounts, TLAPS

(* The task has no outcome yet; a call holds the lock; it opens a setup.    *)
Early == {"none", "polling", "signing_in"}
Locking == {"persisting", "loading", "deleting"}
Opening == {"starting", "persisting"}

(* A call is about to tell the outcome; the outcome is somewhere.           *)
Told(s, o) == \E c \in Callers : call[c] = At("deleting", s, o)

Ended(s, o) ==
    \/ task[s] = o
    \/ mem[s].status = o
    \/ Told(s, o)
    \/ reports[s][o] > 0
    \/ o = "failed" /\ (s \in stores \/ row[s].status = "failed")

CallsOK ==
    \A c \in Callers :
        /\ call[c].pc = "idle" \/ call[c].sid \in Setups
        /\ call[c].pc = "idle" <=> call[c] = Idle
        /\ call[c].pc = "deleting" => call[c].seen \in Outcomes
        /\ call[c].pc \in Locking => holder = c
        /\ call[c].pc = "loading" => mem[call[c].sid] = Absent
        /\ call[c].pc \in Opening =>
              /\ task[call[c].sid] = "none"
              /\ \A d \in Callers : call[d].pc \in Opening /\ call[d].sid = call[c].sid => d = c

OneEnd ==
    \A s \in Setups : \A o, p \in Outcomes :
        /\ Ended(s, o) => task[s] \notin Early
        /\ Ended(s, o) /\ Ended(s, p) => o = p

CompleteHeldOnce ==
    \A s \in Setups :
        /\ task[s] = "complete" => mem[s].status # "complete"
        /\ task[s] = "complete" \/ mem[s].status = "complete" => ~Told(s, "complete")
        /\ \/ task[s] = "complete" \/ mem[s].status = "complete" \/ Told(s, "complete")
           => reports[s]["complete"] = 0

IInv == TypeOK /\ CallsOK /\ OneEnd /\ CompleteHeldOnce /\ CompleteOnce

USE SetupsAssumption

(* Nothing has been started.                                                *)
LEMMA Initially == Init => IInv
<1> SUFFICES ASSUME Init PROVE IInv
  OBVIOUS
<1>1. TypeOK
  BY DEF Init, TypeOK, Absent, NoRow, Row, Idle, Steps, TaskStates, Outcomes
<1>2. CallsOK
  BY DEF Init, CallsOK, Idle, Locking, Opening
<1>3. \A s \in Setups, o \in Outcomes : ~Ended(s, o)
  BY DEF Init, Ended, Told, Idle, At, Absent, NoRow, Row, Outcomes
<1>4. OneEnd
  BY <1>3 DEF OneEnd
<1>5. CompleteHeldOnce /\ CompleteOnce
  BY DEF Init, CompleteHeldOnce, CompleteOnce, Told, Idle, At, Absent, Outcomes
<1> QED
  BY <1>1, <1>2, <1>4, <1>5 DEF IInv

CallTypes == [pc : Steps, sid : Setups \cup {"none"}, seen : Outcomes \cup {"none"}]

Moved(c, v) ==
    /\ call' \in [Callers -> CallTypes]
    /\ call'[c] = v
    /\ \A d \in Callers : d # c => call'[d] = call[d]

(* A call that moves on leaves the others where they are.                   *)
LEMMA CallMoves ==
    ASSUME TypeOK, NEW c \in Callers, NEW pc \in Steps, NEW s \in Setups \cup {"none"},
           NEW seen \in Outcomes \cup {"none"}, call' = [call EXCEPT ![c] = At(pc, s, seen)]
    PROVE  Moved(c, At(pc, s, seen))
BY DEF TypeOK, At, Moved, CallTypes

(* A call that is not about to tell an outcome adds to none of those told.  *)
LEMMA ToldStays ==
    ASSUME NEW c \in Callers, NEW v, Moved(c, v), v.pc # "deleting"
    PROVE  \A t \in Setups, o \in Outcomes : Told(t, o)' => Told(t, o)
BY DEF Told, At, Moved

(* A step after which no setup has an outcome it had not before, and no     *)
(* further place holds a completion.                                        *)
LEMMA NothingEnds ==
    ASSUME IInv,
           \A s \in Setups, o \in Outcomes : Ended(s, o)' => Ended(s, o),
           \A s \in Setups : task'[s] \in Early => task[s] \in Early,
           \A s \in Setups : /\ task'[s] = "complete" => task[s] = "complete"
                             /\ mem'[s].status = "complete" => mem[s].status = "complete"
                             /\ Told(s, "complete")' => Told(s, "complete"),
           UNCHANGED reports
    PROVE  OneEnd' /\ CompleteHeldOnce' /\ CompleteOnce'
<1>1. OneEnd'
  BY DEF IInv, OneEnd
<1>2. CompleteHeldOnce' /\ CompleteOnce'
  BY DEF IInv, CompleteHeldOnce, CompleteOnce
<1> QED
  BY <1>1, <1>2

----------------------------------------------------------------------------
(* The steps of tool calls *)

(* The setup is unused: nobody else opens it, and it has no outcome.        *)
LEMMA StartSetupStep ==
    ASSUME IInv, NEW c \in Callers, NEW s \in Setups, StartSetup(c, s)
    PROVE  IInv'
<1>1. TypeOK
  BY DEF IInv
<1>2. Moved(c, At("starting", s, "none"))
  BY <1>1, CallMoves DEF StartSetup, Steps
<1>3. TypeOK'
  BY <1>1, <1>2 DEF Moved, StartSetup, TypeOK, CallTypes
<1>4. CallsOK'
  BY <1>2 DEF Moved, At, IInv, CallsOK, StartSetup, Unused, Idle, Locking, Opening
<1>5. \A t \in Setups, o \in Outcomes : Told(t, o)' => Told(t, o)
  BY <1>2, ToldStays DEF At
<1>6. OneEnd' /\ CompleteHeldOnce' /\ CompleteOnce'
  BY <1>5, NothingEnds DEF StartSetup, Ended, Outcomes
<1> QED
  BY <1>3, <1>4, <1>6 DEF IInv

(* A call that asks holds nothing.                                          *)
LEMMA AskStep ==
    ASSUME IInv, NEW c \in Callers, NEW s \in Setups, Ask(c, s)
    PROVE  IInv'
<1>1. TypeOK
  BY DEF IInv
<1>2. Moved(c, At("asking", s, "none"))
  BY <1>1, CallMoves DEF Ask, Steps
<1>3. TypeOK'
  BY <1>1, <1>2 DEF Moved, Ask, TypeOK, CallTypes
<1>4. CallsOK'
  BY <1>2 DEF Moved, At, IInv, CallsOK, Ask, Idle, Locking, Opening
<1>5. \A t \in Setups, o \in Outcomes : Told(t, o)' => Told(t, o)
  BY <1>2, ToldStays DEF At
<1>6. OneEnd' /\ CompleteHeldOnce' /\ CompleteOnce'
  BY <1>5, NothingEnds DEF Ask, Ended, Outcomes
<1> QED
  BY <1>3, <1>4, <1>6 DEF IInv

(* The cleanup may forget an entry and changes no other.                    *)
LEMMA CleanedFacts ==
    ASSUME TypeOK
    PROVE  /\ Cleaned \in [Setups -> [status : Statuses, age : 0..(SetupTTL + 1)] \cup {Absent}]
           /\ \A s \in Setups : Cleaned[s] = mem[s] \/ Cleaned[s] = Absent
BY DEF TypeOK, Cleaned

(* An entry that is absent, or pending, has no outcome.                     *)
LEMMA AbsentFacts == Absent.status \notin Statuses /\ "pending" \notin Outcomes
BY DEF Absent, Statuses, Outcomes

(* A call that gives up or is answered while nobody else needs the lock.    *)
LEMMA CallEnds ==
    ASSUME TypeOK, NEW c \in Callers, call' = [call EXCEPT ![c] = Idle]
    PROVE  /\ Moved(c, Idle)
           /\ \A t \in Setups, o \in Outcomes : Told(t, o)' => Told(t, o)
<1>1. Idle = At("idle", "none", "none")
  BY DEF Idle, At
<1>2. Moved(c, Idle)
  BY <1>1, CallMoves DEF Steps
<1> QED
  BY <1>2, ToldStays DEF Idle

(* The lock is free: nobody is loading the setup entered.                   *)
LEMMA EnterSetupStep ==
    ASSUME IInv, NEW c \in Callers, EnterSetup(c)
    PROVE  IInv'
<1> DEFINE s == call[c].sid
<1>1. TypeOK /\ CallsOK /\ s \in Setups /\ task[s] = "none"
  BY DEF IInv, CallsOK, EnterSetup, Opening
<1>2. \A d \in Callers : call[d].pc \notin Locking
  BY <1>1 DEF CallsOK, EnterSetup, Free
<1>3. /\ mem' \in [Setups -> [status : Statuses, age : 0..(SetupTTL + 1)] \cup {Absent}]
      /\ \A t \in Setups : mem'[t] = mem[t] \/ mem'[t].status \notin Outcomes
  BY <1>1, CleanedFacts, AbsentFacts DEF EnterSetup, Entry, Statuses
<1>4. CASE call' = [call EXCEPT ![c] = Idle] /\ UNCHANGED holder
  <2>1. Moved(c, Idle) /\ \A t \in Setups, o \in Outcomes : Told(t, o)' => Told(t, o)
    BY <1>1, <1>4, CallEnds
  <2>2. TypeOK'
    BY <1>1, <1>4, <1>3, <2>1 DEF Moved, CallTypes, EnterSetup, TypeOK
  <2>3. CallsOK'
    BY <1>1, <1>2, <1>4, <2>1 DEF Moved, CallsOK, EnterSetup, Idle, Locking, Opening
  <2>4. OneEnd' /\ CompleteHeldOnce' /\ CompleteOnce'
    BY <1>1, <1>3, <2>1, NothingEnds DEF EnterSetup, Ended, Outcomes
  <2> QED
    BY <2>2, <2>3, <2>4 DEF IInv
<1>5. CASE call' = [call EXCEPT ![c] = At("persisting", s, "none")] /\ holder' = c
  <2>1. Moved(c, At("persisting", s, "none"))
    BY <1>1, <1>5, CallMoves DEF Steps
  <2>2. TypeOK'
    BY <1>1, <1>5, <1>3, <2>1 DEF Moved, CallTypes, EnterSetup, TypeOK
  <2>3. CallsOK'
    BY <1>1, <1>2, <1>5, <2>1 DEF Moved, At, CallsOK, EnterSetup, Idle, Locking, Opening
  <2>4. \A t \in Setups, o \in Outcomes : Told(t, o)' => Told(t, o)
    BY <2>1, ToldStays DEF At
  <2>5. OneEnd' /\ CompleteHeldOnce' /\ CompleteOnce'
    BY <1>1, <1>3, <2>4, NothingEnds DEF EnterSetup, Ended, Outcomes
  <2> QED
    BY <2>2, <2>3, <2>5 DEF IInv
<1> QED
  BY <1>4, <1>5 DEF EnterSetup

(* The task starts with no outcome of the setup anywhere.                   *)
LEMMA StartTaskStep ==
    ASSUME IInv, NEW c \in Callers, StartTask(c)
    PROVE  IInv'
<1> DEFINE s == call[c].sid
<1>1. TypeOK /\ CallsOK /\ s \in Setups /\ task[s] = "none" /\ holder = c
  BY DEF IInv, CallsOK, StartTask, Opening, Locking
<1>2. Moved(c, Idle) /\ \A t \in Setups, o \in Outcomes : Told(t, o)' => Told(t, o)
  BY <1>1, CallEnds DEF StartTask
<1>3. mem[s].age \in 0..(SetupTTL + 1)
  BY <1>1 DEF TypeOK, Absent
<1>4. /\ row' \in [Setups -> [status : {"pending", "failed"}, created : 0..(SetupTTL + 1),
                               age : 0..(SetupTTL - 1)] \cup {NoRow}]
      /\ \A t \in Setups : row'[t] = row[t] \/ row'[t].status = "pending"
  BY <1>1, <1>3 DEF StartTask, TypeOK, Row
<1>5. task' \in [Setups -> TaskStates] /\ \A t \in Setups : task'[t] = IF t = s THEN "polling" ELSE task[t]
  BY <1>1 DEF StartTask, TypeOK, TaskStates
<1>6. TypeOK'
  BY <1>1, <1>2, <1>4, <1>5 DEF StartTask, TypeOK, Moved, CallTypes
<1>7. CallsOK'
  BY <1>1, <1>2, <1>5 DEF StartTask, CallsOK, Moved, Idle, Locking, Opening
<1>8. OneEnd' /\ CompleteHeldOnce' /\ CompleteOnce'
  <2>1. \A t \in Setups, o \in Outcomes : Ended(t, o)' => Ended(t, o)
    BY <1>1, <1>2, <1>4, <1>5 DEF StartTask, Ended, Outcomes
  <2>2. \A t \in Setups : task'[t] \in Early => task[t] \in Early
    BY <1>1, <1>5 DEF Early
  <2> QED
    BY <1>2, <1>5, <2>1, <2>2, NothingEnds DEF StartTask, Outcomes
<1> QED
  BY <1>6, <1>7, <1>8 DEF IInv

(* An outcome moves from the dict to the call that found it.                *)
LEMMA LookStep ==
    ASSUME IInv, NEW c \in Callers, Look(c)
    PROVE  IInv'
<1> DEFINE s == call[c].sid
<1>1. TypeOK /\ CallsOK /\ s \in Setups
  BY DEF IInv, CallsOK, Look
<1>2. \A d \in Callers : call[d].pc \notin Locking
  BY <1>1 DEF CallsOK, Look, Free
<1>3. /\ Cleaned \in [Setups -> [status : Statuses, age : 0..(SetupTTL + 1)] \cup {Absent}]
      /\ \A t \in Setups : Cleaned[t] = mem[t] \/ Cleaned[t] = Absent
  BY <1>1, CleanedFacts
<1>4. /\ mem' \in [Setups -> [status : Statuses, age : 0..(SetupTTL + 1)] \cup {Absent}]
      /\ \A t \in Setups : mem'[t] = mem[t] \/ mem'[t] = Absent
  BY <1>1, <1>3 DEF Look
<1>5. CASE Cleaned[s].status \in Outcomes
  <2> DEFINE o == Cleaned[s].status
  <2>1. /\ mem' = [Cleaned EXCEPT ![s] = Absent] /\ holder' = c
        /\ call' = [call EXCEPT ![c] = At("deleting", s, o)]
    BY <1>5, AbsentFacts DEF Look, Statuses, Outcomes, Absent
  <2>2. Moved(c, At("deleting", s, o))
    BY <1>1, <1>5, <2>1, CallMoves DEF Steps
  <2>3. mem[s].status = o /\ mem'[s] = Absent
    BY <1>1, <1>3, <1>5, <2>1, AbsentFacts DEF Statuses
  <2>4. TypeOK'
    BY <1>1, <1>4, <2>1, <2>2 DEF Moved, CallTypes, Look, TypeOK
  <2>5. CallsOK'
    BY <1>1, <1>2, <1>5, <2>1, <2>2 DEF Moved, At, CallsOK, Look, Idle, Locking, Opening
  <2>6. \A t \in Setups, p \in Outcomes : Told(t, p)' => t = s /\ p = o
    BY <1>2, <2>2 DEF Told, Moved, At, Locking
  <2>7. OneEnd'
    <3>1. \A t \in Setups, p \in Outcomes : Ended(t, p)' => Ended(t, p)
      BY <1>4, <1>5, <2>3, <2>6, AbsentFacts DEF Look, Ended, Statuses
    <3> QED
      BY <3>1 DEF IInv, OneEnd, Look
  <2>8. CompleteHeldOnce' /\ CompleteOnce'
    BY <1>4, <2>3, <2>6, AbsentFacts DEF IInv, CompleteHeldOnce, CompleteOnce, Look, Statuses, Outcomes
  <2> QED
    BY <2>4, <2>5, <2>7, <2>8 DEF IInv
<1>6. CASE Cleaned[s].status = "pending"
  <2>1. mem' = Cleaned /\ call' = [call EXCEPT ![c] = Idle] /\ UNCHANGED holder
    BY <1>6, AbsentFacts DEF Look, Absent
  <2>2. Moved(c, Idle) /\ \A t \in Setups, o \in Outcomes : Told(t, o)' => Told(t, o)
    BY <1>1, <2>1, CallEnds
  <2>3. TypeOK'
    BY <1>1, <1>4, <2>1, <2>2 DEF Moved, CallTypes, Look, TypeOK
  <2>4. CallsOK'
    BY <1>1, <1>2, <2>1, <2>2 DEF Moved, CallsOK, Look, Idle, Locking, Opening
  <2>5. OneEnd' /\ CompleteHeldOnce' /\ CompleteOnce'
    BY <1>4, <2>2, AbsentFacts, NothingEnds DEF Look, Ended, Outcomes, Statuses
  <2> QED
    BY <2>3, <2>4, <2>5 DEF IInv
<1>7. CASE Cleaned[s] = Absent
  <2>1. /\ mem' = Cleaned /\ holder' = c
        /\ call' = [call EXCEPT ![c] = At("loading", s, "none")]
    BY <1>7, AbsentFacts DEF Look, Absent, Statuses
  <2>2. Moved(c, At("loading", s, "none"))
    BY <1>1, <2>1, CallMoves DEF Steps
  <2>3. TypeOK'
    BY <1>1, <1>4, <2>1, <2>2 DEF Moved, CallTypes, Look, TypeOK
  <2>4. CallsOK'
    BY <1>1, <1>2, <1>7, <2>1, <2>2 DEF Moved, At, CallsOK, Look, Idle, Locking, Opening
  <2>5. \A t \in Setups, o \in Outcomes : Told(t, o)' => Told(t, o)
    BY <2>2, ToldStays DEF At
  <2>6. OneEnd' /\ CompleteHeldOnce' /\ CompleteOnce'
    BY <1>4, <2>5, AbsentFacts, NothingEnds DEF Look, Ended, Outcomes, Statuses
  <2> QED
    BY <2>3, <2>4, <2>6 DEF IInv
<1> QED
  BY <1>5, <1>6, <1>7 DEF Look

(* The row found is not newer than what is in the dict: nothing is there.   *)
LEMMA LoadFoundStep ==
    ASSUME IInv, NEW c \in Callers, LoadFound(c)
    PROVE  IInv'
<1> DEFINE s == call[c].sid
<1>1. TypeOK /\ CallsOK /\ s \in Setups /\ holder = c /\ mem[s] = Absent
  BY DEF IInv, CallsOK, LoadFound, Locking
<1>2. \A d \in Callers : d # c => call[d].pc \notin Locking
  BY <1>1 DEF CallsOK
<1>3. row[s].status \in {"pending", "failed"} /\ row[s].created \in 0..(SetupTTL + 1)
  BY <1>1 DEF TypeOK, LoadFound
<1>4. CASE row[s].status = "pending"
  <2>1. /\ mem' = [mem EXCEPT ![s] = Entry("pending", row[s].created)]
        /\ call' = [call EXCEPT ![c] = Idle] /\ holder' = "none"
    BY <1>4 DEF LoadFound
  <2>2. Moved(c, Idle) /\ \A t \in Setups, o \in Outcomes : Told(t, o)' => Told(t, o)
    BY <1>1, <2>1, CallEnds
  <2>3. /\ mem' \in [Setups -> [status : Statuses, age : 0..(SetupTTL + 1)] \cup {Absent}]
        /\ \A t \in Setups : mem'[t] = mem[t] \/ mem'[t].status = "pending"
    BY <1>1, <1>3, <2>1 DEF TypeOK, Entry, Statuses
  <2>4. TypeOK'
    BY <1>1, <2>1, <2>2, <2>3 DEF Moved, CallTypes, LoadFound, TypeOK
  <2>5. CallsOK'
    BY <1>1, <1>2, <2>1, <2>2 DEF Moved, CallsOK, LoadFound, Idle, Locking, Opening
  <2>6. OneEnd' /\ CompleteHeldOnce' /\ CompleteOnce'
    BY <2>2, <2>3, AbsentFacts, NothingEnds DEF LoadFound, Ended, Outcomes
  <2> QED
    BY <2>4, <2>5, <2>6 DEF IInv
<1>5. CASE row[s].status = "failed"
  <2>1. call' = [call EXCEPT ![c] = At("deleting", s, "failed")] /\ UNCHANGED <<mem, holder>>
    BY <1>5 DEF LoadFound
  <2>2. Moved(c, At("deleting", s, "failed"))
    BY <1>1, <2>1, CallMoves DEF Steps, Outcomes
  <2>3. TypeOK'
    BY <1>1, <2>1, <2>2 DEF Moved, CallTypes, LoadFound, TypeOK
  <2>4. CallsOK'
    BY <1>1, <1>2, <2>1, <2>2 DEF Moved, At, CallsOK, LoadFound, Idle, Locking, Opening, Outcomes
  <2>5. \A t \in Setups, o \in Outcomes : Told(t, o)' => Told(t, o) \/ (t = s /\ o = "failed")
    BY <2>2 DEF Told, Moved, At
  <2>6. OneEnd' /\ CompleteHeldOnce' /\ CompleteOnce'
    BY <1>5, <2>1, <2>5, NothingEnds DEF LoadFound, Ended, Outcomes
  <2> QED
    BY <2>3, <2>4, <2>6 DEF IInv
<1> QED
  BY <1>3, <1>4, <1>5

(* The call that found no row lets go of the lock.                          *)
LEMMA LoadNothingStep ==
    ASSUME IInv, NEW c \in Callers, LoadNothing(c)
    PROVE  IInv'
<1>1. TypeOK /\ CallsOK /\ holder = c
  BY DEF IInv, CallsOK, LoadNothing, Locking
<1>2. Moved(c, Idle) /\ \A t \in Setups, o \in Outcomes : Told(t, o)' => Told(t, o)
  BY <1>1, CallEnds DEF LoadNothing
<1>3. TypeOK'
  BY <1>1, <1>2 DEF Moved, CallTypes, LoadNothing, TypeOK
<1>4. CallsOK'
  BY <1>1, <1>2 DEF Moved, CallsOK, LoadNothing, Idle, Locking, Opening
<1>5. OneEnd' /\ CompleteHeldOnce' /\ CompleteOnce'
  BY <1>2, NothingEnds DEF LoadNothing, Ended, Outcomes
<1> QED
  BY <1>3, <1>4, <1>5 DEF IInv

(* The only step that tells an outcome: the one its call has been given.    *)
LEMMA ReportStep ==
    ASSUME IInv, NEW c \in Callers, Report(c)
    PROVE  IInv'
<1> DEFINE s == call[c].sid
           o == call[c].seen
<1>1. TypeOK /\ CallsOK /\ s \in Setups /\ o \in Outcomes /\ holder = c
  BY DEF IInv, CallsOK, Report, Locking
<1>2. Moved(c, Idle) /\ \A t \in Setups, p \in Outcomes : Told(t, p)' => Told(t, p)
  BY <1>1, CallEnds DEF Report
<1>3. \A d \in Callers : d # c => call[d].pc \notin Locking
  BY <1>1 DEF CallsOK
<1>4. Told(s, o)
  <2>1. call[c] = At("deleting", s, o)
    BY <1>1 DEF TypeOK, At, Report
  <2> QED
    BY <2>1 DEF Told
<1>5. \A t \in Setups, p \in Outcomes : ~Told(t, p)'
  BY <1>2, <1>3 DEF Told, Moved, At, Idle, Locking
<1>6. /\ reports' \in [Setups -> [Outcomes -> 0..2]]
      /\ \A t \in Setups, p \in Outcomes : t # s \/ p # o => reports'[t][p] = reports[t][p]
      /\ reports[s][o] = 0 => reports'[s][o] = 1
  BY <1>1 DEF Report, TypeOK, Older
<1>7. /\ row' \in [Setups -> [status : {"pending", "failed"}, created : 0..(SetupTTL + 1),
                               age : 0..(SetupTTL - 1)] \cup {NoRow}]
      /\ \A t \in Setups : row'[t] = row[t] \/ row'[t] = NoRow
  BY <1>1 DEF Report, TypeOK
<1>8. TypeOK'
  BY <1>1, <1>2, <1>6, <1>7 DEF Report, Moved, CallTypes, TypeOK
<1>9. CallsOK'
  BY <1>1, <1>2, <1>3 DEF Moved, CallsOK, Report, Idle, Locking, Opening
<1>10. OneEnd'
  <2>1. \A t \in Setups, p \in Outcomes : Ended(t, p)' => Ended(t, p)
    <3> SUFFICES ASSUME NEW t \in Setups, NEW p \in Outcomes, Ended(t, p)', ~(t = s /\ p = o)
                 PROVE  Ended(t, p)
      BY <1>4 DEF Ended
    <3>1. reports'[t][p] = reports[t][p] /\ ~Told(t, p)'
      BY <1>5, <1>6
    <3>2. row'[t].status = "failed" => row[t].status = "failed"
      BY <1>7 DEF NoRow, Row
    <3> QED
      BY <3>1, <3>2 DEF Report, Ended
  <2> QED
    BY <2>1 DEF IInv, OneEnd, Report
<1>11. CompleteHeldOnce' /\ CompleteOnce'
  <2>1. ASSUME NEW t \in Setups, reports'[t]["complete"] # reports[t]["complete"]
        PROVE  /\ reports'[t]["complete"] = 1
               /\ task[t] # "complete" /\ mem[t].status # "complete"
    <3>1. t = s /\ o = "complete"
      BY <1>6, <2>1 DEF Outcomes
    <3> QED
      BY <1>4, <1>6, <3>1 DEF IInv, CompleteHeldOnce
  <2>2. CompleteOnce'
    BY <2>1 DEF IInv, CompleteOnce
  <2>3. CompleteHeldOnce'
    BY <1>5, <2>1 DEF IInv, CompleteHeldOnce, Report, Outcomes
  <2> QED
    BY <2>2, <2>3
<1> QED
  BY <1>8, <1>9, <1>10, <1>11 DEF IInv

(* A call cancelled loses what it was about to tell.                        *)
LEMMA CancelStep ==
    ASSUME IInv, NEW c \in Callers, Cancel(c)
    PROVE  IInv'
<1> DEFINE s == call[c].sid
<1>1. TypeOK /\ CallsOK
  BY DEF IInv
<1>2. Moved(c, Idle) /\ \A t \in Setups, p \in Outcomes : Told(t, p)' => Told(t, p)
  BY <1>1, CallEnds DEF Cancel
<1>3. \A d \in Callers : d # c /\ call[d].pc \in Locking => holder = d /\ holder' = d
  BY <1>1 DEF CallsOK, Cancel
<1>4. /\ row' \in [Setups -> [status : {"pending", "failed"}, created : 0..(SetupTTL + 1),
                               age : 0..(SetupTTL - 1)] \cup {NoRow}]
      /\ \A t \in Setups : row'[t] = row[t] \/ row'[t].status # "failed"
  <2>1. CASE UNCHANGED row
    BY <1>1, <2>1 DEF TypeOK
  <2>2. CASE call[c].pc = "persisting" /\ row' = [row EXCEPT ![s] = Row("pending", mem[s].age, 0)]
    <3>1. s \in Setups /\ mem[s].age \in 0..(SetupTTL + 1)
      BY <2>2, <1>1 DEF CallsOK, TypeOK, Absent
    <3> QED
      BY <2>2, <3>1, <1>1 DEF TypeOK, Row
  <2>3. CASE call[c].pc = "deleting" /\ row' = [row EXCEPT ![s] = NoRow]
    BY <2>3, <1>1 DEF TypeOK, NoRow, Row
  <2> QED
    BY <2>1, <2>2, <2>3 DEF Cancel
<1>5. TypeOK'
  BY <1>1, <1>2, <1>4 DEF Moved, CallTypes, Cancel, TypeOK
<1>6. CallsOK'
  BY <1>1, <1>2, <1>3 DEF Moved, CallsOK, Cancel, Idle, Locking, Opening
<1>7. OneEnd' /\ CompleteHeldOnce' /\ CompleteOnce'
  BY <1>2, <1>4, NothingEnds DEF Cancel, Ended, Outcomes
<1> QED
  BY <1>5, <1>6, <1>7 DEF IInv

----------------------------------------------------------------------------
(* The polling task, the background and the environment *)

(* The task of a setup moves on, and the calls do not.                      *)
LEMMA TaskMoves ==
    ASSUME IInv, NEW s \in Setups, task[s] # "none", UNCHANGED <<holder, call>>,
           NEW v \in TaskStates, task' = [task EXCEPT ![s] = v],
           \A t \in Setups : mem[t] = Absent => mem'[t] = Absent \/ holder = "none"
    PROVE  /\ CallsOK'
           /\ task' \in [Setups -> TaskStates]
           /\ task'[s] = v /\ \A t \in Setups : t # s => task'[t] = task[t]
           /\ \A t \in Setups, o \in Outcomes : Told(t, o)' <=> Told(t, o)
<1>1. /\ task' \in [Setups -> TaskStates]
      /\ task'[s] = v /\ \A t \in Setups : t # s => task'[t] = task[t]
  BY DEF IInv, TypeOK
<1>2. \A t \in Setups, o \in Outcomes : Told(t, o)' <=> Told(t, o)
  BY DEF Told
<1>3. CallsOK'
  BY <1>1 DEF IInv, CallsOK, Locking, Opening
<1> QED
  BY <1>1, <1>2, <1>3

(* A setup that has not ended yet ends: no other outcome of it is anywhere. *)
LEMMA TaskEnds ==
    ASSUME IInv, NEW s \in Setups, task[s] \in {"polling", "signing_in"}, NEW o \in Outcomes,
           task' = [task EXCEPT ![s] = o], UNCHANGED <<mem, row, holder, call, reports>>,
           stores' = stores \/ (o = "failed" /\ stores' = stores \cup {s})
    PROVE  CallsOK' /\ OneEnd' /\ CompleteHeldOnce' /\ CompleteOnce'
<1>1. /\ CallsOK'
      /\ task'[s] = o /\ \A t \in Setups : t # s => task'[t] = task[t]
      /\ \A t \in Setups, p \in Outcomes : Told(t, p)' <=> Told(t, p)
  BY TaskMoves DEF TaskStates
<1>2. \A p \in Outcomes : ~Ended(s, p)
  BY DEF IInv, OneEnd, Early
<1>3. OneEnd'
  <2>1. \A p \in Outcomes : Ended(s, p)' => p = o
    BY <1>1, <1>2 DEF Ended
  <2>2. \A t \in Setups, p \in Outcomes : t # s => (Ended(t, p)' <=> Ended(t, p))
    BY <1>1 DEF Ended
  <2> QED
    BY <1>1, <2>1, <2>2 DEF IInv, OneEnd, Outcomes, Early
<1>4. CompleteHeldOnce' /\ CompleteOnce'
  <2>1. mem[s].status # "complete" /\ ~Told(s, "complete") /\ reports[s]["complete"] = 0
    BY <1>2 DEF Ended, Outcomes, IInv, TypeOK
  <2> QED
    BY <1>1, <2>1 DEF IInv, CompleteHeldOnce, CompleteOnce, Outcomes
<1> QED
  BY <1>1, <1>3, <1>4

(* The task goes on to on_success without an outcome.                       *)
LEMMA PollSignedInStep ==
    ASSUME IInv, NEW s \in Setups, PollSignedIn(s)
    PROVE  IInv'
<1>1. /\ CallsOK' /\ task' \in [Setups -> TaskStates]
      /\ task'[s] = "signing_in" /\ \A t \in Setups : t # s => task'[t] = task[t]
      /\ \A t \in Setups, p \in Outcomes : Told(t, p)' <=> Told(t, p)
  BY TaskMoves DEF TaskStates, PollSignedIn
<1>2. TypeOK'
  BY <1>1 DEF IInv, TypeOK, PollSignedIn
<1>3. OneEnd' /\ CompleteHeldOnce' /\ CompleteOnce'
  BY <1>1, NothingEnds DEF PollSignedIn, Ended, Outcomes, Early
<1> QED
  BY <1>1, <1>2, <1>3 DEF IInv

(* The polling or on_success ends in an outcome.                            *)
LEMMA PollEndStep ==
    ASSUME IInv, NEW s \in Setups, PollRefused(s) \/ PollTimedOut(s) \/ PollRaised(s) \/ SignedIn(s)
    PROVE  IInv'
<1>1. PICK o \in Outcomes :
        /\ task' = [task EXCEPT ![s] = o]
        /\ stores' = stores \/ (o = "failed" /\ stores' = stores \cup {s})
  BY DEF PollRefused, PollTimedOut, PollRaised, SignedIn, Outcomes
<1>2. /\ task[s] \in {"polling", "signing_in"}
      /\ UNCHANGED <<mem, row, holder, call, codeAge, recent, reports>>
  BY DEF PollRefused, PollTimedOut, PollRaised, SignedIn
<1>3. CallsOK' /\ OneEnd' /\ CompleteHeldOnce' /\ CompleteOnce'
  BY <1>1, <1>2, TaskEnds
<1>4. TypeOK'
  BY <1>1, <1>2 DEF IInv, TypeOK, TaskStates
<1> QED
  BY <1>3, <1>4 DEF IInv

(* The outcome moves from the task to the dict.                             *)
LEMMA SetOutcomeStep ==
    ASSUME IInv, NEW s \in Setups, SetOutcome(s)
    PROVE  IInv'
<1> DEFINE o == task[s]
<1>1. TypeOK /\ o \in Outcomes
  BY DEF IInv, SetOutcome
<1>2. /\ CallsOK' /\ task' \in [Setups -> TaskStates]
      /\ task'[s] = "over" /\ \A t \in Setups : t # s => task'[t] = task[t]
      /\ \A t \in Setups, p \in Outcomes : Told(t, p)' <=> Told(t, p)
  BY <1>1, TaskMoves DEF TaskStates, SetOutcome, Free, Outcomes
<1>3. /\ mem' \in [Setups -> [status : Statuses, age : 0..(SetupTTL + 1)] \cup {Absent}]
      /\ mem'[s].status = o /\ \A t \in Setups : t # s => mem'[t] = mem[t]
  BY <1>1 DEF TypeOK, SetOutcome, Entry, Statuses
<1>4. TypeOK'
  BY <1>1, <1>2, <1>3 DEF TypeOK, SetOutcome
<1>5. OneEnd'
  <2>1. \A t \in Setups, p \in Outcomes : Ended(t, p)' => Ended(t, p)
    BY <1>1, <1>2, <1>3 DEF SetOutcome, Ended, Outcomes
  <2> QED
    BY <1>2, <2>1 DEF IInv, OneEnd, Early
<1>6. CompleteHeldOnce' /\ CompleteOnce'
  BY <1>1, <1>2, <1>3 DEF IInv, CompleteHeldOnce, CompleteOnce, SetOutcome, Outcomes
<1> QED
  BY <1>2, <1>4, <1>5, <1>6 DEF IInv

(* The failure was the setup's outcome when its write was scheduled.        *)
LEMMA StoreFailedStep ==
    ASSUME IInv, NEW s \in Setups, StoreFailed(s)
    PROVE  IInv'
<1>1. \A t \in Setups, p \in Outcomes : Told(t, p)' <=> Told(t, p)
  BY DEF Told, StoreFailed
<1>2. /\ row' \in [Setups -> [status : {"pending", "failed"}, created : 0..(SetupTTL + 1),
                               age : 0..(SetupTTL - 1)] \cup {NoRow}]
      /\ \A t \in Setups : t # s => row'[t] = row[t]
  BY DEF IInv, TypeOK, StoreFailed, Row
<1>3. TypeOK'
  BY <1>2 DEF IInv, TypeOK, StoreFailed
<1>4. CallsOK'
  BY DEF IInv, CallsOK, StoreFailed
<1>5. OneEnd' /\ CompleteHeldOnce' /\ CompleteOnce'
  <2>1. \A t \in Setups, p \in Outcomes : Ended(t, p)' => Ended(t, p)
    BY <1>1, <1>2 DEF StoreFailed, Ended
  <2> QED
    BY <1>1, <2>1, NothingEnds DEF StoreFailed, Outcomes
<1> QED
  BY <1>3, <1>4, <1>5 DEF IInv

(* The cleanup forgets outcomes and adds none.                              *)
LEMMA CleanupStep == ASSUME IInv, Cleanup PROVE IInv'
<1>1. \A t \in Setups, p \in Outcomes : Told(t, p)' <=> Told(t, p)
  BY DEF Told, Cleanup
<1>2. /\ mem' \in [Setups -> [status : Statuses, age : 0..(SetupTTL + 1)] \cup {Absent}]
      /\ \A t \in Setups : mem'[t] = mem[t] \/ mem'[t] = Absent
  BY CleanedFacts DEF Cleanup, IInv
<1>3. TypeOK'
  BY <1>2 DEF IInv, TypeOK, Cleanup
<1>4. CallsOK'
  BY <1>2 DEF IInv, CallsOK, Cleanup
<1>5. OneEnd' /\ CompleteHeldOnce' /\ CompleteOnce'
  BY <1>1, <1>2, AbsentFacts, NothingEnds DEF Cleanup, Ended, Outcomes, Statuses
<1> QED
  BY <1>3, <1>4, <1>5 DEF IInv

(* Rows that expire are forgotten; ages do not matter.                      *)
LEMMA TickStep == ASSUME IInv, Tick PROVE IInv'
<1>1. \A t \in Setups, p \in Outcomes : Told(t, p)' <=> Told(t, p)
  BY DEF Told, Tick
<1>2. /\ mem' \in [Setups -> [status : Statuses, age : 0..(SetupTTL + 1)] \cup {Absent}]
      /\ \A t \in Setups : /\ mem'[t].status = mem[t].status
                           /\ mem[t] = Absent => mem'[t] = Absent
  BY DEF IInv, TypeOK, Tick, Older, Entry
<1>3. /\ row' \in [Setups -> [status : {"pending", "failed"}, created : 0..(SetupTTL + 1),
                               age : 0..(SetupTTL - 1)] \cup {NoRow}]
      /\ \A t \in Setups : row'[t].status = row[t].status \/ row'[t] = NoRow
  BY DEF IInv, TypeOK, Tick, Older, Row
<1>4. codeAge' \in [Setups -> 0..CodeTTL]
  BY DEF IInv, TypeOK, Tick, Older
<1>5. TypeOK'
  BY <1>2, <1>3, <1>4 DEF IInv, TypeOK, Tick
<1>6. CallsOK'
  BY <1>2 DEF IInv, CallsOK, Tick
<1>7. OneEnd' /\ CompleteHeldOnce' /\ CompleteOnce'
  <2>1. \A t \in Setups, p \in Outcomes : Ended(t, p)' => Ended(t, p)
    BY <1>1, <1>2, <1>3 DEF Tick, Ended, NoRow, Row
  <2> QED
    BY <1>1, <1>2, <2>1, NothingEnds DEF Tick, Outcomes
<1> QED
  BY <1>5, <1>6, <1>7 DEF IInv

(* The rate window is no part of the argument.                              *)
LEMMA RateAgesStep == ASSUME IInv, RateAges PROVE IInv'
<1>1. TypeOK'
  BY DEF IInv, TypeOK, RateAges
<1>2. CallsOK'
  BY DEF IInv, CallsOK, RateAges
<1>3. OneEnd' /\ CompleteHeldOnce' /\ CompleteOnce'
  BY NothingEnds DEF RateAges, Ended, Told, Outcomes
<1> QED
  BY <1>1, <1>2, <1>3 DEF IInv

(* A restart forgets what tasks, dict and calls held.                       *)
LEMMA RestartStep == ASSUME IInv, Restart PROVE IInv'
<1>1. \A t \in Setups, p \in Outcomes : ~Told(t, p)'
  BY DEF Told, Restart, Idle, At
<1>2. TypeOK'
  BY DEF IInv, TypeOK, Restart, Absent, Idle, Steps, TaskStates
<1>3. CallsOK'
  BY DEF IInv, CallsOK, Restart, Idle, Locking, Opening
<1>4. OneEnd' /\ CompleteHeldOnce' /\ CompleteOnce'
  <2>1. \A t \in Setups, p \in Outcomes : Ended(t, p)' => Ended(t, p)
    BY <1>1 DEF Restart, Ended, Outcomes, Absent
  <2>2. \A t \in Setups : task'[t] \in Early => task[t] \in Early
    BY DEF Restart, Early
  <2>3. \A t \in Setups : task'[t] # "complete" /\ mem'[t].status # "complete"
    BY DEF Restart, Absent
  <2> QED
    BY <1>1, <2>1, <2>2, <2>3, NothingEnds DEF Restart, Outcomes
<1> QED
  BY <1>2, <1>3, <1>4 DEF IInv

(* The invariant holds through every step.                                  *)
LEMMA NextStep == IInv /\ [Next]_vars => IInv'
<1> SUFFICES ASSUME IInv, [Next]_vars PROVE IInv'
  OBVIOUS
<1>1. CASE UNCHANGED vars
  BY <1>1 DEF vars, IInv, TypeOK, CallsOK, OneEnd, CompleteHeldOnce, CompleteOnce, Ended, Told
<1>2. ASSUME NEW c \in Callers, NEW s \in Setups, StartSetup(c, s) \/ Ask(c, s)
      PROVE  IInv'
  BY <1>2, StartSetupStep, AskStep
<1>3. ASSUME NEW c \in Callers,
             \/ EnterSetup(c) \/ StartTask(c) \/ Look(c) \/ LoadFound(c)
             \/ LoadNothing(c) \/ Report(c) \/ Cancel(c)
      PROVE  IInv'
  BY <1>3, EnterSetupStep, StartTaskStep, LookStep, LoadFoundStep, LoadNothingStep,
     ReportStep, CancelStep
<1>4. ASSUME NEW s \in Setups,
             \/ PollSignedIn(s) \/ PollRefused(s) \/ PollTimedOut(s) \/ PollRaised(s)
             \/ SignedIn(s) \/ SetOutcome(s) \/ StoreFailed(s)
      PROVE  IInv'
  BY <1>4, PollSignedInStep, PollEndStep, SetOutcomeStep, StoreFailedStep
<1>5. CASE Cleanup \/ Tick \/ RateAges \/ Restart
  BY <1>5, CleanupStep, TickStep, RateAgesStep, RestartStep
<1> QED
  BY <1>1, <1>2, <1>3, <1>4, <1>5 DEF Next

(* The invariant always holds.                                              *)
LEMMA AlwaysIInv == Spec => []IInv
<1> QED
  BY Initially, NextStep, PTL DEF Spec

(* Every variable of the device-code sign-in keeps its type.                *)
THEOREM SetupsTypeCorrect == Spec => []TypeOK
<1>1. IInv => TypeOK
  BY DEF IInv
<1> QED
  BY <1>1, AlwaysIInv, PTL

(* asibot_setup_status reports a completed sign-in, and shows its API key,  *)
(* at most once, with any number of calls, setups, cancelled calls, failed  *)
(* deletes and restarts.                                                    *)
THEOREM CompletionToldOnce == Spec => []CompleteOnce
<1>1. IInv => CompleteOnce
  BY DEF IInv
<1> QED
  BY <1>1, AlwaysIInv, PTL

(* No setup is reported to have ended in two ways: a failure written to the *)
(* table, the outcome in the dict and the task never disagree.              *)
THEOREM OneOutcomeTold == Spec => []OneOutcome
<1>1. IInv => OneOutcome
  BY DEF IInv, OneEnd, Ended, OneOutcome
<1> QED
  BY <1>1, AlwaysIInv, PTL

----------------------------------------------------------------------------
(* What may become of a completed sign-in *)

LeavesDict(s) ==
    \/ \E c \in Callers : call[c].pc = "asking" /\ call'[c] = At("deleting", s, "complete")
    \/ mem[s].age > SetupTTL
    \/ Restart

(* The cleanup drops what is too old and nothing else.                      *)
LEMMA CleanedDropsOld ==
    ASSUME TypeOK, NEW s \in Setups, Cleaned[s] # mem[s]
    PROVE  mem[s].age > SetupTTL
BY DEF Cleaned

(* The setup of a sign-in that has completed is neither being opened, nor   *)
(* loaded, nor has its task another outcome to write.                       *)
LEMMA Completed ==
    ASSUME IInv, NEW s \in Setups, mem[s].status = "complete"
    PROVE  /\ task[s] \notin Outcomes \cup {"none"}
           /\ mem[s] # Absent
           /\ \A c \in Callers : call[c].pc \in Opening \cup {"loading"} => call[c].sid # s
<1>1. Ended(s, "complete") /\ "complete" \in Outcomes
  BY DEF Ended, Outcomes
<1>2. task[s] \notin Early
  BY <1>1 DEF IInv, OneEnd
<1>3. task[s] \notin Outcomes
  <2>1. ASSUME task[s] \in Outcomes PROVE FALSE
    <3>1. Ended(s, task[s])
      BY DEF Ended
    <3>2. task[s] = "complete"
      BY <1>1, <2>1, <3>1 DEF IInv, OneEnd
    <3> QED
      BY <3>2 DEF IInv, CompleteHeldOnce
  <2> QED
    BY <2>1
<1>4. mem[s] # Absent
  BY DEF Absent
<1> QED
  BY <1>2, <1>3, <1>4 DEF IInv, CallsOK, Early, Opening

(* Step by step: only cleanup, Look and a restart take a completion away.   *)
LEMMA KeptByStep ==
    ASSUME IInv, [Next]_vars, NEW s \in Setups,
           mem[s].status = "complete", mem'[s].status # "complete"
    PROVE  LeavesDict(s)
<1>1. TypeOK
  BY DEF IInv
<1>2. /\ task[s] \notin Outcomes \cup {"none"} /\ mem[s] # Absent
      /\ \A c \in Callers : call[c].pc \in Opening \cup {"loading"} => call[c].sid # s
  BY Completed
<1>3. CASE Cleanup
  BY <1>1, <1>3, CleanedDropsOld DEF Cleanup, LeavesDict
<1>4. CASE Tick
  BY <1>2, <1>4 DEF Tick, Entry
<1>5. CASE Restart
  BY <1>5 DEF LeavesDict
<1>6. ASSUME NEW c \in Callers, EnterSetup(c)
      PROVE  LeavesDict(s)
  <2>1. call[c].sid # s
    BY <1>2, <1>6 DEF EnterSetup, Opening
  <2>2. mem'[s] = Cleaned[s]
    BY <1>6, <2>1 DEF EnterSetup, Cleaned
  <2> QED
    BY <1>1, <2>2, CleanedDropsOld DEF LeavesDict
<1>7. ASSUME NEW c \in Callers, Look(c)
      PROVE  LeavesDict(s)
  <2>1. CASE mem'[s] = Cleaned[s]
    BY <1>1, <2>1, CleanedDropsOld DEF LeavesDict
  <2>2. CASE mem'[s] # Cleaned[s] /\ Cleaned[s] = mem[s]
    <3>1. call[c].sid = s
      BY <1>7, <2>2 DEF Look, Cleaned
    <3>2. call' = [call EXCEPT ![c] = At("deleting", s, "complete")] /\ call[c].pc = "asking"
      BY <1>7, <2>2, <3>1 DEF Look, Absent
    <3> QED
      BY <1>1, <3>2 DEF LeavesDict, TypeOK
  <2> QED
    BY <1>1, <2>1, <2>2, CleanedDropsOld DEF LeavesDict
<1>8. ASSUME NEW c \in Callers, LoadFound(c)
      PROVE  LeavesDict(s)
  <2>1. call[c].sid # s
    BY <1>2, <1>8 DEF LoadFound
  <2>2. mem'[s] = mem[s]
    BY <1>1, <1>8, <2>1 DEF LoadFound, TypeOK
  <2> QED
    BY <2>2
<1>9. ASSUME NEW t \in Setups, SetOutcome(t)
      PROVE  LeavesDict(s)
  BY <1>2, <1>9 DEF SetOutcome
<1>10. CASE UNCHANGED mem
  BY <1>10
<1> QED
  BY <1>3, <1>4, <1>5, <1>6, <1>7, <1>8, <1>9, <1>10
     DEF Next, vars, StartSetup, Ask, StartTask, LoadNothing, Report, Cancel, PollSignedIn,
         PollRefused, PollTimedOut, PollRaised, SignedIn, StoreFailed, RateAges

(* A completed sign-in leaves the dict only to be reported, by expiry, or   *)
(* in a restart.                                                            *)
THEOREM CompletionAlwaysKept == Spec => CompletionKept
<1>1. IInv /\ [Next]_vars =>
        [\A s \in Setups :
            mem[s].status = "complete" /\ mem'[s].status # "complete" =>
               \/ \E c \in Callers : call[c].pc = "asking" /\ call'[c] = At("deleting", s, "complete")
               \/ mem[s].age > SetupTTL
               \/ Restart]_vars
  BY KeptByStep DEF LeavesDict
<1> QED
  BY <1>1, AlwaysIInv, PTL DEF Spec, CompletionKept

----------------------------------------------------------------------------
(* Accounts: what the task does in on_success                               *)

(* A sign-in that will insert an ordinary user has seen a user; one that    *)
(* reads its user back finds a row.                                         *)
SeenUser ==
    \A f \in SignIns :
        /\ flow[f].pc = "inserting" /\ flow[f].role = "user" => Registered # {}
        /\ flow[f].pc = "rereading" => users[flow[f].email] # NoUser

AccountsInv == AccountsTypeOK /\ AdminExists /\ ShownKeyIsStored /\ SeenUser

(* A row with a role is not the absence of a row.                           *)
LEMMA RowsAreUsers == \A new \in Rows : new # NoUser
  BY DEF Rows, NoUser

(* The step of one sign-in leaves the locals of the others alone.           *)
LEMMA OneFlow ==
  ASSUME NEW f \in SignIns, NEW v, flow \in [SignIns -> Flows],
         flow' = [flow EXCEPT ![f] = v]
  PROVE  flow'[f] = v /\ \A g \in SignIns : g # f => flow'[g] = flow[g]
  OBVIOUS

(* A step that changes no row and moves one sign-in to locals that satisfy  *)
(* the invariant preserves it.                                              *)
LEMMA MoveFlow ==
  ASSUME AccountsInv, NEW f \in SignIns, NEW v \in Flows,
         UNCHANGED users, flow' = [flow EXCEPT ![f] = v],
         v.pc # "idle" => v.email \in Emails,
         v.pc = "inserting" => v.role # "none",
         v.pc = "inserting" /\ v.role = "user" => Registered # {},
         v.pc = "rereading" => users[v.email] # NoUser,
         v.pc = "done" => v.got = users[v.email] /\ v.got # NoUser
  PROVE  AccountsInv'
  <1>1. flow'[f] = v /\ \A g \in SignIns : g # f => flow'[g] = flow[g]
    BY OneFlow DEF AccountsInv, AccountsTypeOK
  <1>2. Registered' = Registered /\ Admins' = Admins
    BY DEF Registered, Admins
  <1>3. AccountsTypeOK'
    <2>1. flow' \in [SignIns -> Flows]
      BY DEF AccountsInv, AccountsTypeOK
    <2> QED
      BY <1>1, <2>1 DEF AccountsInv, AccountsTypeOK
  <1>4. AdminExists'
    BY <1>2 DEF AccountsInv, AdminExists
  <1>5. ShownKeyIsStored'
    BY <1>1 DEF AccountsInv, ShownKeyIsStored
  <1>6. SeenUser'
    BY <1>1, <1>2 DEF AccountsInv, SeenUser
  <1> QED
    BY <1>3, <1>4, <1>5, <1>6 DEF AccountsInv

(* Insert: the row it adds makes its email registered; it is an             *)
(* administrator's unless there was a user, hence an administrator, before. *)
LEMMA InsertStep ==
  ASSUME AccountsInv, NEW f \in SignIns, Insert(f)
  PROVE  AccountsInv'
  <1> DEFINE e == flow[f].email
             v == Flow("rereading", e, flow[f].role, NoUser)
             new == User(flow[f].role, f)
  <1>1. /\ e \in Emails /\ flow[f].pc = "inserting"
        /\ flow[f].role \in {"admin", "user"}
    BY DEF AccountsInv, AccountsTypeOK, Insert, Flows
  <1>2. new \in Rows /\ new # NoUser /\ new.role = flow[f].role
    BY <1>1, RowsAreUsers DEF User, Rows
  <1>3. v \in Flows /\ v.pc = "rereading" /\ v.email = e
    BY <1>1 DEF Flow, Flows, FlowSteps
  <1>4. flow'[f] = v /\ \A g \in SignIns : g # f => flow'[g] = flow[g]
    BY OneFlow DEF AccountsInv, AccountsTypeOK, Insert
  <1>5. /\ users' \in [Emails -> Rows \cup {NoUser}]
        /\ users'[e] # NoUser
        /\ \A i \in Emails : users[i] # NoUser => users'[i] = users[i]
    <2>1. CASE users[e] = NoUser
      <3>1. users' = [users EXCEPT ![e] = new]
        BY <2>1 DEF Insert
      <3> QED
        BY <1>1, <1>2, <2>1, <3>1 DEF AccountsInv, AccountsTypeOK
    <2>2. CASE users[e] # NoUser
      BY <2>2 DEF AccountsInv, AccountsTypeOK, Insert
    <2> QED
      BY <2>1, <2>2
  <1>6. Registered' # {}
    BY <1>1, <1>5 DEF Registered
  <1>7. AccountsTypeOK'
    <2>1. flow' \in [SignIns -> Flows]
      BY <1>3 DEF AccountsInv, AccountsTypeOK, Insert
    <2>2. \A g \in SignIns : /\ flow'[g].pc # "idle" => flow'[g].email \in Emails
                             /\ flow'[g].pc = "inserting" => flow'[g].role # "none"
      BY <1>1, <1>3, <1>4 DEF AccountsInv, AccountsTypeOK
    <2> QED
      BY <1>5, <2>1, <2>2 DEF AccountsTypeOK
  <1>8. AdminExists'
    <2>1. CASE Admins # {}
      <3>1. PICK a \in Emails : users[a].role = "admin"
        BY <2>1 DEF Admins
      <3>2. users[a] # NoUser
        BY <3>1 DEF NoUser
      <3>3. users'[a].role = "admin"
        BY <1>5, <3>1, <3>2
      <3> QED
        BY <3>3 DEF AdminExists, Admins
    <2>2. CASE Admins = {}
      <3>1. Registered = {}
        BY <2>2 DEF AccountsInv, AdminExists
      <3>2. flow[f].role = "admin"
        BY <1>1, <3>1 DEF AccountsInv, SeenUser
      <3>3. users[e] = NoUser
        BY <1>1, <3>1 DEF Registered
      <3>4. users'[e] = new
        BY <1>1, <3>3 DEF Insert, AccountsInv, AccountsTypeOK
      <3> QED
        BY <1>1, <1>2, <3>2, <3>4 DEF AdminExists, Admins
    <2> QED
      BY <2>1, <2>2
  <1>9. ShownKeyIsStored'
    <2> SUFFICES ASSUME NEW g \in SignIns, flow'[g].pc = "done"
                 PROVE  flow'[g].got = users'[flow'[g].email] /\ flow'[g].got # NoUser
      BY DEF ShownKeyIsStored
    <2>1. g # f /\ flow'[g] = flow[g]
      BY <1>3, <1>4
    <2>2. flow[g].got = users[flow[g].email] /\ flow[g].got # NoUser /\ flow[g].email \in Emails
      BY <2>1 DEF AccountsInv, ShownKeyIsStored, AccountsTypeOK
    <2> QED
      BY <1>5, <2>1, <2>2
  <1>10. SeenUser'
    <2> SUFFICES ASSUME NEW g \in SignIns, flow'[g].pc = "rereading"
                 PROVE  users'[flow'[g].email] # NoUser
      BY <1>6 DEF SeenUser
    <2>1. CASE g = f
      BY <1>3, <1>4, <1>5, <2>1
    <2>2. CASE g # f
      <3>1. flow'[g] = flow[g]
        BY <1>4, <2>2
      <3>2. users[flow[g].email] # NoUser /\ flow[g].email \in Emails
        BY <3>1 DEF AccountsInv, SeenUser, AccountsTypeOK
      <3> QED
        BY <1>5, <3>1, <3>2
    <2> QED
      BY <2>1, <2>2
  <1> QED
    BY <1>7, <1>8, <1>9, <1>10 DEF AccountsInv

(* The invariant holds initially and through every step.                    *)
THEOREM AccountsInductive == AccountsSpec => []AccountsInv
  <1>1. AccountsInit => AccountsInv
    <2> SUFFICES ASSUME AccountsInit PROVE AccountsInv
      OBVIOUS
    <2>1. NotStarted \in Flows /\ NotStarted.pc = "idle"
      BY DEF NotStarted, Flow, Flows, FlowSteps, NoUser
    <2>2. AccountsTypeOK
      BY <2>1 DEF AccountsInit, AccountsTypeOK
    <2>3. AdminExists
      BY DEF AccountsInit, AdminExists, Registered
    <2>4. ShownKeyIsStored /\ SeenUser
      BY <2>1 DEF AccountsInit, ShownKeyIsStored, SeenUser
    <2> QED
      BY <2>2, <2>3, <2>4 DEF AccountsInv
  <1>2. AccountsInv /\ [AccountsNext]_accounts => AccountsInv'
    <2> SUFFICES ASSUME AccountsInv, [AccountsNext]_accounts PROVE AccountsInv'
      OBVIOUS
    <2>1. ASSUME NEW f \in SignIns, NEW e \in Emails, Start(f, e) PROVE AccountsInv'
      <3> DEFINE v == Flow("checking", e, "none", NoUser)
      <3>1. v \in Flows /\ v.pc = "checking" /\ v.email = e
        BY DEF Flow, Flows, FlowSteps
      <3> QED
        BY <2>1, <3>1, MoveFlow DEF Start
    <2>2. ASSUME NEW f \in SignIns, Check(f) PROVE AccountsInv'
      <3> DEFINE e == flow[f].email
      <3>1. e \in Emails
        BY <2>2 DEF Check, AccountsInv, AccountsTypeOK
      <3>2. CASE users[e] # NoUser
        <4> DEFINE v == Flow("done", e, "none", users[e])
        <4>1. v \in Flows /\ v.pc = "done" /\ v.email = e /\ v.got = users[e]
          BY <3>1 DEF Flow, Flows, FlowSteps, AccountsInv, AccountsTypeOK
        <4>2. flow' = [flow EXCEPT ![f] = v] /\ UNCHANGED users
          BY <2>2, <3>2 DEF Check
        <4> QED
          BY <3>1, <3>2, <4>1, <4>2, MoveFlow
      <3>3. CASE users[e] = NoUser
        <4> DEFINE v == Flow("counting", e, "none", NoUser)
        <4>1. v \in Flows /\ v.pc = "counting" /\ v.email = e
          BY <3>1 DEF Flow, Flows, FlowSteps
        <4>2. flow' = [flow EXCEPT ![f] = v] /\ UNCHANGED users
          BY <2>2, <3>3 DEF Check
        <4> QED
          BY <3>1, <4>1, <4>2, MoveFlow
      <3> QED
        BY <3>2, <3>3
    <2>3. ASSUME NEW f \in SignIns, Count(f) PROVE AccountsInv'
      <3> DEFINE role == IF Registered = {} THEN "admin" ELSE "user"
                 v == Flow("inserting", flow[f].email, role, NoUser)
      <3>1. flow[f].email \in Emails
        BY <2>3 DEF Count, AccountsInv, AccountsTypeOK
      <3>2. v \in Flows /\ v.pc = "inserting" /\ v.email = flow[f].email /\ v.role = role
        BY <3>1 DEF Flow, Flows, FlowSteps
      <3> QED
        BY <2>3, <3>1, <3>2, MoveFlow DEF Count
    <2>4. ASSUME NEW f \in SignIns, Insert(f) PROVE AccountsInv'
      BY <2>4, InsertStep
    <2>5. ASSUME NEW f \in SignIns, Reread(f) PROVE AccountsInv'
      <3> DEFINE e == flow[f].email
                 v == Flow("done", e, flow[f].role, users[e])
      <3>1. e \in Emails /\ users[e] # NoUser /\ flow[f] \in Flows
        BY <2>5 DEF Reread, AccountsInv, AccountsTypeOK, SeenUser
      <3>2. v \in Flows /\ v.pc = "done" /\ v.email = e /\ v.got = users[e]
        BY <3>1 DEF Flow, Flows, FlowSteps, AccountsInv, AccountsTypeOK
      <3> QED
        BY <2>5, <3>1, <3>2, MoveFlow DEF Reread
    <2>6. ASSUME NEW f \in SignIns, Abort(f) PROVE AccountsInv'
      <3> DEFINE v == Flow("aborted", flow[f].email, "none", NoUser)
      <3>1. flow[f].email \in Emails
        BY <2>6 DEF Abort, AccountsInv, AccountsTypeOK
      <3>2. v \in Flows /\ v.pc = "aborted" /\ v.email = flow[f].email
        BY <3>1 DEF Flow, Flows, FlowSteps
      <3> QED
        BY <2>6, <3>1, <3>2, MoveFlow DEF Abort
    <2>7. CASE UNCHANGED accounts
      BY <2>7 DEF accounts, AccountsInv, AccountsTypeOK, AdminExists, ShownKeyIsStored, SeenUser, Registered, Admins
    <2> QED
      BY <2>1, <2>2, <2>3, <2>4, <2>5, <2>6, <2>7 DEF AccountsNext
  <1> QED
    BY <1>1, <1>2, PTL DEF AccountsSpec

(* The tables and the locals of create_user keep their types.               *)
THEOREM AccountsTypeCorrect == AccountsSpec => []AccountsTypeOK
  <1>1. AccountsInv => AccountsTypeOK
    BY DEF AccountsInv
  <1> QED
    BY AccountsInductive, <1>1, PTL

(* The users table is never without an administrator once it has a user.    *)
THEOREM AdminAlways == AccountsSpec => []AdminExists
  <1>1. AccountsInv => AdminExists
    BY DEF AccountsInv
  <1> QED
    BY AccountsInductive, <1>1, PTL

(* Each completed sign-in shows the API key that the table holds.           *)
THEOREM ShownKeyValid == AccountsSpec => []ShownKeyIsStored
  <1>1. AccountsInv => ShownKeyIsStored
    BY DEF AccountsInv
  <1> QED
    BY AccountsInductive, <1>1, PTL
=============================================================================
