--------------------------- MODULE CircuitBreaker ---------------------------
(***************************************************************************)
(* One service's circuit breaker (src/asibot/circuit_breaker.py) and the   *)
(* callers that run safe_request (src/asibot/token_store.py) against that  *)
(* service.  The breaker is a singleton per service shared by every user,  *)
(* so its callers interleave at every await of safe_request: while the     *)
(* HTTP request is out and while the caller sleeps before a retry.         *)
(*                                                                         *)
(* record_success and record_failure hold an asyncio.Lock over a body that *)
(* awaits nothing, so each is one atomic step together with the handling   *)
(* of the response that triggers it.                                       *)
(***************************************************************************)
EXTENDS Naturals, FiniteSets

CONSTANTS
    Callers,            \* concurrent calls of safe_request (slots, reused)
    FailureThreshold,   \* failure_threshold: consecutive failures to open
    RecoveryTimeout,    \* recovery_timeout, in ticks of the monotonic clock
    HalfOpenMax,        \* half_open_max: probes admitted while half open
    MaxRetries,         \* max_retries of safe_request
    Outcomes            \* how the service may answer an attempt

(* How one `await client.request(...)` can end.  "throttled" is HTTP 429,   *)
(* "server_error" the retryable 5xx, "server_fatal" any other 5xx,          *)
(* "client_error" any other 4xx, "network" httpx.RequestError; "raised" is  *)
(* whatever safe_request does not catch: cancellation, a closed client.     *)
Retryable == {"throttled", "server_error"}
Http5xx == {"server_error", "server_fatal"}
AllOutcomes == {"ok", "client_error", "network", "value_error", "raised"}
                 \cup Retryable \cup Http5xx

ASSUME BreakerAssumption ==
    /\ FailureThreshold \in Nat \ {0}
    /\ RecoveryTimeout \in Nat \ {0}
    /\ HalfOpenMax \in Nat \ {0}
    /\ MaxRetries \in Nat
    /\ Outcomes \subseteq AllOutcomes

VARIABLES
    state,                \* _state
    consecutiveFailures,  \* _consecutive_failures, saturated at the threshold
    halfOpenAttempts,     \* _half_open_attempts
    openedAgo,            \* monotonic() - _opened_at, saturated at the timeout
    call,                 \* the local state of each safe_request
    probes                \* history: callers admitted since it became half open

breaker == <<state, consecutiveFailures, halfOpenAttempts>>
vars == <<breaker, openedAgo, call, probes>>

States == {"closed", "open", "half_open"}

(* The locals of safe_request: attempt, is_server_or_network_error (flag),  *)
(* and how the last call of this slot ended.                                *)
Locals(pc, attempt, flag, ended) ==
    [pc |-> pc, attempt |-> attempt, flag |-> flag, ended |-> ended]
Idle(ended) == Locals("idle", 0, FALSE, ended)

Init ==
    /\ state = "closed"
    /\ consecutiveFailures = 0
    /\ halfOpenAttempts = 0
    /\ openedAgo = RecoveryTimeout
    /\ call = [r \in Callers |-> Idle("none")]
    /\ probes = {}

----------------------------------------------------------------------------
(* The breaker *)

(* The state property: OPEN reads as HALF_OPEN once the timeout elapsed.    *)
ObservedState ==
    IF state = "open" /\ openedAgo >= RecoveryTimeout THEN "half_open" ELSE state

(* Mutant: one probe too many is admitted.                                  *)
BadCanExecute ==
    \/ ObservedState = "closed"
    \/ ObservedState = "half_open" /\ halfOpenAttempts <= HalfOpenMax

CanExecute ==
    \/ ObservedState = "closed"
    \/ ObservedState = "half_open" /\ halfOpenAttempts < HalfOpenMax

(* Mutant: only the first probe is counted.                                 *)
BadCommitExecute(r) ==
    IF ObservedState = "closed"
    THEN UNCHANGED <<breaker, probes>>
    ELSE /\ state' = "half_open"
         /\ halfOpenAttempts' = 1
         /\ probes' = (IF state = "open" THEN {} ELSE probes) \cup {r}
         /\ UNCHANGED consecutiveFailures

(* What can_execute changes when it returns True to caller r: nothing when  *)
(* closed; otherwise the first probe commits OPEN -> HALF_OPEN, and every   *)
(* probe is counted.                                                        *)
CommitExecute(r) ==
    IF ObservedState = "closed"
    THEN UNCHANGED <<breaker, probes>>
    ELSE /\ state' = "half_open"
         /\ halfOpenAttempts' = (IF state = "open" THEN 0 ELSE halfOpenAttempts) + 1
         /\ probes' = (IF state = "open" THEN {} ELSE probes) \cup {r}
         /\ UNCHANGED consecutiveFailures

(* Only `>= failure_threshold` ever reads the counter, so it is kept        *)
(* saturated at the threshold.                                              *)
CountFailure == IF consecutiveFailures < FailureThreshold
                THEN consecutiveFailures + 1 ELSE consecutiveFailures

(* Mutant: a success recorded late leaves an open circuit open.             *)
BadRecordSuccess ==
    /\ consecutiveFailures' = 0
    /\ IF state = "half_open"
       THEN state' = "closed" /\ halfOpenAttempts' = 0 /\ probes' = {}
       ELSE UNCHANGED <<state, halfOpenAttempts, probes>>
    /\ UNCHANGED openedAgo

RecordSuccess ==
    /\ consecutiveFailures' = 0
    /\ IF state \in {"half_open", "open"}
       THEN state' = "closed" /\ halfOpenAttempts' = 0 /\ probes' = {}
       ELSE UNCHANGED <<state, halfOpenAttempts, probes>>
    /\ UNCHANGED openedAgo

(* Mutants: a failed probe does not restart the timeout; it does not give   *)
(* its slot back; it does not reopen the circuit.                           *)
BadReopenTime ==
    /\ consecutiveFailures' = CountFailure
    /\ IF \/ state = "half_open"
          \/ state = "closed" /\ consecutiveFailures' >= FailureThreshold
       THEN /\ state' = "open" /\ halfOpenAttempts' = 0 /\ probes' = {}
            /\ openedAgo' = IF state = "half_open" THEN openedAgo ELSE 0
       ELSE UNCHANGED <<state, openedAgo, halfOpenAttempts, probes>>
BadReopenSlots ==
    /\ consecutiveFailures' = CountFailure
    /\ IF \/ state = "half_open"
          \/ state = "closed" /\ consecutiveFailures' >= FailureThreshold
       THEN state' = "open" /\ openedAgo' = 0 /\ probes' = {} /\ UNCHANGED halfOpenAttempts
       ELSE UNCHANGED <<state, openedAgo, halfOpenAttempts, probes>>
BadReopen ==
    /\ consecutiveFailures' = CountFailure
    /\ IF state = "closed" /\ consecutiveFailures' >= FailureThreshold
       THEN state' = "open" /\ openedAgo' = 0 /\ halfOpenAttempts' = 0 /\ probes' = {}
       ELSE UNCHANGED <<state, openedAgo, halfOpenAttempts, probes>>

RecordFailure ==
    /\ consecutiveFailures' = CountFailure
    /\ IF \/ state = "half_open"
          \/ state = "closed" /\ consecutiveFailures' >= FailureThreshold
       THEN state' = "open" /\ openedAgo' = 0 /\ halfOpenAttempts' = 0 /\ probes' = {}
       ELSE UNCHANGED <<state, openedAgo, halfOpenAttempts, probes>>

(* reset(): nothing in the program calls it, an operator may.               *)
Reset ==
    /\ state' = "closed"
    /\ consecutiveFailures' = 0
    /\ halfOpenAttempts' = 0
    /\ openedAgo' = RecoveryTimeout
    /\ probes' = {}
    /\ UNCHANGED call

(* The monotonic clock; elapsed time beyond the timeout is not told apart.  *)
Tick ==
    /\ openedAgo < RecoveryTimeout
    /\ openedAgo' = openedAgo + 1
    /\ UNCHANGED <<breaker, call, probes>>

----------------------------------------------------------------------------
(* safe_request *)

(* The breaker check and the first attempt.  A caller that is refused       *)
(* returns at once and changes nothing.                                     *)
Start(r) ==
    /\ call[r].pc = "idle"
    /\ CanExecute
    /\ CommitExecute(r)
    /\ call' = [call EXCEPT ![r] = Locals("requesting", 0, FALSE, "none")]
    /\ UNCHANGED openedAgo

Finish(r, o) == call' = [call EXCEPT ![r] = Idle(o)]

Succeed(r) ==
    /\ call[r].pc = "requesting"
    /\ RecordSuccess
    /\ Finish(r, "ok")

(* 429, a retryable 5xx or a network error with attempts left: sleep.  A    *)
(* network error sets is_server_or_network_error for good.                  *)
RetryLater(r, o) ==
    /\ call[r].pc = "requesting"
    /\ o \in Retryable \cup {"network"}
    /\ call[r].attempt < MaxRetries
    /\ call' = [call EXCEPT ![r] = Locals("sleeping", call[r].attempt,
                                             call[r].flag \/ o = "network", "none")]
    /\ UNCHANGED <<breaker, openedAgo, probes>>

(* asyncio.sleep ends and the next attempt goes out; the breaker is not     *)
(* consulted again.                                                         *)
NextAttempt(r) ==
    /\ call[r].pc = "sleeping"
    /\ call' = [call EXCEPT ![r] = Locals("requesting", call[r].attempt + 1,
                                             call[r].flag, "none")]
    /\ UNCHANGED <<breaker, openedAgo, probes>>

(* The loop ends without success: the failure is recorded iff the flag is   *)
(* set by now, by a network error of any attempt or by this 5xx.            *)
GiveUp(r, o) ==
    /\ call[r].pc = "requesting"
    /\ \/ o \in {"client_error", "server_fatal"}
       \/ o \in Retryable \cup {"network"} /\ call[r].attempt >= MaxRetries
    /\ IF call[r].flag \/ o \in Http5xx \cup {"network"}
       THEN RecordFailure
       ELSE UNCHANGED <<breaker, openedAgo, probes>>
    /\ Finish(r, o)

(* ValueError returns from inside the loop and records nothing.             *)
RejectValue(r) ==
    /\ call[r].pc = "requesting"
    /\ Finish(r, "value_error")
    /\ UNCHANGED <<breaker, openedAgo, probes>>

(* An exception safe_request does not catch ends the call at any await.     *)
Raise(r) ==
    /\ call[r].pc \in {"requesting", "sleeping"}
    /\ Finish(r, "raised")
    /\ UNCHANGED <<breaker, openedAgo, probes>>

Respond(r, o) ==
    /\ o \in Outcomes
    /\ \/ o = "ok" /\ Succeed(r)
       \/ RetryLater(r, o)
       \/ GiveUp(r, o)
       \/ o = "value_error" /\ RejectValue(r)
       \/ o = "raised" /\ Raise(r)

Next ==
    \/ Tick
    \/ Reset
    \/ \E r \in Callers : \/ Start(r)
                          \/ NextAttempt(r)
                          \/ \E o \in AllOutcomes : Respond(r, o)

Spec == Init /\ [][Next]_vars

(* The clock advances; every attempt ends, by the 30 s client timeout at    *)
(* the latest; a sleep ends.  Nobody is obliged to start a call or to reset.*)
Fairness ==
    /\ WF_vars(Tick)
    /\ \A r \in Callers : /\ WF_vars(NextAttempt(r))
                          /\ WF_vars(\E o \in AllOutcomes : Respond(r, o))

FairSpec == Spec /\ Fairness

----------------------------------------------------------------------------
(* Properties *)

(* Types of the breaker's fields, of each caller's locals and of the        *)
(* history set.                                                             *)
TypeOK ==
    /\ state \in States
    /\ consecutiveFailures \in 0..FailureThreshold
    /\ halfOpenAttempts \in 0..HalfOpenMax
    /\ openedAgo \in 0..RecoveryTimeout
    /\ call \in [Callers -> [pc : {"idle", "requesting", "sleeping"},
                             attempt : 0..MaxRetries,
                             flag : BOOLEAN,
                             ended : AllOutcomes \cup {"none"}]]
    /\ probes \subseteq Callers

(* The two representations of "tripped" agree: whatever order late          *)
(* successes and failures of overlapping calls are recorded in, the circuit *)
(* is closed exactly while fewer than failure_threshold failures have been  *)
(* counted since the last success.                                          *)
CounterMatchesState ==
    state = "closed" <=> consecutiveFailures < FailureThreshold

(* While half open, no more than half_open_max of the callers that run      *)
(* against the service were let through as probes, and a slot is never      *)
(* counted outside that state.                                              *)
ProbeLimit ==
    /\ Cardinality(probes) <= HalfOpenMax
    /\ state # "half_open" => probes = {} /\ halfOpenAttempts = 0

(* The circuit only moves along closed -> open -> half_open -> closed/open: *)
(* it becomes half open only from open after the whole timeout, and each    *)
(* opening, the reopening by a failed probe included, restarts the timeout. *)
LegalTransition ==
    /\ state' = "half_open" /\ state # "half_open" =>
           state = "open" /\ openedAgo = RecoveryTimeout
    /\ state' = "open" /\ state # "open" => openedAgo' = 0
    /\ state = "open" /\ state' = "open" => openedAgo' >= openedAgo

StateCycle == [][LegalTransition]_vars

(* An open circuit does not reject for ever: a state in which the next      *)
(* caller is let through follows.                                           *)
OpenAdmitsAgain == state = "open" ~> CanExecute

(* A half-open circuit is decided by its probes: it stays half open only if *)
(* one of them ended in a way that is not recorded, which keeps its slot.   *)
Unrecorded == {"client_error", "throttled", "value_error", "raised"}
ProbesDecide ==
    state = "half_open" ~>
        \/ state # "half_open"
        \/ \E r \in probes : call[r].pc = "idle" /\ call[r].ended \in Unrecorded
=============================================================================
