------------------------ MODULE CircuitBreakerProofs ------------------------
(***************************************************************************)
(* Proofs about CircuitBreaker for any finite or infinite set of callers   *)
(* and any values of the thresholds allowed by BreakerAssumption.          *)
(***************************************************************************)
EXTENDS CircuitBreaker, FiniteSetTheorems, TLAPS

(***************************************************************************)
(* The inductive invariant.  ProbeLimit alone is not inductive: that the   *)
(* probes stay within the limit needs each of them to have been counted in *)
(* _half_open_attempts, and the count to be zero whenever can_execute      *)
(* restarts it.  TypeOK bounds the attempts, which needs a sleeping caller *)
(* to have one left.                                                       *)
(***************************************************************************)
ProbesCounted ==
    /\ IsFiniteSet(probes)
    /\ Cardinality(probes) <= halfOpenAttempts

RetryLeft ==
    \A r \in Callers : call[r].pc = "sleeping" => call[r].attempt < MaxRetries

IInv == TypeOK /\ CounterMatchesState /\ ProbeLimit /\ ProbesCounted /\ RetryLeft

(* A closed circuit without failures, probes or calls.                      *)
LEMMA InitIInv == Init => IInv
  BY BreakerAssumption, FS_EmptySet
  DEF Init, IInv, TypeOK, CounterMatchesState, ProbeLimit, ProbesCounted,
      RetryLeft, States, Idle, Locals

----------------------------------------------------------------------------
(* Each operation of the breaker preserves the invariant of its own fields. *)

BreakerTypes ==
    /\ state \in States
    /\ consecutiveFailures \in 0..FailureThreshold
    /\ halfOpenAttempts \in 0..HalfOpenMax
    /\ openedAgo \in 0..RecoveryTimeout
    /\ probes \subseteq Callers

BreakerInv == BreakerTypes /\ CounterMatchesState /\ ProbeLimit /\ ProbesCounted

LocalTypes == [pc : {"idle", "requesting", "sleeping"},
               attempt : 0..MaxRetries,
               flag : BOOLEAN,
               ended : AllOutcomes \cup {"none"}]

CallInv == call \in [Callers -> LocalTypes] /\ RetryLeft

(* A step that leaves the breaker alone.                                    *)
LEMMA BreakerInvUnchanged ==
  BreakerInv /\ UNCHANGED <<breaker, openedAgo, probes>> => BreakerInv'
  BY DEF BreakerInv, BreakerTypes, CounterMatchesState, ProbeLimit,
         ProbesCounted, breaker

(* record_success clears the probes together with their count.              *)
LEMMA RecordSuccessPreserves ==
  BreakerInv /\ RecordSuccess => BreakerInv'
<1> SUFFICES ASSUME BreakerInv, RecordSuccess
             PROVE  BreakerInv'
  OBVIOUS
<1> USE BreakerAssumption DEF BreakerInv, RecordSuccess, States
<1>1. BreakerTypes'
  BY DEF BreakerTypes
<1>2. CounterMatchesState'
  BY DEF BreakerTypes, CounterMatchesState
<1>3. ProbeLimit' /\ ProbesCounted'
  BY FS_EmptySet DEF BreakerTypes, ProbeLimit, ProbesCounted
<1> QED
  BY <1>1, <1>2, <1>3

(* record_failure trips the circuit at the moment the count reaches the     *)
(* threshold, so that the two never disagree.                               *)
LEMMA RecordFailurePreserves ==
  BreakerInv /\ RecordFailure => BreakerInv'
<1> SUFFICES ASSUME BreakerInv, RecordFailure
             PROVE  BreakerInv'
  OBVIOUS
<1> USE BreakerAssumption DEF BreakerInv, RecordFailure, States
<1>1. BreakerTypes'
  BY DEF BreakerTypes, CountFailure
<1>2. CounterMatchesState'
  BY DEF BreakerTypes, CounterMatchesState, CountFailure
<1>3. ProbeLimit' /\ ProbesCounted'
  BY FS_EmptySet DEF BreakerTypes, ProbeLimit, ProbesCounted
<1> QED
  BY <1>1, <1>2, <1>3

(* can_execute lets a probe through only below the limit and counts it.     *)
LEMMA AdmissionPreserves ==
  ASSUME NEW r \in Callers, BreakerInv, CanExecute, CommitExecute(r),
         UNCHANGED openedAgo
  PROVE  BreakerInv'
<1> USE BreakerAssumption DEF States, ObservedState
<1>1. CASE ObservedState = "closed"
  BY <1>1, BreakerInvUnchanged DEF CommitExecute
<1>2. CASE ObservedState # "closed"
  <2> DEFINE attempts == IF state = "open" THEN 0 ELSE halfOpenAttempts
             admitted == IF state = "open" THEN {} ELSE probes
  <2>1. /\ state' = "half_open"
        /\ halfOpenAttempts' = attempts + 1
        /\ probes' = admitted \cup {r}
        /\ UNCHANGED <<consecutiveFailures, openedAgo>>
    BY <1>2 DEF CommitExecute
  <2>2. state # "closed" /\ attempts \in 0..(HalfOpenMax - 1)
    BY <1>2 DEF CanExecute, BreakerInv, BreakerTypes
  <2>3. IsFiniteSet(admitted) /\ Cardinality(admitted) <= attempts
    BY FS_EmptySet DEF BreakerInv, ProbesCounted
  <2>4. /\ IsFiniteSet(admitted \cup {r})
        /\ Cardinality(admitted \cup {r}) <= attempts + 1
    <3>1. Cardinality(admitted) \in Nat
      BY <2>3, FS_CardinalityType
    <3>2. \/ Cardinality(admitted \cup {r}) = Cardinality(admitted)
          \/ Cardinality(admitted \cup {r}) = Cardinality(admitted) + 1
      BY <2>3, FS_AddElement
    <3> QED
      BY <2>2, <2>3, <3>1, <3>2, FS_AddElement
  <2>5. Cardinality(admitted \cup {r}) \in Nat
    BY <2>4, FS_CardinalityType
  <2>6. BreakerTypes'
    BY <2>1, <2>2 DEF BreakerInv, BreakerTypes
  <2>7. CounterMatchesState'
    BY <2>1, <2>2 DEF BreakerInv, CounterMatchesState
  <2>8. ProbeLimit' /\ ProbesCounted'
    <3>1. /\ IsFiniteSet(probes')
          /\ Cardinality(probes') <= halfOpenAttempts'
          /\ Cardinality(probes') \in Nat
      BY <2>1, <2>4, <2>5
    <3>2. halfOpenAttempts' \in 0..HalfOpenMax
      BY <2>6 DEF BreakerTypes
    <3> QED
      BY <2>1, <3>1, <3>2 DEF ProbeLimit, ProbesCounted
  <2> QED
    BY <2>6, <2>7, <2>8 DEF BreakerInv
<1> QED
  BY <1>1, <1>2

----------------------------------------------------------------------------
(* Every step of the system preserves the invariant.                        *)

(* A call that ends leaves its slot as it was before any call.              *)
LEMMA FinishTypes ==
  ASSUME NEW r \in Callers, NEW o \in AllOutcomes, CallInv, Finish(r, o)
  PROVE  CallInv'
<1>1. Idle(o) \in LocalTypes
  BY BreakerAssumption DEF LocalTypes, Idle, Locals
<1> QED
  BY <1>1 DEF CallInv, RetryLeft, Finish, Idle, Locals

(* Each step does one operation of the breaker at most.                     *)
LEMMA NextIInv == IInv /\ [Next]_vars => IInv'
<1> SUFFICES ASSUME BreakerInv, CallInv, [Next]_vars
             PROVE  BreakerInv' /\ CallInv'
  BY DEF IInv, TypeOK, BreakerInv, BreakerTypes, CallInv, LocalTypes
<1> USE BreakerAssumption
<1>1. CASE Tick
  <2>1. BreakerInv'
    BY <1>1 DEF Tick, BreakerInv, BreakerTypes, CounterMatchesState,
                ProbeLimit, ProbesCounted, breaker
  <2> QED
    BY <1>1, <2>1 DEF Tick, CallInv, RetryLeft
<1>2. CASE Reset
  <2>1. BreakerInv'
    BY <1>2, FS_EmptySet DEF Reset, BreakerInv, BreakerTypes,
                CounterMatchesState, ProbeLimit, ProbesCounted, States
  <2> QED
    BY <1>2, <2>1 DEF Reset, CallInv, RetryLeft
<1>3. ASSUME NEW r \in Callers, Start(r)
      PROVE  BreakerInv' /\ CallInv'
  <2>1. BreakerInv'
    BY <1>3, AdmissionPreserves DEF Start
  <2>2. CallInv'
    <3>1. Locals("requesting", 0, FALSE, "none") \in LocalTypes
      BY DEF LocalTypes, Locals
    <3> QED
      BY <1>3, <3>1 DEF Start, CallInv, RetryLeft, Locals
  <2> QED
    BY <2>1, <2>2
<1>4. ASSUME NEW r \in Callers, NextAttempt(r)
      PROVE  BreakerInv' /\ CallInv'
  <2>1. BreakerInv'
    BY <1>4, BreakerInvUnchanged DEF NextAttempt
  <2> QED
    BY <1>4, <2>1 DEF NextAttempt, CallInv, RetryLeft, LocalTypes, Locals
<1>5. ASSUME NEW r \in Callers, NEW o \in AllOutcomes, Respond(r, o)
      PROVE  BreakerInv' /\ CallInv'
  <2>1. CASE Succeed(r)
    BY <2>1, RecordSuccessPreserves, FinishTypes DEF Succeed, AllOutcomes
  <2>2. CASE RetryLater(r, o)
    <3>1. BreakerInv'
      BY <2>2, BreakerInvUnchanged DEF RetryLater
    <3> QED
      BY <2>2, <3>1 DEF RetryLater, CallInv, RetryLeft, LocalTypes, Locals
  <2>3. CASE GiveUp(r, o)
    <3>1. BreakerInv'
      BY <2>3, RecordFailurePreserves, BreakerInvUnchanged DEF GiveUp
    <3> QED
      BY <2>3, <3>1, FinishTypes DEF GiveUp
  <2>4. CASE RejectValue(r)
    BY <2>4, BreakerInvUnchanged, FinishTypes DEF RejectValue, AllOutcomes
  <2>5. CASE Raise(r)
    BY <2>5, BreakerInvUnchanged, FinishTypes DEF Raise, AllOutcomes
  <2> QED
    BY <1>5, <2>1, <2>2, <2>3, <2>4, <2>5 DEF Respond
<1>6. CASE UNCHANGED vars
  BY <1>6, BreakerInvUnchanged DEF vars, CallInv, RetryLeft
<1> QED
  BY <1>1, <1>2, <1>3, <1>4, <1>5, <1>6 DEF Next

(* The invariant holds in every reachable state.                            *)
THEOREM Inductive == Spec => []IInv
  BY InitIInv, NextIInv, PTL DEF Spec

----------------------------------------------------------------------------
(* Theorems *)

(* The breaker's fields, the callers' locals and the history keep their     *)
(* types whatever the service answers.                                      *)
THEOREM TypeCorrect == Spec => []TypeOK
<1>1. IInv => TypeOK
  BY DEF IInv
<1> QED
  BY Inductive, <1>1, PTL

(* record_success and record_failure keep the state and the failure counter *)
(* in agreement, for any number of overlapping callers.                     *)
THEOREM CounterAgrees == Spec => []CounterMatchesState
<1>1. IInv => CounterMatchesState
  BY DEF IInv
<1> QED
  BY Inductive, <1>1, PTL

(* can_execute admits at most half_open_max probes while half open.         *)
THEOREM ProbesLimited == Spec => []ProbeLimit
<1>1. IInv => ProbeLimit
  BY DEF IInv
<1> QED
  BY Inductive, <1>1, PTL

(* The circuit only moves along its cycle, and the timeout restarts at      *)
(* every opening.                                                           *)
THEOREM CycleOnly == Spec => StateCycle
<1>1. IInv /\ [Next]_vars => [LegalTransition]_vars
  <2> SUFFICES ASSUME IInv, Next
               PROVE  LegalTransition
    OBVIOUS
  <2> USE BreakerAssumption DEF IInv, TypeOK, States, LegalTransition
  <2>1. CASE Tick
    BY <2>1 DEF Tick, breaker
  <2>2. CASE Reset
    BY <2>2 DEF Reset
  <2>3. ASSUME NEW r \in Callers, Start(r)
        PROVE  LegalTransition
    BY <2>3 DEF Start, CanExecute, CommitExecute, ObservedState, breaker
  <2>4. ASSUME NEW r \in Callers, NextAttempt(r)
        PROVE  LegalTransition
    BY <2>4 DEF NextAttempt, breaker
  <2>5. ASSUME NEW r \in Callers, NEW o \in AllOutcomes, Respond(r, o)
        PROVE  LegalTransition
    <3>1. CASE RecordSuccess
      BY <3>1 DEF RecordSuccess
    <3>2. CASE RecordFailure
      BY <3>2 DEF RecordFailure
    <3>3. CASE UNCHANGED <<breaker, openedAgo, probes>>
      BY <3>3 DEF breaker
    <3> QED
      BY <2>5, <3>1, <3>2, <3>3
      DEF Respond, Succeed, RetryLater, GiveUp, RejectValue, Raise
  <2> QED
    BY <2>1, <2>2, <2>3, <2>4, <2>5 DEF Next
<1> QED
  BY Inductive, <1>1, PTL DEF Spec, StateCycle
=============================================================================
