--------------------------- MODULE ToolCallsProofs ---------------------------
(***************************************************************************)
(* For every set of tools that keep to ToolAssumption, any number of calls *)
(* and every limit: a tool reaches its service only as its user allows,    *)
(* its answers are true, and no window holds more admissions than the      *)
(* limit.                                                                  *)
(***************************************************************************)
EXTENDS ToolCalls, SequenceTheorems, TLAPS

Passed(k) == \E j \in 1..(k.at - 1) : k.tool.steps[j] \in Admission
InChange(k) == k.tool.steps[k.at] = "change"

CallTyped(k) == k \in CallType /\ k.at \in DOMAIN k.tool.steps

(* What a call has been through decides what it may have sent: only one     *)
(* that was admitted is past its admission, and only one that is at its     *)
(* change has carried it out, once per attempt at the most.                 *)
Allowed(k) ==
    /\ Passed(k) \/ k.sent => k.admitted
    /\ k.admitted => /\ {"enabled", "connected"} \subseteq k.seen
                     /\ k.tool.level = "write" => "writable" \in k.seen
    /\ k.hits > 0 => k.admitted /\ k.tool.level = "write"

Counted(k) ==
    /\ k.hits <= k.tries + 1
    /\ k.answer = "none" => k.hits <= k.tries /\ (~InChange(k) => k.hits = 0)
    /\ k.answer = "ok" /\ "change" \in StepsOf(k.tool) => k.hits > 0
    /\ k.answer = "refused" => k.hits = 0

CallOK(k) == CallTyped(k) /\ Allowed(k) /\ Counted(k)

(* The entries kept are the latest admissions, in order; those dropped have *)
(* expired.                                                                 *)
Dropped == Len(admissions) - Len(rate)
Window ==
    /\ Dropped >= 0
    /\ \A i \in 1..Len(rate) : rate[i] = admissions[Dropped + i]
    /\ \A i \in 1..Dropped : Expired(admissions[i])
    /\ \A i \in 1..Len(admissions) : admissions[i] <= clock
    /\ \A i, j \in 1..Len(admissions) : i <= j => admissions[i] <= admissions[j]

(* A call has seen what is true now.                                        *)
UpToDate == \A c \in Calls : Running(c) => Facts(prefs, connected) \subseteq call[c].seen

CallsOK == UpToDate /\ \A c \in Calls : CallOK(call[c])
Inv == TypeOK /\ CallsOK /\ Window /\ RateHeld

----------------------------------------------------------------------------
(* The steps of a call *)

(* What the assumption says of one tool.                                    *)
LEMMA ToolFacts ==
  ASSUME NEW s \in Shapes
  PROVE  /\ s.level \in {"read", "write"}
         /\ s.steps \in Seq(StepNames)
         /\ \A i \in DOMAIN s.steps :
               /\ s.steps[i] \notin Admission \cup {"check"} =>
                      \E j \in 1..(i - 1) : s.steps[j] \in Admission
               /\ s.steps[i] = "change" => i = Len(s.steps) /\ s.level = "write"
  BY ToolAssumption

(* A running call runs one of the tools.                                    *)
LEMMA RunningTool ==
  ASSUME NEW c \in Calls, CallTyped(call[c]), Running(c)
  PROVE  call[c].tool \in Shapes /\ call[c].answer = "none"
  BY DEF CallTyped, CallType, Running

(* A call at a step that is neither a check nor the admission was admitted. *)
LEMMA PastAdmission ==
  ASSUME NEW k, CallOK(k), k.tool \in Shapes,
         k.tool.steps[k.at] \notin Admission \cup {"check"}
  PROVE  k.admitted
  BY ToolFacts DEF CallOK, CallTyped, Allowed, Passed

(* A change at hand is the last step of a tool that writes.                 *)
LEMMA ChangeIsLast ==
  ASSUME NEW k, CallTyped(k), k.tool \in Shapes, InChange(k)
  PROVE  k.at = Len(k.tool.steps) /\ k.tool.level = "write"
  BY ToolFacts DEF CallTyped, InChange

(* A call that ends without a success is in order; one that is refused must *)
(* have changed nothing.                                                    *)
LEMMA AnsweredOK ==
  ASSUME NEW k, CallTyped(k), Allowed(k), k.hits <= k.tries + 1,
         NEW a \in {"refused", "error", "raised"}, a = "refused" => k.hits = 0
  PROVE  CallOK(Answered(k, a))
  <1> DEFINE n == Answered(k, a)
  <1>1. /\ n.tool = k.tool /\ n.at = k.at /\ n.admitted = k.admitted /\ n.answer = a
        /\ n.seen = k.seen /\ n.sent = k.sent /\ n.hits = k.hits /\ n.tries = k.tries
    BY DEF Answered, CallTyped, CallType
  <1>2. CallTyped(n)
    BY DEF Answered, CallTyped, CallType
  <1>3. Allowed(n)
    BY <1>1 DEF Allowed, Passed
  <1>4. Counted(n)
    BY <1>1 DEF Counted
  <1> QED
    BY <1>2, <1>3, <1>4 DEF CallOK

(* The step at hand is done: it was not the admission of a call not         *)
(* admitted, and if it was the change, the change was carried out.          *)
LEMMA MovedOK ==
  ASSUME NEW k, CallTyped(k), Allowed(k), k.tool \in Shapes, k.answer = "none",
         k.hits <= k.tries + 1,
         ~InChange(k) => k.hits = 0,
         InChange(k) => k.hits > 0,
         k.tool.steps[k.at] \in Admission => k.admitted
  PROVE  CallOK(Moved(k))
  <1> DEFINE n == Moved(k)
  <1>t. /\ k.tool.steps \in Seq(StepNames) /\ k.at \in 1..Len(k.tool.steps)
        /\ k.hits \in Nat /\ k.tries \in 0..MaxRetries /\ MaxRetries \in Nat
    BY ToolFacts, BoundAssumption DEF CallTyped, CallType
  <1>1. CASE k.at = Len(k.tool.steps)
    <2>1. /\ n.tool = k.tool /\ n.at = k.at /\ n.admitted = k.admitted /\ n.answer = "ok"
          /\ n.seen = k.seen /\ n.sent = k.sent /\ n.hits = k.hits /\ n.tries = k.tries
      BY <1>1 DEF Moved, Answered, CallTyped, CallType
    <2>2. CallTyped(n)
      BY <1>1 DEF Moved, Answered, CallTyped, CallType
    <2>3. Allowed(n)
      BY <2>1 DEF Allowed, Passed
    <2>4. "change" \in StepsOf(k.tool) => InChange(k)
      BY ToolFacts, <1>1 DEF StepsOf, InChange
    <2>5. Counted(n)
      BY <2>1, <2>4 DEF Counted
    <2> QED
      BY <2>2, <2>3, <2>5 DEF CallOK
  <1>2. CASE k.at # Len(k.tool.steps)
    <2>1. /\ n.tool = k.tool /\ n.at = k.at + 1 /\ n.admitted = k.admitted
          /\ n.answer = "none" /\ n.tries = 0
          /\ n.seen = k.seen /\ n.sent = k.sent /\ n.hits = k.hits
      BY <1>2 DEF Moved, CallTyped, CallType
    <2>2. n.at \in DOMAIN k.tool.steps
      BY <1>t, <1>2, <2>1
    <2>3. CallTyped(n)
      <3>1. n = [k EXCEPT !.at = k.at + 1, !.tries = 0]
        BY <1>2 DEF Moved
      <3>2. k.at + 1 \in Nat /\ 0 \in 0..MaxRetries
        BY <1>t
      <3>3. n \in CallType
        BY <3>1, <3>2 DEF CallTyped, CallType
      <3> QED
        BY <3>3, <2>1, <2>2 DEF CallTyped
    <2>4. ~InChange(k) /\ k.hits = 0
      BY <1>2, ChangeIsLast
    <2>5. Passed(n) => k.admitted
      <3>1. SUFFICES ASSUME NEW j \in 1..k.at, k.tool.steps[j] \in Admission
                     PROVE  k.admitted
        BY <2>1, <1>t DEF Passed
      <3>2. CASE j = k.at
        BY <3>1, <3>2
      <3>3. CASE j # k.at
        BY <3>1, <3>3, <1>t DEF Allowed, Passed
      <3> QED
        BY <3>2, <3>3
    <2>6. Allowed(n)
      BY <2>1, <2>5, <2>4 DEF Allowed
    <2>7. Counted(n)
      BY <2>1, <2>4, <1>t DEF Counted
    <2> QED
      BY <2>3, <2>6, <2>7 DEF CallOK
  <1> QED
    BY <1>1, <1>2

(* What a request may have become: sent or not, and carried out once more   *)
(* if it is the change.                                                     *)
Follows(n, k) ==
    /\ n \in CallType
    /\ n.tool = k.tool /\ n.at = k.at /\ n.admitted = k.admitted /\ n.seen = k.seen
    /\ n.tries = k.tries /\ n.answer = "none"
    /\ \/ n.hits = k.hits
       \/ InChange(k) /\ n.hits = k.hits + 1

Requests == StepNames \ (Admission \cup {"check", "creds", "api", "token"})
AtRequest(k) == k.answer = "none" /\ k.tool \in Shapes /\ k.tool.steps[k.at] \in Requests

(* What a request leaves of a call keeps to what the call may do.           *)
LEMMA FollowsOK ==
  ASSUME NEW k, CallOK(k), AtRequest(k), NEW n, Follows(n, k)
  PROVE  /\ CallTyped(n) /\ Allowed(n) /\ n.admitted
         /\ n.hits <= n.tries + 1
         /\ ~InChange(n) => n.hits = 0
  <1>1. k.admitted /\ k.hits \in Nat /\ k.hits <= k.tries
    BY PastAdmission DEF AtRequest, Requests, Admission, CallOK, CallTyped, CallType, Counted
  <1>2. CallTyped(n)
    BY DEF Follows, CallOK, CallTyped
  <1>3. Allowed(n)
    <2>1. InChange(k) => k.tool.level = "write"
      BY ChangeIsLast DEF CallOK, AtRequest
    <2> QED
      BY <1>1, <2>1 DEF Follows, CallOK, Allowed, Passed
  <1>4. k.tries <= MaxRetries /\ k.tries \in Nat
    BY BoundAssumption DEF CallOK, CallTyped, CallType
  <1>5. n.hits <= n.tries + 1
    BY <1>1, <1>4, BoundAssumption DEF Follows
  <1>6. ~InChange(n) => n.hits = 0
    BY DEF Follows, CallOK, Counted, InChange, AtRequest
  <1> QED
    BY <1>1, <1>2, <1>3, <1>5, <1>6 DEF Follows

(* A request that fails for good: the next step, or an error.               *)
LEMMA FailedOK ==
  ASSUME NEW k, CallOK(k), AtRequest(k), NEW n, Follows(n, k)
  PROVE  CallOK(Failed(n)) /\ Failed(n).seen = k.seen
  <1>1. /\ CallTyped(n) /\ Allowed(n) /\ n.admitted
        /\ n.hits <= n.tries + 1
        /\ ~InChange(n) => n.hits = 0
    BY FollowsOK
  <1>2. n.tool \in Shapes /\ n.answer = "none" /\ n.seen = k.seen
    BY DEF Follows, AtRequest
  <1>3. CASE n.tool.steps[n.at] \in {"get", "change", "fetch", "site"}
    <2> DEFINE m == Answered(n, "error")
    <2>1. /\ m.tool = n.tool /\ m.at = n.at /\ m.admitted = n.admitted /\ m.answer = "error"
          /\ m.seen = n.seen /\ m.sent = n.sent /\ m.hits = n.hits /\ m.tries = n.tries
      BY <1>1 DEF Answered, CallTyped, CallType
    <2>2. CallTyped(m)
      BY <1>1 DEF Answered, CallTyped, CallType
    <2>3. Allowed(m) /\ Counted(m)
      BY <1>1, <2>1 DEF Allowed, Passed, Counted
    <2>4. Failed(n) = m
      BY <1>3 DEF Failed
    <2> QED
      BY <1>2, <2>1, <2>2, <2>3, <2>4 DEF CallOK
  <1>4. CASE n.tool.steps[n.at] \notin {"get", "change", "fetch", "site"}
    <2>1. Failed(n) = Moved(n)
      BY <1>4 DEF Failed
    <2>2. ~InChange(n)
      BY <1>4 DEF InChange
    <2>3. CallOK(Moved(n))
      BY <1>1, <1>2, <2>2, MovedOK
    <2>4. Moved(n).seen = n.seen
      BY <1>1 DEF Moved, Answered, CallTyped, CallType
    <2> QED
      BY <1>2, <2>1, <2>3, <2>4
  <1> QED
    BY <1>3, <1>4

(* The forms of a request are what may follow it.                           *)
LEMMA SentFollows ==
  ASSUME NEW k, CallOK(k), AtRequest(k)
  PROVE  /\ Follows(k, k) /\ Follows(Sent(k), k)
         /\ Follows(Applied(k), k) /\ Follows(Sent(Applied(k)), k)
         /\ Follows(Applied(Sent(k)), k)
         /\ InChange(k) => Applied(Sent(k)).hits > 0
  <1>1. k \in CallType /\ k.answer = "none" /\ k.hits \in Nat
    BY DEF CallOK, CallTyped, CallType, AtRequest
  <1>2. Follows(k, k) /\ Follows(Sent(k), k)
    BY <1>1 DEF Follows, Sent, CallType
  <1>3. CASE InChange(k)
    <2>1. k.hits + 1 \in Nat /\ k.hits + 1 > 0
      BY <1>1
    <2>2. Applied(k) = [k EXCEPT !.hits = k.hits + 1]
      BY <1>3 DEF Applied, InChange
    <2>3. Follows(Applied(k), k)
      BY <1>1, <1>3, <2>1, <2>2 DEF Follows, CallType
    <2>4. Follows(Sent(Applied(k)), k)
      BY <2>3 DEF Follows, Sent, CallType
    <2>5. Sent(k).tool = k.tool /\ Sent(k).at = k.at /\ Sent(k).hits = k.hits /\ Sent(k) \in CallType
      BY <1>1 DEF Sent, CallType
    <2>6. Applied(Sent(k)) = [Sent(k) EXCEPT !.hits = k.hits + 1]
      BY <1>3, <2>5 DEF Applied, InChange
    <2>7. Follows(Applied(Sent(k)), k) /\ Applied(Sent(k)).hits = k.hits + 1
      BY <1>2, <1>3, <2>1, <2>5, <2>6 DEF Follows, CallType
    <2> QED
      BY <1>2, <2>1, <2>3, <2>4, <2>7
  <1>4. CASE ~InChange(k)
    <2>1. Applied(k) = k
      BY <1>4 DEF Applied, InChange
    <2>2. Sent(k).tool = k.tool /\ Sent(k).at = k.at
      BY <1>1 DEF Sent, CallType
    <2>3. Applied(Sent(k)) = Sent(k)
      BY <1>4, <2>2 DEF Applied, InChange
    <2> QED
      BY <1>2, <1>4, <2>1, <2>3
  <1> QED
    BY <1>3, <1>4

(* A request that is tried again may carry its change out once more.        *)
LEMMA AgainOK ==
  ASSUME NEW k, CallOK(k), AtRequest(k), NEW n, Follows(n, k), n.tries = k.tries,
         CanRetry(n)
  PROVE  CallOK(Again(n)) /\ Again(n).seen = k.seen
  <1> DEFINE m == Again(n)
  <1>1. /\ CallTyped(n) /\ Allowed(n) /\ n.admitted
        /\ n.hits <= n.tries + 1
        /\ ~InChange(n) => n.hits = 0
    BY FollowsOK
  <1>2. n.tries \in 0..MaxRetries /\ n.tries < MaxRetries /\ MaxRetries \in Nat
    BY <1>1, BoundAssumption DEF CallTyped, CallType, CanRetry
  <1>3. n.hits <= n.tries + 1 /\ n.answer = "none" /\ n.hits \in Nat
    BY <1>1, <1>2 DEF Follows, CallOK, CallTyped, CallType, Counted, AtRequest
  <1>4. Sent(n) \in CallType /\ Sent(n).tries = n.tries
    BY <1>1 DEF Sent, CallTyped, CallType
  <1>5. n.tries + 1 \in 0..MaxRetries
    BY <1>2
  <1>6. m = [Sent(n) EXCEPT !.tries = n.tries + 1]
    BY <1>4 DEF Again
  <1>7. /\ m \in CallType /\ m.tries = n.tries + 1
        /\ m.tool = n.tool /\ m.at = n.at /\ m.admitted = n.admitted
        /\ m.answer = n.answer /\ m.seen = n.seen /\ m.hits = n.hits
    BY <1>1, <1>4, <1>5, <1>6 DEF Sent, CallTyped, CallType
  <1>8. CallTyped(m)
    BY <1>1, <1>7 DEF CallTyped
  <1>9. Allowed(m)
    BY <1>1, <1>7 DEF Allowed, Passed
  <1>10. Counted(m)
    <2>1. m.hits <= m.tries + 1 /\ m.hits <= m.tries
      BY <1>2, <1>3, <1>7
    <2> HIDE DEF m
    <2> QED
      BY <1>1, <1>3, <1>7, <2>1 DEF Counted, InChange
  <1>11. m.seen = k.seen
    BY <1>7 DEF Follows
  <1> QED
    BY <1>8, <1>9, <1>10, <1>11 DEF CallOK

(* Carrying a change out is not an attempt of its own.                      *)
LEMMA AppliedKeepsTries ==
  ASSUME NEW k \in CallType
  PROVE  Applied(k).tries = k.tries
  BY DEF Applied, CallType

(* A call that becomes a call in order, having seen no less, keeps the      *)
(* calls in order.                                                          *)
LEMMA BecomeOK ==
  ASSUME Inv, NEW c \in Calls, NEW k, CallOK(k),
         Facts(prefs, connected) \subseteq k.seen, Become(c, k)
  PROVE  CallsOK' /\ (rate' \in Seq(Nat) /\ admissions' \in Seq(Nat) => TypeOK')
  <1>1. /\ call \in [Calls -> CallType] /\ k \in CallType
        /\ k.at \in DOMAIN k.tool.steps
    BY DEF Inv, TypeOK, CallOK, CallTyped
  <1>2. /\ call' \in [Calls -> CallType] /\ call'[c] = k
        /\ \A d \in Calls : d # c => call'[d] = call[d]
    BY <1>1 DEF Become
  <1>3. \A d \in Calls : CallOK(call'[d]) /\ call'[d].at \in DOMAIN call'[d].tool.steps
    BY <1>1, <1>2 DEF Inv, CallsOK, CallOK, CallTyped
  <1>4. UpToDate'
    BY <1>2 DEF Inv, CallsOK, UpToDate, Running, Become, Facts
  <1>5. CallsOK'
    BY <1>3, <1>4 DEF CallsOK
  <1>6. rate' \in Seq(Nat) /\ admissions' \in Seq(Nat) => TypeOK'
    BY <1>2, <1>3 DEF Inv, TypeOK, Become
  <1> QED
    BY <1>5, <1>6

(* Nothing of the window is touched.                                        *)
LEMMA WindowKept ==
  ASSUME Inv, UNCHANGED <<rate, admissions, clock>>
  PROVE  Window' /\ RateHeld'
  BY DEF Inv, Window, RateHeld, Dropped, Expired

(* A call that moves on in order without asking the window.                 *)
LEMMA QuietStep ==
  ASSUME Inv, NEW c \in Calls, NEW k, CallOK(k),
         Facts(prefs, connected) \subseteq k.seen, Become(c, k),
         UNCHANGED <<rate, admissions>>
  PROVE  Inv'
  <1>1. rate' \in Seq(Nat) /\ admissions' \in Seq(Nat) /\ clock' = clock
    BY DEF Inv, TypeOK, Become
  <1> QED
    BY <1>1, BecomeOK, WindowKept DEF Inv

----------------------------------------------------------------------------
(* The actions *)

(* What is known of a call at a step.                                       *)
LEMMA AtFacts ==
  ASSUME Inv, NEW c \in Calls, NEW step, At(c, step)
  PROVE  /\ CallOK(call[c]) /\ call[c].tool \in Shapes /\ call[c].answer = "none"
         /\ call[c].tool.steps[call[c].at] = step
         /\ Facts(prefs, connected) \subseteq call[c].seen
         /\ (InChange(call[c]) <=> step = "change")
         /\ step # "change" => call[c].hits = 0
  <1>1. CallOK(call[c]) /\ Running(c)
    BY DEF Inv, CallsOK, At
  <1>2. call[c].tool \in Shapes /\ call[c].answer = "none"
    BY <1>1, RunningTool DEF CallOK
  <1> QED
    BY <1>1, <1>2 DEF At, Inv, CallsOK, UpToDate, InChange, CallOK, Counted

(* At a step other than the change, and past the admission or before it,    *)
(* the call may go on or be answered.                                       *)
LEMMA StepOrAnswer ==
  ASSUME Inv, NEW c \in Calls, NEW step, At(c, step), step # "change",
         step \in Admission => call[c].admitted
  PROVE  /\ CallOK(Moved(call[c])) /\ Moved(call[c]).seen = call[c].seen
         /\ \A a \in {"refused", "error", "raised"} :
                CallOK(Answered(call[c], a)) /\ Answered(call[c], a).seen = call[c].seen
  <1> DEFINE k == call[c]
  <1>1. /\ CallOK(k) /\ k.tool \in Shapes /\ k.answer = "none" /\ k.hits = 0
        /\ ~InChange(k) /\ k.tool.steps[k.at] = step
    BY AtFacts
  <1>2. CallOK(Moved(k))
    BY <1>1, MovedOK DEF CallOK, Counted
  <1>3. \A a \in {"refused", "error", "raised"} : CallOK(Answered(k, a))
    BY <1>1, AnsweredOK DEF CallOK, Counted
  <1>4. /\ Moved(k).seen = k.seen
        /\ \A a \in {"refused", "error", "raised"} : Answered(k, a).seen = k.seen
    BY <1>1 DEF Moved, Answered, CallOK, CallTyped, CallType
  <1> QED
    BY <1>2, <1>3, <1>4

(* A call that starts has seen what is so now, and has sent nothing.        *)
LEMMA StartStep ==
  ASSUME Inv, NEW c \in Calls, NEW tool \in offered, Start(c, tool)
  PROVE  Inv'
  <1> DEFINE k == [Idle EXCEPT !.tool = tool, !.seen = Facts(prefs, connected)]
  <1>1. tool \in Shapes /\ tool.steps \in Seq(StepNames) /\ tool.steps # <<>>
    BY ToolAssumption DEF Inv, TypeOK
  <1>2. 1 \in DOMAIN tool.steps
    BY <1>1
  <1>3. /\ k.tool = tool /\ k.at = 1 /\ ~k.admitted /\ k.answer = "none" /\ k.tries = 0
        /\ k.seen = Facts(prefs, connected) /\ ~k.sent /\ k.hits = 0
    BY DEF Idle
  <1>4. CallTyped(k)
    <2>1. Facts(prefs, connected) \subseteq {"enabled", "writable", "connected"}
      BY DEF Facts
    <2>2. 0 \in 0..MaxRetries
      BY BoundAssumption
    <2>3. k \in CallType
      BY <1>1, <2>1, <2>2 DEF Idle, CallType
    <2> QED
      BY <1>2, <1>3, <2>3 DEF CallTyped
  <1>5. Allowed(k)
    BY <1>3 DEF Allowed, Passed
  <1>6. Counted(k)
    BY <1>3, BoundAssumption DEF Counted
  <1>7. Become(c, k) /\ UNCHANGED <<rate, admissions>>
    BY DEF Start
  <1> QED
    BY <1>3, <1>4, <1>5, <1>6, <1>7, QuietStep DEF CallOK

(* The steps that ask nothing of the service.                               *)
LEMMA LocalSteps ==
  ASSUME Inv, NEW c \in Calls,
         \/ Check(c) \/ GetClient(c) \/ ReadField(c) \/ ReadApi(c) \/ ReadToken(c)
         \/ SiteKnown(c) \/ Direct(c)
  PROVE  Inv'
  <1>1. PICK step \in StepNames :
            /\ At(c, step) /\ step # "change" /\ (step \in Admission => call[c].admitted)
            /\ \/ Become(c, Moved(call[c]))
               \/ \E a \in {"refused", "error", "raised"} : Become(c, Answered(call[c], a))
            /\ UNCHANGED <<rate, admissions>>
    BY DEF Check, GetClient, ReadField, ReadApi, ReadToken, SiteKnown, Direct,
           StepNames, Admission
  <1>2. Facts(prefs, connected) \subseteq call[c].seen
    BY <1>1, AtFacts
  <1>3. CASE Become(c, Moved(call[c]))
    BY <1>1, <1>2, <1>3, StepOrAnswer, QuietStep
  <1>4. CASE \E a \in {"refused", "error", "raised"} : Become(c, Answered(call[c], a))
    BY <1>1, <1>2, <1>4, StepOrAnswer, QuietStep
  <1> QED
    BY <1>1, <1>3, <1>4

(* What is known of a call at a request.                                    *)
LEMMA RequestFacts ==
  ASSUME Inv, NEW c \in Calls, NEW step \in Retried \cup Unretried, At(c, step)
  PROVE  AtRequest(call[c]) /\ CallOK(call[c]) /\ Facts(prefs, connected) \subseteq call[c].seen
  BY AtFacts DEF AtRequest, Requests, Retried, Unretried, StepNames, Admission

(* A request that fails for good.                                           *)
LEMMA FailingSteps ==
  ASSUME Inv, NEW c \in Calls, BreakerRefuses(c) \/ Reject(c) \/ FailUnretried(c)
  PROVE  Inv'
  <1>1. PICK step \in Retried \cup Unretried : At(c, step)
    BY DEF BreakerRefuses, Reject, FailUnretried
  <1>2. \E n \in {call[c], Sent(call[c])} :
            Become(c, Failed(n)) /\ UNCHANGED <<rate, admissions>>
    BY DEF BreakerRefuses, Reject, FailUnretried
  <1>3. PICK n \in {call[c], Sent(call[c])} :
            Become(c, Failed(n)) /\ UNCHANGED <<rate, admissions>>
    BY <1>2
  <1>4. Follows(n, call[c])
    BY <1>1, <1>3, RequestFacts, SentFollows
  <1>5. CallOK(Failed(n)) /\ Failed(n).seen = call[c].seen
    BY <1>1, <1>4, RequestFacts, FailedOK
  <1> QED
    BY <1>1, <1>3, <1>5, RequestFacts, QuietStep

(* An answer worth a retry, which the change may have been lost with.       *)
LEMMA TransientStep ==
  ASSUME Inv, NEW c \in Calls, NEW lost \in BOOLEAN, Transient(c, lost)
  PROVE  Inv'
  <1> DEFINE n == IF lost THEN Applied(call[c]) ELSE call[c]
  <1>1. PICK step \in Retried \cup Unretried : At(c, step)
    BY DEF Transient
  <1>2. AtRequest(call[c]) /\ CallOK(call[c]) /\ Facts(prefs, connected) \subseteq call[c].seen
    BY <1>1, RequestFacts
  <1>3. Follows(n, call[c]) /\ Follows(Sent(n), call[c]) /\ n.tries = call[c].tries
    BY <1>2, SentFollows, AppliedKeepsTries DEF CallOK, CallTyped
  <1>4. UNCHANGED <<rate, admissions>>
    BY DEF Transient
  <1>5. CASE CanRetry(n)
    <2>1. Become(c, Again(n))
      BY <1>5 DEF Transient
    <2>2. CallOK(Again(n)) /\ Again(n).seen = call[c].seen
      BY <1>2, <1>3, <1>5, AgainOK
    <2> HIDE DEF n
    <2> QED
      BY <1>2, <1>4, <2>1, <2>2, QuietStep
  <1>6. CASE ~CanRetry(n)
    <2>1. Become(c, Failed(Sent(n)))
      BY <1>6 DEF Transient
    <2>2. CallOK(Failed(Sent(n))) /\ Failed(Sent(n)).seen = call[c].seen
      BY <1>2, <1>3, FailedOK
    <2> HIDE DEF n
    <2> QED
      BY <1>2, <1>4, <2>1, <2>2, QuietStep
  <1> QED
    BY <1>5, <1>6

(* A request that is answered with what was asked for.                      *)
LEMMA SucceedStep ==
  ASSUME Inv, NEW c \in Calls, Succeed(c)
  PROVE  Inv'
  <1> DEFINE n == Applied(Sent(call[c]))
  <1>1. PICK step \in Retried \cup Unretried : At(c, step)
    BY DEF Succeed
  <1>2. AtRequest(call[c]) /\ CallOK(call[c]) /\ Facts(prefs, connected) \subseteq call[c].seen
    BY <1>1, RequestFacts
  <1>3. Follows(n, call[c]) /\ (InChange(call[c]) => n.hits > 0)
    BY <1>2, SentFollows
  <1>4. /\ CallTyped(n) /\ Allowed(n) /\ n.admitted
        /\ n.hits <= n.tries + 1
        /\ ~InChange(n) => n.hits = 0
    BY <1>2, <1>3, FollowsOK
  <1>5. n.tool \in Shapes /\ n.answer = "none" /\ (InChange(n) => n.hits > 0)
    BY <1>2, <1>3 DEF Follows, AtRequest, InChange
  <1>6. n.seen = call[c].seen
    BY <1>3 DEF Follows
  <1>7. Become(c, Moved(n)) /\ UNCHANGED <<rate, admissions>>
    BY DEF Succeed
  <1> HIDE DEF n
  <1>8. CallOK(Moved(n))
    BY <1>4, <1>5, MovedOK
  <1>9. Moved(n).seen = n.seen
    BY <1>4 DEF Moved, Answered, CallTyped, CallType
  <1> QED
    BY <1>2, <1>6, <1>7, <1>8, <1>9, QuietStep

(* A call that is cancelled keeps what it has, which may be a change made by *)
(* an earlier attempt.                                                      *)
LEMMA InterruptStep ==
  ASSUME Inv, NEW c \in Calls, Interrupt(c)
  PROVE  Inv'
  <1> DEFINE k == call[c]
             n == Answered(k, "raised")
  <1>1. PICK step \in Admission \cup {"token"} \cup Retried \cup Unretried : At(c, step)
    BY DEF Interrupt
  <1>2. CallOK(k) /\ Facts(prefs, connected) \subseteq k.seen
    BY <1>1, AtFacts
  <1>3. CallOK(n) /\ n.seen = k.seen
    <2>1. n.seen = k.seen
      BY <1>2 DEF CallOK, Answered, CallTyped, CallType
    <2>2. CallOK(n)
      BY <1>2, AnsweredOK DEF CallOK, Counted
    <2> QED
      BY <2>1, <2>2
  <1>4. Become(c, n) /\ UNCHANGED <<rate, admissions>>
    BY DEF Interrupt
  <1> QED
    BY <1>2, <1>3, <1>4, QuietStep

(* An exception after the request is out: it may have been carried out, once *)
(* more than the attempts before.                                           *)
LEMMA BreakStep ==
  ASSUME Inv, NEW c \in Calls, NEW done \in BOOLEAN, Break(c, done)
  PROVE  Inv'
  <1> DEFINE k == call[c]
             n == Sent(IF done THEN Applied(k) ELSE k)
             m == Answered(n, "raised")
  <1>1. PICK step \in Retried \cup Unretried : At(c, step)
    BY DEF Break
  <1>2. AtRequest(k) /\ CallOK(k) /\ Facts(prefs, connected) \subseteq k.seen
    BY <1>1, RequestFacts
  <1>3. Follows(n, k)
    BY <1>2, SentFollows
  <1>4. CallTyped(n) /\ Allowed(n) /\ n.hits <= n.tries + 1
    BY <1>2, <1>3, FollowsOK
  <1>5. Become(c, m) /\ UNCHANGED <<rate, admissions>>
    BY DEF Break
  <1>6. n.seen = k.seen
    BY <1>3 DEF Follows
  <1> HIDE DEF n
  <1>7. CallOK(m) /\ m.seen = k.seen
    BY <1>4, <1>6, AnsweredOK DEF Answered, CallTyped, CallType
  <1> QED
    BY <1>2, <1>5, <1>7, QuietStep

(* The user's settings: every running call sees what becomes true.          *)
LEMMA UserSteps ==
  ASSUME Inv, UserStep
  PROVE  Inv'
  <1>1. PICK p \in [enabled : BOOLEAN, mode : {"read", "readwrite"}], con \in BOOLEAN : Set(p, con)
    BY DEF Inv, TypeOK, UserStep, Enable, Disable, SetMode, Connect, Disconnect
  <1>2. /\ prefs' = p /\ connected' = con
        /\ \A c \in Calls :
              call'[c] = IF Running(c) THEN [call[c] EXCEPT !.seen = @ \cup Facts(p, con)]
                         ELSE call[c]
        /\ call' = [c \in Calls |-> IF Running(c)
                         THEN [call[c] EXCEPT !.seen = @ \cup Facts(p, con)] ELSE call[c]]
        /\ UNCHANGED <<offered, rate, clock, admissions>>
    BY <1>1 DEF Set
  <1>3. Facts(p, con) \subseteq {"enabled", "writable", "connected"}
    BY DEF Facts
  <1>4. ASSUME NEW c \in Calls
        PROVE  /\ CallOK(call'[c])
               /\ (Running(c))' => Facts(p, con) \subseteq call'[c].seen
    <2> DEFINE k == call[c]
               n == call'[c]
    <2>1. CallOK(k)
      BY DEF Inv, CallsOK
    <2>2. CASE Running(c)
      <3>1. n = [k EXCEPT !.seen = k.seen \cup Facts(p, con)]
        BY <1>2, <2>1, <2>2 DEF CallOK, CallTyped, CallType
      <3>2. k.seen \cup Facts(p, con) \in SUBSET {"enabled", "writable", "connected"}
        BY <1>3, <2>1 DEF CallOK, CallTyped, CallType
      <3>3. /\ n \in CallType /\ n.seen = k.seen \cup Facts(p, con)
            /\ n.tool = k.tool /\ n.at = k.at /\ n.admitted = k.admitted /\ n.tries = k.tries
            /\ n.answer = k.answer /\ n.sent = k.sent /\ n.hits = k.hits
        BY <2>1, <3>1, <3>2 DEF CallOK, CallTyped, CallType
      <3>4. CallTyped(n)
        BY <2>1, <3>3 DEF CallOK, CallTyped
      <3>5. Allowed(n)
        BY <2>1, <3>3 DEF CallOK, Allowed, Passed
      <3>6. Counted(n)
        BY <2>1, <3>3 DEF CallOK, Counted, InChange
      <3> QED
        BY <3>3, <3>4, <3>5, <3>6 DEF CallOK
    <2>3. CASE ~Running(c)
      BY <1>2, <2>1, <2>3 DEF Running
    <2> QED
      BY <2>2, <2>3
  <1>5. CallsOK'
    BY <1>2, <1>4 DEF CallsOK, UpToDate
  <1>6. call' \in [Calls -> CallType]
    BY <1>2, <1>4 DEF CallOK, CallTyped
  <1>7. TypeOK'
    BY <1>1, <1>2, <1>4, <1>6 DEF Inv, TypeOK, CallOK, CallTyped
  <1>8. Window' /\ RateHeld'
    BY <1>2, WindowKept
  <1> QED
    BY <1>5, <1>7, <1>8 DEF Inv

----------------------------------------------------------------------------
(* Admissions and the window *)

(* What is left after pruning is still the end of the admissions, and what  *)
(* comes before it has expired.                                             *)
LEMMA PrunedWindow ==
  ASSUME Inv, NEW kept, Pruned(kept)
  PROVE  /\ kept \in Seq(Nat) /\ Len(kept) <= Len(admissions)
         /\ \A i \in 1..Len(kept) : kept[i] = admissions[(Len(admissions) - Len(kept)) + i]
         /\ \A i \in 1..(Len(admissions) - Len(kept)) : Expired(admissions[i])
  <1>1. PICK k \in 0..Len(rate) : /\ \A i \in 1..k : Expired(rate[i])
                                  /\ kept = SubSeq(rate, k + 1, Len(rate))
    BY DEF Pruned
  <1>2. rate \in Seq(Nat) /\ admissions \in Seq(Nat) /\ Len(rate) \in Nat /\ Len(admissions) \in Nat
    BY DEF Inv, TypeOK
  <1>3. /\ kept \in Seq(Nat) /\ Len(kept) = Len(rate) - k
        /\ \A i \in 1..Len(kept) : kept[i] = rate[k + i]
    <2> DEFINE m == Len(rate)
    <2>1. k + 1 \in Int /\ m \in Int /\ m >= k /\ \A i \in (k + 1)..m : rate[i] \in Nat
      BY <1>1, <1>2
    <2>2. /\ SubSeq(rate, k + 1, m) \in Seq(Nat)
          /\ Len(SubSeq(rate, k + 1, m)) = IF k + 1 <= m THEN m - (k + 1) + 1 ELSE 0
          /\ \A i \in 1..(m - (k + 1) + 1) : SubSeq(rate, k + 1, m)[i] = rate[(k + 1) + i - 1]
      BY <2>1, SubSeqProperties
    <2>3. /\ m - (k + 1) + 1 = m - k /\ (k + 1 > m => m - k = 0)
          /\ \A i \in 1..(m - k) : (k + 1) + i - 1 = k + i
      BY <1>1, <2>1
    <2>4. kept = SubSeq(rate, k + 1, m)
      BY <1>1
    <2> HIDE DEF m
    <2>5. kept \in Seq(Nat) /\ Len(kept) = m - k /\ \A i \in 1..(m - k) : kept[i] = rate[k + i]
      BY <2>1, <2>2, <2>3, <2>4
    <2> QED
      BY <2>5 DEF m
  <1>4. /\ Len(rate) <= Len(admissions)
        /\ \A i \in 1..Len(rate) : rate[i] = admissions[(Len(admissions) - Len(rate)) + i]
        /\ \A i \in 1..(Len(admissions) - Len(rate)) : Expired(admissions[i])
    BY <1>2 DEF Inv, Window, Dropped
  <1>5. ASSUME NEW i \in 1..Len(kept)
        PROVE  kept[i] = admissions[(Len(admissions) - Len(kept)) + i]
    <2>1. /\ k + i \in 1..Len(rate)
          /\ (Len(admissions) - Len(rate)) + (k + i) = (Len(admissions) - Len(kept)) + i
      <3> DEFINE n == Len(admissions)
                 m == Len(rate)
                 l == Len(kept)
      <3>1. n \in Nat /\ m \in Nat /\ k \in 0..m /\ l = m - k /\ i \in 1..l
        BY <1>2, <1>3
      <3> HIDE DEF n, m, l
      <3>2. k + i \in 1..m /\ (n - m) + (k + i) = (n - l) + i
        BY <3>1
      <3> QED
        BY <3>2 DEF n, m, l
    <2>2. rate[k + i] = admissions[(Len(admissions) - Len(rate)) + (k + i)]
      BY <1>4, <2>1
    <2> QED
      BY <1>3, <2>1, <2>2
  <1>6. ASSUME NEW i \in 1..(Len(admissions) - Len(kept))
        PROVE  Expired(admissions[i])
    <2> DEFINE d == Len(admissions) - Len(rate)
    <2>1. CASE i <= d
      BY <1>2, <1>4, <2>1
    <2>2. CASE i > d
      <3>1. i - d \in 1..k /\ i - d \in 1..Len(rate) /\ d + (i - d) = i
        <4>1. /\ d \in Int /\ i \in Int /\ i <= Len(admissions) - (Len(rate) - k)
              /\ k \in Nat /\ k <= Len(rate)
          BY <1>2, <1>3
        <4> QED
          BY <1>2, <2>2, <4>1
      <3>2. rate[i - d] = admissions[i]
        BY <1>4, <3>1
      <3> QED
        BY <1>1, <3>1, <3>2
    <2> QED
      BY <1>2, <1>4, <2>1, <2>2
  <1>7. Len(kept) <= Len(admissions)
    BY <1>2, <1>3, <1>4
  <1> QED
    BY <1>3, <1>5, <1>6, <1>7

(* A call refused by the settings has sent nothing.                         *)
LEMMA DenyStep ==
  ASSUME Inv, NEW c \in Calls, Deny(c)
  PROVE  Inv'
  <1>1. PICK step \in Admission : At(c, step)
    BY DEF Deny
  <1>2. CallOK(call[c]) /\ call[c].hits = 0 /\ Facts(prefs, connected) \subseteq call[c].seen
    BY <1>1, AtFacts DEF Admission
  <1>3. CallOK(Answered(call[c], "refused"))
    BY <1>2, AnsweredOK DEF CallOK, Counted
  <1>4. Answered(call[c], "refused").seen = call[c].seen
    BY <1>2 DEF Answered, CallOK, CallTyped, CallType
  <1> QED
    BY <1>2, <1>3, <1>4, QuietStep DEF Deny

(* A call refused by the limit has sent nothing.                            *)
LEMMA ThrottleStep ==
  ASSUME Inv, NEW c \in Calls, Throttle(c)
  PROVE  Inv'
  <1>1. PICK step \in Admission : At(c, step)
    BY DEF Throttle
  <1>2. CallOK(call[c]) /\ call[c].hits = 0 /\ Facts(prefs, connected) \subseteq call[c].seen
    BY <1>1, AtFacts DEF Admission
  <1>3. CallOK(Answered(call[c], "refused"))
    BY <1>2, AnsweredOK DEF CallOK, Counted
  <1>4. Answered(call[c], "refused").seen = call[c].seen
    BY <1>2 DEF Answered, CallOK, CallTyped, CallType
  <1>5. /\ Pruned(rate') /\ admissions' = admissions /\ clock' = clock
        /\ Become(c, Answered(call[c], "refused"))
    BY DEF Throttle, Become
  <1>6. rate' \in Seq(Nat) /\ admissions' \in Seq(Nat)
    BY <1>5, PrunedWindow DEF Inv, TypeOK
  <1>7. TypeOK' /\ CallsOK'
    BY <1>2, <1>3, <1>4, <1>5, <1>6, BecomeOK
  <1>8. Window'
    BY <1>5, <1>6, PrunedWindow DEF Inv, Window, Dropped, Expired
  <1>9. RateHeld'
    BY <1>5 DEF Inv, RateHeld
  <1> QED
    BY <1>7, <1>8, <1>9 DEF Inv

(* An admission comes RateLimit places after one that has expired: fewer    *)
(* than RateLimit were kept.                                                *)
LEMMA AdmitStep ==
  ASSUME Inv, NEW c \in Calls, Admit(c)
  PROVE  Inv'
  <1> DEFINE k == IF connected THEN [call[c] EXCEPT !.admitted = TRUE]
                  ELSE Answered(call[c], "refused")
             n == Len(admissions)
  <1>1. PICK step \in Admission : At(c, step)
    BY DEF Admit
  <1>2. /\ CallOK(call[c]) /\ call[c].hits = 0 /\ call[c].answer = "none"
        /\ Facts(prefs, connected) \subseteq call[c].seen
    BY <1>1, AtFacts DEF Admission
  <1>3. CallOK(k) /\ k.seen = call[c].seen
    <2>1. CASE connected
      <3>1. /\ k \in CallType /\ k.tool = call[c].tool /\ k.at = call[c].at /\ k.admitted
            /\ k.answer = "none" /\ k.seen = call[c].seen /\ k.hits = 0 /\ k.tries = call[c].tries
        BY <1>2, <2>1 DEF CallOK, CallTyped, CallType
      <3>2. "enabled" \in call[c].seen /\ "connected" \in call[c].seen
        BY <1>2, <2>1 DEF Admit, Permitted, Facts
      <3>3. k.tool.level = "write" => "writable" \in call[c].seen
        BY <1>2, <3>1 DEF Admit, Permitted, Facts
      <3>4. CallTyped(k)
        BY <1>2, <3>1 DEF CallOK, CallTyped
      <3>5. Allowed(k)
        BY <3>1, <3>2, <3>3 DEF Allowed
      <3>6. Counted(k)
        BY <1>2, <3>1 DEF CallOK, Counted, InChange
      <3> QED
        BY <3>1, <3>4, <3>5, <3>6 DEF CallOK
    <2>2. CASE ~connected
      <3>1. CallOK(Answered(call[c], "refused"))
        BY <1>2, AnsweredOK DEF CallOK, Counted
      <3>2. Answered(call[c], "refused").seen = call[c].seen
        BY <1>2 DEF Answered, CallOK, CallTyped, CallType
      <3> QED
        BY <2>2, <3>1, <3>2
    <2> QED
      BY <2>1, <2>2
  <1>4. PICK kept : Pruned(kept) /\ Len(kept) < RateLimit /\ rate' = Append(kept, clock)
    BY DEF Admit
  <1>5. /\ Become(c, k) /\ clock' = clock /\ admissions' = Append(admissions, clock)
    BY DEF Admit, Become
  <1>6. /\ admissions \in Seq(Nat) /\ clock \in Nat /\ n \in Nat
        /\ RateLimit \in Nat \ {0} /\ RateWindow \in Nat
    BY BoundAssumption DEF Inv, TypeOK
  <1>7. /\ kept \in Seq(Nat) /\ Len(kept) \in Nat /\ Len(kept) <= n
        /\ \A i \in 1..Len(kept) : kept[i] = admissions[(n - Len(kept)) + i]
        /\ \A i \in 1..(n - Len(kept)) : Expired(admissions[i])
    BY <1>4, PrunedWindow
  <1>8. /\ rate' \in Seq(Nat) /\ Len(rate') = Len(kept) + 1
        /\ \A i \in 1..Len(kept) : rate'[i] = kept[i]
        /\ rate'[Len(kept) + 1] = clock
    BY <1>4, <1>6, <1>7
  <1>9. /\ admissions' \in Seq(Nat) /\ Len(admissions') = n + 1
        /\ \A i \in 1..n : admissions'[i] = admissions[i]
        /\ admissions'[n + 1] = clock
    BY <1>5, <1>6
  <1> HIDE DEF k
  <1>10. TypeOK' /\ CallsOK'
    BY <1>2, <1>3, <1>5, <1>8, <1>9, BecomeOK
  <1>11. Window'
    <2>1. (Dropped)' = n - Len(kept)
      BY <1>6, <1>7, <1>8, <1>9 DEF Dropped
    <2>2. (Dropped)' >= 0
      BY <1>6, <1>7, <2>1
    <2>3. \A i \in 1..Len(rate') : rate'[i] = admissions'[(Dropped)' + i]
      <3>1. SUFFICES ASSUME NEW i \in 1..(Len(kept) + 1)
                     PROVE  rate'[i] = admissions'[(n - Len(kept)) + i]
        BY <1>8, <2>1
      <3>2. CASE i = Len(kept) + 1
        <4>1. (n - Len(kept)) + i = n + 1
          BY <1>6, <1>7, <3>2
        <4> QED
          BY <1>8, <1>9, <3>2, <4>1
      <3>3. CASE i \in 1..Len(kept)
        <4>1. (n - Len(kept)) + i \in 1..n
          BY <1>6, <1>7, <3>3
        <4> QED
          BY <1>7, <1>8, <1>9, <3>3, <4>1
      <3> QED
        BY <1>7, <3>2, <3>3
    <2>4. \A i \in 1..(Dropped)' : Expired(admissions[i]) /\ admissions'[i] = admissions[i]
      <3>1. \A i \in 1..(n - Len(kept)) : i \in 1..n
        BY <1>6, <1>7
      <3> QED
        BY <1>7, <1>9, <2>1, <3>1
    <2>5. \A i \in 1..(Dropped)' : (Expired(admissions[i]))'
      <3>1. SUFFICES ASSUME NEW i \in 1..(Dropped)' PROVE admissions'[i] + RateWindow < clock'
        BY DEF Expired
      <3> QED
        BY <1>5, <2>4 DEF Expired
    <2>6. \A i \in 1..Len(admissions') : admissions'[i] <= clock'
      BY <1>5, <1>6, <1>9 DEF Inv, Window
    <2>7. \A i, j \in 1..Len(admissions') : i <= j => admissions'[i] <= admissions'[j]
      <3>1. SUFFICES ASSUME NEW i \in 1..(n + 1), NEW j \in 1..(n + 1), i <= j
                     PROVE  admissions'[i] <= admissions'[j]
        BY <1>9
      <3>2. CASE j = n + 1
        BY <1>5, <1>9, <2>6, <3>2
      <3>3. CASE j # n + 1
        <4>1. i \in 1..n /\ j \in 1..n
          BY <1>6, <3>1, <3>3
        <4> QED
          BY <1>9, <3>1, <4>1 DEF Inv, Window
      <3> QED
        BY <3>2, <3>3
    <2> QED
      BY <2>2, <2>3, <2>5, <2>6, <2>7 DEF Window
  <1>12. RateHeld'
    <2>1. SUFFICES ASSUME NEW i \in 1..(n + 1), i + RateLimit \in 1..(n + 1)
                   PROVE  admissions'[i] + RateWindow < admissions'[i + RateLimit]
      BY <1>6, <1>9 DEF RateHeld
    <2>2. i \in 1..n /\ admissions'[i] = admissions[i]
      <3>1. i \in 1..n
        BY <1>6, <2>1
      <3> QED
        BY <1>9, <3>1
    <2>3. CASE i + RateLimit = n + 1
      <3>1. i \in 1..(n - Len(kept))
        BY <1>4, <1>6, <1>7, <2>2, <2>3
      <3>2. admissions[i] + RateWindow < clock
        BY <1>7, <3>1 DEF Expired
      <3> QED
        BY <1>9, <2>2, <2>3, <3>2
    <2>4. CASE i + RateLimit # n + 1
      <3>1. i + RateLimit \in 1..n
        BY <1>6, <2>1, <2>4
      <3>2. admissions'[i + RateLimit] = admissions[i + RateLimit]
        BY <1>9, <3>1
      <3>3. admissions[i] + RateWindow < admissions[i + RateLimit]
        <4>1. RateHeld /\ DOMAIN admissions = 1..n
          BY <1>6 DEF Inv
        <4> QED
          BY <2>2, <3>1, <4>1 DEF RateHeld
      <3> QED
        BY <2>2, <3>2, <3>3
    <2> QED
      BY <2>3, <2>4
  <1> QED
    BY <1>10, <1>11, <1>12 DEF Inv

(* The cleanup looks at the last entry only: the others are no younger.     *)
LEMMA CleanupStep ==
  ASSUME Inv, CleanupRateLimits
  PROVE  Inv'
  <1> DEFINE n == Len(admissions)
  <1>1. /\ rate \in Seq(Nat) /\ admissions \in Seq(Nat) /\ clock \in Nat
        /\ n \in Nat /\ Len(rate) \in Nat /\ RateWindow \in Nat
    BY BoundAssumption DEF Inv, TypeOK
  <1>2. rate' = <<>> /\ UNCHANGED <<offered, prefs, connected, clock, call, admissions>>
    BY DEF CleanupRateLimits
  <1>3. \A i \in 1..n : Expired(admissions[i])
    <2>1. CASE rate = <<>>
      BY <1>1, <2>1 DEF Inv, Window, Dropped
    <2>2. CASE rate # <<>>
      <3>1. Len(rate) \in 1..Len(rate) /\ n \in 1..n /\ Expired(rate[Len(rate)])
        BY <1>1, <2>2 DEF CleanupRateLimits, Inv, Window, Dropped
      <3>2. rate[Len(rate)] = admissions[n]
        BY <1>1, <3>1 DEF Inv, Window, Dropped
      <3>3. \A i \in 1..n : admissions[i] \in Nat /\ admissions[i] <= admissions[n]
        BY <1>1, <3>1 DEF Inv, Window
      <3> QED
        BY <1>1, <3>1, <3>2, <3>3 DEF Expired
    <2> QED
      BY <2>1, <2>2
  <1>4. TypeOK'
    BY <1>2 DEF Inv, TypeOK
  <1>5. CallsOK'
    BY <1>2 DEF Inv, CallsOK, UpToDate, Running
  <1>6. Window'
    <2>1. (Dropped)' = n /\ Len(rate') = 0
      BY <1>1, <1>2 DEF Dropped
    <2> QED
      BY <1>1, <1>2, <1>3, <2>1 DEF Inv, Window, Expired
  <1>7. RateHeld'
    BY <1>2 DEF Inv, RateHeld
  <1> QED
    BY <1>4, <1>5, <1>6, <1>7 DEF Inv

(* Time passes: entries of the window expire and none comes back.           *)
LEMMA TickStep ==
  ASSUME Inv, Tick
  PROVE  Inv'
  <1>1. /\ clock' = clock + 1 /\ clock \in Nat /\ RateWindow \in Nat
        /\ UNCHANGED <<offered, prefs, connected, rate, call, admissions>>
    BY BoundAssumption DEF Inv, TypeOK, Tick
  <1>2. TypeOK'
    BY <1>1 DEF Inv, TypeOK
  <1>3. CallsOK'
    BY <1>1 DEF Inv, CallsOK, UpToDate, Running
  <1>4. \A i \in 1..Len(admissions) : admissions[i] \in Nat
    BY DEF Inv, TypeOK
  <1>5. Len(admissions) \in Nat /\ Len(rate) \in Nat
    BY DEF Inv, TypeOK
  <1>6. Window'
    <2>1. (Dropped)' = Dropped /\ Dropped <= Len(admissions)
      BY <1>1, <1>5 DEF Dropped
    <2>2. \A i \in 1..Dropped : i \in 1..Len(admissions)
      BY <1>5, <2>1 DEF Dropped
    <2>3. \A i \in 1..Dropped : (Expired(admissions[i]))'
      BY <1>1, <1>4, <2>2 DEF Inv, Window, Expired
    <2>4. \A i \in 1..Len(admissions) : admissions[i] <= clock'
      BY <1>1, <1>4 DEF Inv, Window
    <2> QED
      BY <1>1, <2>1, <2>3, <2>4 DEF Inv, Window
  <1>7. RateHeld'
    BY <1>1 DEF Inv, RateHeld
  <1> QED
    BY <1>2, <1>3, <1>6, <1>7 DEF Inv

----------------------------------------------------------------------------
(* The specification *)

(* Nobody has called and nothing was admitted.                              *)
LEMMA Initially ==
  ASSUME Init
  PROVE  Inv
  <1>1. /\ Idle.tool = NoShape /\ Idle.at = 1 /\ ~Idle.admitted /\ Idle.answer = "none"
        /\ Idle.tries = 0 /\ Idle.seen = {} /\ ~Idle.sent /\ Idle.hits = 0
        /\ NoShape.steps = <<"check">>
    BY DEF Idle, NoShape
  <1>2. Idle \in CallType
    <2>1. 0 \in 0..MaxRetries
      BY BoundAssumption
    <2> QED
      BY <2>1 DEF Idle, CallType
  <1>3. CallOK(Idle)
    <2>1. CallTyped(Idle)
      BY <1>1, <1>2 DEF CallTyped
    <2>2. Allowed(Idle)
      BY <1>1 DEF Allowed, Passed
    <2>3. Counted(Idle)
      BY <1>1, BoundAssumption DEF Counted
    <2> QED
      BY <2>1, <2>2, <2>3 DEF CallOK
  <1>4. offered \subseteq Shapes
    BY DEF Init, Shapes
  <1>5. \A c \in Calls : call[c] = Idle
    BY DEF Init
  <1>6. TypeOK
    <2>1. call \in [Calls -> CallType]
      BY <1>2 DEF Init
    <2>2. \A c \in Calls : call[c].at \in DOMAIN call[c].tool.steps
      BY <1>3, <1>5 DEF CallOK, CallTyped
    <2>3. prefs \in [enabled : BOOLEAN, mode : {"read", "readwrite"}] /\ connected \in BOOLEAN
      BY DEF Init, Default
    <2>4. rate \in Seq(Nat) /\ admissions \in Seq(Nat) /\ clock \in Nat
      BY DEF Init
    <2> QED
      BY <1>4, <2>1, <2>2, <2>3, <2>4 DEF TypeOK
  <1>7. CallsOK
    BY <1>1, <1>3, <1>5 DEF CallsOK, UpToDate, Running
  <1>8. Window /\ RateHeld
    BY DEF Init, Window, RateHeld, Dropped
  <1> QED
    BY <1>6, <1>7, <1>8 DEF Inv

(* Every step keeps the invariant.                                          *)
LEMMA NextStep ==
  ASSUME Inv, [Next]_vars
  PROVE  Inv'
  <1>1. CASE \E c \in Calls : CallStep(c)
    <2>1. PICK c \in Calls : CallStep(c)
      BY <1>1
    <2>2. CASE \E tool \in offered : Start(c, tool)
      BY <2>2, StartStep
    <2>3. CASE Deny(c)
      BY <2>3, DenyStep
    <2>4. CASE Throttle(c)
      BY <2>4, ThrottleStep
    <2>5. CASE Admit(c)
      BY <2>5, AdmitStep
    <2>6. CASE \/ Check(c) \/ GetClient(c) \/ ReadField(c) \/ ReadApi(c) \/ ReadToken(c)
              \/ SiteKnown(c) \/ Direct(c)
      BY <2>6, LocalSteps
    <2>7. CASE BreakerRefuses(c) \/ Reject(c) \/ FailUnretried(c)
      BY <2>7, FailingSteps
    <2>8. CASE Succeed(c)
      BY <2>8, SucceedStep
    <2>9. CASE \E lost \in BOOLEAN : Transient(c, lost)
      BY <2>9, TransientStep
    <2>10. CASE Interrupt(c)
      BY <2>10, InterruptStep
    <2>11. CASE \E done \in BOOLEAN : Break(c, done)
      BY <2>11, BreakStep
    <2> QED
      BY <2>1, <2>2, <2>3, <2>4, <2>5, <2>6, <2>7, <2>8, <2>9, <2>10, <2>11 DEF CallStep
  <1>2. CASE UserStep
    BY <1>2, UserSteps
  <1>3. CASE CleanupRateLimits
    BY <1>3, CleanupStep
  <1>4. CASE Tick
    BY <1>4, TickStep
  <1>5. CASE UNCHANGED vars
    <2>1. UNCHANGED <<offered, prefs, connected, rate, clock, call, admissions>>
      BY <1>5 DEF vars
    <2>2. TypeOK' /\ CallsOK'
      BY <2>1 DEF Inv, TypeOK, CallsOK, UpToDate, Running
    <2> QED
      BY <2>1, <2>2, WindowKept DEF Inv
  <1> QED
    BY <1>1, <1>2, <1>3, <1>4, <1>5 DEF Next

(* The invariant holds at first and is kept by every step.                  *)
THEOREM AlwaysInv == Spec => []Inv
  BY Initially, NextStep, PTL DEF Spec

(* Every variable of the tool calls keeps its type.                         *)
THEOREM ToolsTypeCorrect == Spec => []TypeOK
  <1>1. Inv => TypeOK
    BY DEF Inv
  <1> QED
    BY <1>1, AlwaysInv, PTL

(* Whichever tools there are and whenever their user changes the settings,  *)
(* check_permission and require_service let a call reach the service only   *)
(* if it was connected, enabled and, for a change, writable during the call.*)
THEOREM AlwaysAllowed == Spec => []ReachedAsAllowed
  <1>1. Inv => ReachedAsAllowed
    BY DEF Inv, CallsOK, CallOK, Allowed, ReachedAsAllowed
  <1> QED
    BY <1>1, AlwaysInv, PTL

(* A tool that answers with success has carried its change out and one that *)
(* refuses has not; whatever safe_request has sent again, and wherever the  *)
(* call is cancelled or raises, no attempt has carried it out twice.        *)
THEOREM AnswersAlwaysTrue == Spec => []AnswersAreTrue
  <1>1. Inv => AnswersAreTrue
    <2>1. SUFFICES ASSUME Inv, NEW c \in Calls
                   PROVE  /\ call[c].answer = "ok" /\ "change" \in StepsOf(call[c].tool)
                                => call[c].hits > 0
                          /\ call[c].answer = "refused" => call[c].hits = 0
                          /\ call[c].hits <= call[c].tries + 1
                          /\ call[c].tries <= MaxRetries
      BY DEF AnswersAreTrue
    <2>2. Counted(call[c]) /\ call[c].tries \in 0..MaxRetries
      BY <2>1 DEF Inv, CallsOK, CallOK, CallTyped, CallType
    <2> QED
      BY <2>2, BoundAssumption DEF Counted
  <1> QED
    BY <1>1, AlwaysInv, PTL

(* For every limit and window: _check_service_rate_limit, with its pruning  *)
(* and the cleanup, admits no more than the limit in any window.            *)
THEOREM RateAlwaysHeld == Spec => []RateHeld
  <1>1. Inv => RateHeld
    BY DEF Inv
  <1> QED
    BY <1>1, AlwaysInv, PTL
=============================================================================
