----------------------------- MODULE ToolCalls -----------------------------
(***************************************************************************)
(* The tools of one service, called by one user: token_store.py and        *)
(* connectors/microsoft.py from check_permission to the last request.      *)
(* Calls of tools overlap with one another and with the calls by which the *)
(* user enables, disables, connects and disconnects the service, because   *)
(* every step of a tool awaits.  The breaker, the pool, the token cache    *)
(* and the paging of listings have modules of their own; here each only    *)
(* decides whether a step succeeds.                                        *)
(***************************************************************************)
EXTENDS Naturals, Sequences

CONSTANTS
    Tools,        \* records [service, level, steps], see ConnectorTools
    Calls,        \* tool calls (slots, reused)
    MaxRetries,   \* _MAX_RETRIES
    RateLimit,    \* _SERVICE_RATE_LIMIT
    RateWindow,   \* _SERVICE_RATE_WINDOW, in ticks
    MaxClock      \* bound of the clock

StepNames == {"check", "service", "graph", "creds", "api", "token", "site", "get", "tryget",
              "each", "pages", "fetch", "direct", "change"}
Admission == {"service", "graph"}
StepsOf(tool) == {tool.steps[i] : i \in DOMAIN tool.steps}
Shape(tool) == [level |-> tool.level, steps |-> tool.steps]
Shapes == {Shape(tool) : tool \in Tools}

(* What the definitions of the tools owe to those who call them: a tool     *)
(* asks for permission before it asks for anything else, one that changes   *)
(* the service asks for "write", and the change is one request, the last.   *)
ASSUME ToolAssumption ==
    \A s \in Shapes :
        /\ s.level \in {"read", "write"}
        /\ s.steps \in Seq(StepNames) /\ s.steps # <<>>
        /\ \A i \in DOMAIN s.steps :
               /\ s.steps[i] \notin Admission \cup {"check"} =>
                      \E j \in 1..(i - 1) : s.steps[j] \in Admission
               /\ s.steps[i] = "change" => i = Len(s.steps) /\ s.level = "write"

ASSUME BoundAssumption ==
    /\ MaxRetries \in Nat
    /\ RateLimit \in Nat \ {0}
    /\ RateWindow \in Nat /\ MaxClock \in Nat

VARIABLES
    offered,     \* the shapes of the service's tools; never changes
    prefs,       \* the service's preferences; unset ones read as the default
    connected,   \* credentials, or a Microsoft token, are stored
    rate,        \* _service_rate of the user and service: times of admission
    clock,
    call,        \* the local state of each call
    admissions   \* history: the time of every admission

vars == <<offered, prefs, connected, rate, clock, call, admissions>>

Default == [enabled |-> TRUE, mode |-> "read"]
NoShape == [level |-> "read", steps |-> <<"check">>]

(* What is true of the service now, as far as a call may rely on it.        *)
Facts(p, con) == {f \in {"enabled", "writable", "connected"} :
                    \/ f = "enabled" /\ p.enabled
                    \/ f = "writable" /\ p.enabled /\ p.mode = "readwrite"
                    \/ f = "connected" /\ con}

(* seen gathers the facts that held at some time during the call, sent says *)
(* whether it made a request, hits how often its change was carried out.    *)
Idle == [tool |-> NoShape, at |-> 1, admitted |-> FALSE, tries |-> 0, answer |-> "none",
         seen |-> {}, sent |-> FALSE, hits |-> 0]

Running(c) == call[c].answer = "none" /\ call[c].tool # NoShape
At(c, step) == Running(c) /\ call[c].tool.steps[call[c].at] = step

Init ==
    /\ offered \in {{Shape(t) : t \in {u \in Tools : u.service = s}} :
                        s \in {t.service : t \in Tools}}
    /\ prefs = Default
    /\ connected = FALSE
    /\ rate = <<>>
    /\ clock = 0
    /\ call = [c \in Calls |-> Idle]
    /\ admissions = <<>>

----------------------------------------------------------------------------
(* What a step may do to its call *)

Answered(k, a) == [k EXCEPT !.answer = a]
Moved(k) == IF k.at = Len(k.tool.steps) THEN Answered(k, "ok")
            ELSE [k EXCEPT !.at = @ + 1, !.tries = 0]

Become(c, k) ==
    /\ call' = [call EXCEPT ![c] = k]
    /\ UNCHANGED <<offered, prefs, connected, clock>>

Start(c, tool) ==
    /\ ~Running(c)
    /\ Become(c, [Idle EXCEPT !.tool = tool, !.seen = Facts(prefs, connected)])
    /\ UNCHANGED <<rate, admissions>>

Check(c) ==
    /\ At(c, "check")
    /\ Become(c, Moved(call[c])) \/ Become(c, Answered(call[c], "refused"))
    /\ UNCHANGED <<rate, admissions>>

----------------------------------------------------------------------------
(* check_permission, from where require_user has returned, and what follows *)
(* it without an await *)

Expired(t) == t + RateWindow < clock

(* while entries and entries[0] < cutoff: entries.popleft()                 *)
Pruned(kept) ==
    \E k \in 0..Len(rate) :
        /\ \A i \in 1..k : Expired(rate[i])
        /\ k < Len(rate) => ~Expired(rate[k + 1])
        /\ kept = SubSeq(rate, k + 1, Len(rate))

(* Mutant: the mode is not looked at.                                       *)
BadPermitted(tool) == prefs.enabled

Permitted(tool) == prefs.enabled /\ (tool.level = "write" => prefs.mode = "readwrite")

(* Nobody is signed in, or the preferences say no.                          *)
Deny(c) ==
    /\ \E step \in Admission : At(c, step)
    /\ ~call[c].admitted
    /\ Become(c, Answered(call[c], "refused"))
    /\ UNCHANGED <<rate, admissions>>

(* A call over the limit prunes, is refused, and leaves no entry.           *)
Throttle(c) ==
    /\ \E step \in Admission : At(c, step)
    /\ ~call[c].admitted
    /\ Permitted(call[c].tool)
    /\ \E kept \in {SubSeq(rate, k + 1, Len(rate)) : k \in 0..Len(rate)} :
           Pruned(kept) /\ Len(kept) >= RateLimit /\ rate' = kept
    /\ Become(c, Answered(call[c], "refused"))
    /\ UNCHANGED admissions

(* A call without credentials has used up an entry all the same.            *)
Admit(c) ==
    /\ \E step \in Admission : At(c, step)
    /\ ~call[c].admitted
    /\ Permitted(call[c].tool)
    /\ \E kept \in {SubSeq(rate, k + 1, Len(rate)) : k \in 0..Len(rate)} :
           Pruned(kept) /\ Len(kept) < RateLimit /\ rate' = Append(kept, clock)
    /\ admissions' = Append(admissions, clock)
    /\ Become(c, IF connected THEN [call[c] EXCEPT !.admitted = TRUE]
                 ELSE Answered(call[c], "refused"))

(* build_client, or ensure_auth and get_client, is awaited.  It fails when  *)
(* fields are missing, a URL is invalid or a token cannot be refreshed.     *)
GetClient(c) ==
    /\ \E step \in Admission : At(c, step)
    /\ call[c].admitted
    /\ Become(c, Moved(call[c])) \/ Become(c, Answered(call[c], "refused"))
    /\ UNCHANGED <<rate, admissions>>

----------------------------------------------------------------------------
(* The credentials once more: gone after a disconnect during GetClient *)

(* get_credentials(...).get(field, ""), which does not mind.                *)
ReadField(c) ==
    /\ At(c, "creds")
    /\ Become(c, Moved(call[c]))
    /\ UNCHANGED <<rate, admissions>>

(* _api raises ValueError without a valid subdomain, and the tool answers.  *)
ReadApi(c) ==
    /\ At(c, "api")
    /\ \/ connected /\ Become(c, Moved(call[c]))
       \/ Become(c, Answered(call[c], "refused"))
    /\ UNCHANGED <<rate, admissions>>

(* creds["account_id"] raises a KeyError that nobody catches.               *)
ReadToken(c) ==
    /\ At(c, "token")
    /\ IF connected THEN Become(c, Moved(call[c])) \/ Become(c, Answered(call[c], "error"))
       ELSE Become(c, Answered(call[c], "raised"))
    /\ UNCHANGED <<rate, admissions>>

----------------------------------------------------------------------------
(* Requests *)

Sent(k) == [k EXCEPT !.sent = TRUE]
Again(k) == [Sent(k) EXCEPT !.tries = @ + 1]
(* Mutant: attempt >= max_retries is looked at once too late.               *)
BadCanRetry(k) == k.tries <= MaxRetries
CanRetry(k) == k.tries < MaxRetries
Applied(k) == IF k.tool.steps[k.at] = "change" THEN [k EXCEPT !.hits = @ + 1] ELSE k

(* Mutant: the error of a change is passed over.                            *)
BadFailed(k) == IF k.tool.steps[k.at] \in {"get", "fetch", "site"}
                THEN Answered(k, "error") ELSE Moved(k)

(* The final failure of a request, and its success.                         *)
Failed(k) == IF k.tool.steps[k.at] \in {"get", "change", "fetch", "site"}
             THEN Answered(k, "error") ELSE Moved(k)

Retried == {"get", "tryget", "change"}
Unretried == {"site", "fetch", "each", "pages"}

(* safe_request: the breaker lets no request out.                           *)
BreakerRefuses(c) ==
    /\ \E step \in Retried : At(c, step)
    /\ call[c].tries = 0
    /\ Become(c, Failed(call[c]))
    /\ UNCHANGED <<rate, admissions>>

(* The answer arrives.                                                      *)
Succeed(c) ==
    /\ \E step \in Retried \cup Unretried : At(c, step)
    /\ Become(c, Moved(Applied(Sent(call[c]))))
    /\ UNCHANGED <<rate, admissions>>

(* A 429, a 5xx or a network error: sent again, and given up at last.       *)
(* With lost, the service has carried the request out nevertheless.         *)
Transient(c, lost) ==
    LET k == IF lost THEN Applied(call[c]) ELSE call[c] IN
    /\ \E step \in Retried : At(c, step)
    /\ IF CanRetry(k) THEN Become(c, Again(k)) ELSE Become(c, Failed(Sent(k)))
    /\ UNCHANGED <<rate, admissions>>

(* Any other 4xx, or a ValueError.                                          *)
Reject(c) ==
    /\ \E step \in Retried : At(c, step)
    /\ Become(c, Failed(Sent(call[c])))
    /\ UNCHANGED <<rate, admissions>>

(* Requests outside safe_request, and listings, whose errors end the        *)
(* listing.  The site may be known, then nothing is sent.                   *)
FailUnretried(c) ==
    /\ \E step \in Unretried : At(c, step)
    /\ Become(c, Failed(Sent(call[c])))
    /\ UNCHANGED <<rate, admissions>>

SiteKnown(c) ==
    /\ At(c, "site")
    /\ Become(c, Moved(call[c])) \/ Become(c, Answered(call[c], "refused"))
    /\ UNCHANGED <<rate, admissions>>

(* client.get on a PooledClient: AttributeError.                            *)
Direct(c) ==
    /\ At(c, "direct")
    /\ Become(c, Answered(call[c], "raised"))
    /\ UNCHANGED <<rate, admissions>>

(* The call is cancelled where it waits - for require_user, a client, a     *)
(* token, an answer, or the next attempt - or ends with an exception that   *)
(* nobody catches.                                                          *)
Interrupt(c) ==
    /\ \E step \in Admission \cup {"token"} \cup Retried \cup Unretried : At(c, step)
    /\ Become(c, Answered(call[c], "raised"))
    /\ UNCHANGED <<rate, admissions>>

(* So does one whose request is out: safe_request passes on what is neither *)
(* an httpx error nor a ValueError, and no tool guards the r.json() of a    *)
(* change, nor what it takes out of it.  So the service may have carried    *)
(* the request out.                                                         *)
Break(c, done) ==
    LET k == IF done THEN Applied(call[c]) ELSE call[c] IN
    /\ \E step \in Retried \cup Unretried : At(c, step)
    /\ Become(c, Answered(Sent(k), "raised"))
    /\ UNCHANGED <<rate, admissions>>

----------------------------------------------------------------------------
(* The user's settings: server.py.  Each reads the preferences and writes   *)
(* them back without an await. *)

Set(p, con) ==
    /\ prefs' = p
    /\ connected' = con
    /\ call' = [c \in Calls |-> IF Running(c) THEN [call[c] EXCEPT !.seen = @ \cup Facts(p, con)]
                                ELSE call[c]]
    /\ UNCHANGED <<offered, rate, clock, admissions>>

Enable == Set([prefs EXCEPT !.enabled = TRUE], connected)
Disable == Set([prefs EXCEPT !.enabled = FALSE], connected)
SetMode(mode) == Set([prefs EXCEPT !.mode = mode], connected)

(* set_credentials enables the service in read mode if it has no            *)
(* preferences yet, which is what unset ones are read as; so does a         *)
(* finished sign-in, without touching preferences.                          *)
Connect == Set(prefs, TRUE)

(* asibot_disconnect does not reach the token of the Microsoft services.    *)
Disconnect ==
    /\ \A tool \in offered : "graph" \notin StepsOf(tool)
    /\ Set(prefs, FALSE)

(* Mutant: what has been there for longest decides.                         *)
BadCleanupRateLimits ==
    /\ rate # <<>> => Expired(rate[1])
    /\ rate' = <<>>
    /\ UNCHANGED <<offered, prefs, connected, clock, call, admissions>>

(* cleanup_rate_limits                                                      *)
CleanupRateLimits ==
    /\ rate # <<>> => Expired(rate[Len(rate)])
    /\ rate' = <<>>
    /\ UNCHANGED <<offered, prefs, connected, clock, call, admissions>>

Tick ==
    /\ clock < MaxClock
    /\ clock' = clock + 1
    /\ UNCHANGED <<offered, prefs, connected, rate, call, admissions>>

CallStep(c) ==
    \/ \E tool \in offered : Start(c, tool)
    \/ Check(c)
    \/ Deny(c) \/ Throttle(c) \/ Admit(c) \/ GetClient(c)
    \/ ReadField(c) \/ ReadApi(c) \/ ReadToken(c)
    \/ BreakerRefuses(c) \/ Succeed(c) \/ Reject(c)
    \/ \E lost \in BOOLEAN : Transient(c, lost)
    \/ FailUnretried(c) \/ SiteKnown(c) \/ Direct(c)
    \/ Interrupt(c) \/ \E done \in BOOLEAN : Break(c, done)

UserStep ==
    \/ Enable \/ Disable \/ \E mode \in {"read", "readwrite"} : SetMode(mode)
    \/ Connect \/ Disconnect

Next == (\E c \in Calls : CallStep(c)) \/ UserStep \/ CleanupRateLimits \/ Tick

Spec == Init /\ [][Next]_vars

----------------------------------------------------------------------------
(* Properties *)

CallType == [tool : Shapes \cup {NoShape}, at : Nat, admitted : BOOLEAN, tries : 0..MaxRetries,
             answer : {"none", "ok", "refused", "error", "raised"},
             seen : SUBSET {"enabled", "writable", "connected"}, sent : BOOLEAN, hits : Nat]

TypeOK ==
    /\ offered \subseteq Shapes
    /\ prefs \in [enabled : BOOLEAN, mode : {"read", "readwrite"}]
    /\ connected \in BOOLEAN
    /\ rate \in Seq(Nat) /\ admissions \in Seq(Nat) /\ clock \in Nat
    /\ call \in [Calls -> CallType]
    /\ \A c \in Calls : call[c].at \in DOMAIN call[c].tool.steps

(* A service is sent a request only for a user who had it connected and     *)
(* enabled, and is changed only for one who had set it to readwrite, at     *)
(* some time during that very call - however the settings are changed while *)
(* calls are under way, and whichever of the tools is called.               *)
ReachedAsAllowed ==
    \A c \in Calls :
        /\ call[c].sent => {"enabled", "connected"} \subseteq call[c].seen
        /\ call[c].hits > 0 => "writable" \in call[c].seen

(* What the answer of a call says of the change it was to make: after a     *)
(* success it was carried out, after a refusal it was not, and retries      *)
(* carry it out at most once per attempt.  An error and an exception leave  *)
(* open whether it was, and how often.                                      *)
AnswersAreTrue ==
    \A c \in Calls :
        /\ call[c].answer = "ok" /\ "change" \in StepsOf(call[c].tool) => call[c].hits > 0
        /\ call[c].answer = "refused" => call[c].hits = 0
        /\ call[c].hits <= call[c].tries + 1 /\ call[c].tries <= MaxRetries

(* No more than RateLimit calls are admitted in any window, wherever it     *)
(* begins, and whatever is pruned and cleaned up.                           *)
RateHeld ==
    \A i \in DOMAIN admissions :
        i + RateLimit \in DOMAIN admissions =>
            admissions[i] + RateWindow < admissions[i + RateLimit]
=============================================================================
