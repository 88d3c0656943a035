----------------------------- MODULE QBRequest -----------------------------
(***************************************************************************)
(* The path of a data call through an instance to QBO: the process-wide    *)
(* limiter, QBClient._request (api/client.py) with its resends after a 429 *)
(* and a 401, and the error envelope that the routes build from what came  *)
(* back (errors.py, routes/_common.py).                                    *)
(*                                                                         *)
(* A call makes one QBO request (a list, a get, a create) or two (a write  *)
(* that reads first).  Getting and refreshing tokens is one step here;     *)
(* TokenLifecycle has it in full.  try_acquire() is one step because it    *)
(* holds its lock; TokenBucket has its inside.                             *)
(*                                                                         *)
(* QBO is external: it may answer 429 at any time, because other programs  *)
(* and other instances use up the realm's limit too, and it answers 401 to *)
(* a bearer token that has died.                                           *)
(***************************************************************************)
EXTENDS BucketOps

CONSTANTS
    Calls,          \* the HTTP requests
    Requests,       \* Requests[c]: how many QBO requests c makes, 1 or 2
    Faults,         \* the faults that may happen in a run
    MaxDeaths,      \* bound on how often the bearer token dies
    MaxClock        \* bound on the clock

\* "lost": a request or its answer is lost.  "fault": QBO rejects a request.
\* "failure": QBO fails, before or after a write took effect.  "auth": no
\* usable token can be had.
FaultKinds == {"lost", "fault", "failure", "auth"}

ASSUME CallAssumption ==
    /\ Requests \in [Calls -> {1, 2}]
    /\ Faults \subseteq FaultKinds
    /\ {MaxClock, MaxDeaths} \subseteq Nat

VARIABLES
    clock,
    bucket,     \* the process-wide limiter
    live,       \* the bearer token that QBO accepts
    pc,         \* where each call is
    request,    \* per call: which of its QBO requests it makes
    bearer,     \* per call: the bearer token it presents
    tid,        \* per call: intuit_tid in its context, by the request that set it
    answer,     \* per call: the answer of the route
    applied     \* history, per call: how often its last request took effect

vars == <<clock, bucket, live, pc, request, bearer, tid, answer, applied>>

NoTid == 0
NoAnswer == [status |-> "none", tid |-> NoTid]

Init ==
    /\ clock = 0
    /\ bucket = [units |-> Full, last |-> 0]
    /\ live = 1
    /\ pc = [c \in Calls |-> "acquire"]
    /\ request = [c \in Calls |-> 1]
    /\ bearer = [c \in Calls |-> 0]
    /\ tid = [c \in Calls |-> NoTid]
    /\ answer = [c \in Calls |-> NoAnswer]
    /\ applied = [c \in Calls |-> 0]
---------------------------------------------------------------------------
(* The answers *)

\* The routes catch each exception inline and build the envelope from its
\* message; the tid is the one in the call's context.
Answer(c, status) ==
    /\ answer' = [answer EXCEPT ![c] = [status |-> status, tid |-> tid'[c]]]
    /\ pc' = [pc EXCEPT ![c] = "done"]

\* What escapes the route is answered by the handler outside its context.
Escape(c) ==
    /\ answer' = [answer EXCEPT ![c] = [NoAnswer EXCEPT !.status = "error"]]
    /\ pc' = [pc EXCEPT ![c] = "done"]
---------------------------------------------------------------------------
(* Before the request goes out *)

\* One token of the limiter per QBO request, or a local denial.
Acquire(c) ==
    LET units == Refilled(bucket.units, bucket.last, clock)
    IN  /\ pc[c] = "acquire"
        /\ bucket' = [units |-> IF units >= Unit THEN units - Unit ELSE units,
                        last |-> clock]
        /\ UNCHANGED tid
        /\ IF units >= Unit
           THEN /\ pc' = [pc EXCEPT ![c] = "tokens"]
                /\ UNCHANGED answer
           ELSE Answer(c, "denied")
        /\ UNCHANGED <<clock, live, request, bearer, applied>>

\* The client of a call keeps the tokens of its first request, unless they
\* have expired by the time of the second.
EnsureTokens(c) ==
    /\ pc[c] = "tokens"
    /\ \E token \in {bearer[c], live} \ {0} : bearer' = [bearer EXCEPT ![c] = token]
    /\ pc' = [pc EXCEPT ![c] = "send"]
    /\ UNCHANGED <<clock, bucket, live, request, tid, answer, applied>>

\* Not authenticated, or the refresh of an expired token failed.
NoTokens(c) ==
    /\ "auth" \in Faults
    /\ pc[c] = "tokens"
    /\ UNCHANGED tid
    /\ Answer(c, "unavailable")
    /\ UNCHANGED <<clock, bucket, live, request, bearer, applied>>
---------------------------------------------------------------------------
(* QBO's answers, and what _request makes of each *)

\* A request goes out from "send", from "resend" after the sleep that a 429
\* asks for, and from "last" after the refresh that a 401 asks for.
Sending(c) == pc[c] \in {"send", "resend", "last"}

Serves(c) ==
    /\ Sending(c)
    /\ bearer[c] = live

\* Only the last request of a call writes.
Writes(c) == request[c] = Requests[c]
Apply(c) == applied' = IF Writes(c) THEN [applied EXCEPT ![c] = @ + 1] ELSE applied

\* Seeded bug: a context keeps the first tid it was given.
CaptureMutantFirst(c) == tid' = [tid EXCEPT ![c] = IF @ = NoTid THEN request[c] ELSE @]

Capture(c) == tid' = [tid EXCEPT ![c] = request[c]]

\* A 2xx: on to the second request, or done.
Succeeds(c) ==
    /\ Serves(c)
    /\ Apply(c)
    /\ Capture(c)
    /\ IF Writes(c)
       THEN Answer(c, "ok") /\ UNCHANGED request
       ELSE /\ request' = [request EXCEPT ![c] = 2]
            /\ pc' = [pc EXCEPT ![c] = "acquire"]
            /\ UNCHANGED answer
    /\ UNCHANGED <<clock, bucket, live, bearer>>

\* Another 4xx, which QBO sends of what it did not do: an APIError.  For a fault
\* that the route knows (stale, duplicate, not found) it is a 409 or a 404, for
\* any other a 502.
Faulted(c) ==
    /\ "fault" \in Faults
    /\ Serves(c)
    /\ Capture(c)
    /\ \E status \in {"rejected", "qbo_error"} : Answer(c, status)
    /\ UNCHANGED <<clock, bucket, live, request, bearer, applied>>

\* Seeded bug: a 5xx is sent again like a 429.
InconclusiveMutantResend(c) ==
    /\ "failure" \in Faults
    /\ pc[c] = "send"
    /\ UNCHANGED applied \/ (Serves(c) /\ Apply(c))
    /\ pc' = [pc EXCEPT ![c] = "resend"]
    /\ UNCHANGED <<clock, bucket, live, request, bearer, tid, answer>>

\* A 5xx, also an APIError, or a 2xx without the entity: a 502, whether or not
\* the write took effect.
Inconclusive(c) ==
    /\ "failure" \in Faults
    /\ Sending(c)
    /\ UNCHANGED applied \/ (Serves(c) /\ Apply(c))
    /\ Capture(c)
    /\ Answer(c, "qbo_error")
    /\ UNCHANGED <<clock, bucket, live, request, bearer>>

\* Seeded bug: a 429 is slept on however often it comes.
ThrottledMutantForever(c) ==
    /\ Sending(c)
    /\ pc' = [pc EXCEPT ![c] = "resend"]
    /\ UNCHANGED <<clock, bucket, live, request, bearer, tid, answer, applied>>

\* A 429: sleep and send again, once; the second is a RateLimitError.  The
\* third send, after a refresh, takes a 429 for any other fault.
Throttled(c) ==
    /\ Sending(c)
    /\ IF pc[c] = "send"
       THEN /\ pc' = [pc EXCEPT ![c] = "resend"]
            /\ UNCHANGED <<tid, answer>>
       ELSE /\ Capture(c)
            /\ Answer(c, IF pc[c] = "resend" THEN "throttled" ELSE "qbo_error")
    /\ UNCHANGED <<clock, bucket, live, request, bearer, applied>>

\* A 401: refresh and send again; the third send gives up.
Refused(c) ==
    /\ Sending(c)
    /\ bearer[c] # live
    /\ IF pc[c] = "last"
       THEN Capture(c) /\ Answer(c, "qbo_error")
       ELSE /\ pc' = [pc EXCEPT ![c] = "refused"]
            /\ UNCHANGED <<tid, answer>>
    /\ UNCHANGED <<clock, bucket, live, request, bearer, applied>>

\* Under the refresh lock: the live token, or the one that was refused when
\* the store still takes it for unexpired.
Refresh(c) ==
    /\ pc[c] = "refused"
    /\ \E token \in {bearer[c], live} : bearer' = [bearer EXCEPT ![c] = token]
    /\ pc' = [pc EXCEPT ![c] = "last"]
    /\ UNCHANGED <<clock, bucket, live, request, tid, answer, applied>>

\* The tid of the 401 is captured before the failure goes on.
RefreshFails(c) ==
    /\ "auth" \in Faults
    /\ pc[c] = "refused"
    /\ Capture(c)
    /\ Answer(c, "unavailable")
    /\ UNCHANGED <<clock, bucket, live, request, bearer, applied>>

\* An httpx error escapes, whether or not QBO got the request.
Lost(c) ==
    /\ "lost" \in Faults
    /\ Sending(c)
    /\ UNCHANGED applied \/ (Serves(c) /\ Apply(c))
    /\ Escape(c)
    /\ UNCHANGED <<clock, bucket, live, request, bearer, tid>>

Tick ==
    /\ clock < MaxClock
    /\ clock' = clock + 1
    /\ UNCHANGED <<bucket, live, pc, request, bearer, tid, answer, applied>>

\* The bearer token expires or is rotated.
BearerDies ==
    /\ live <= MaxDeaths
    /\ live' = live + 1
    /\ UNCHANGED <<clock, bucket, pc, request, bearer, tid, answer, applied>>

Prepare(c) == Acquire(c) \/ EnsureTokens(c) \/ NoTokens(c)
Send(c) == \/ Succeeds(c) \/ Faulted(c) \/ Inconclusive(c)
           \/ Throttled(c) \/ Refused(c) \/ Lost(c)
Step(c) == Prepare(c) \/ Send(c) \/ Refresh(c) \/ RefreshFails(c)

Done == (\A c \in Calls : pc[c] = "done") /\ UNCHANGED vars

Next == Tick \/ BearerDies \/ Done \/ \E c \in Calls : Step(c)

Spec == Init /\ [][Next]_vars
FairSpec == Spec /\ \A c \in Calls : WF_vars(Step(c))
---------------------------------------------------------------------------
(* Properties *)

\* Answers that say the write was refused (404, 409, 429, 503); a 502 or a 500
\* says nothing.
Refusals == {"denied", "throttled", "unavailable", "rejected"}

\* The resends repeat only what QBO rejected: through any 429s, 401s, deaths
\* of the token, lost answers and 5xx that follow the effect, a call's write
\* takes effect at most once, and exactly once if the call is answered ok, and
\* not at all if it is refused.
ResendsAreSafe ==
    \A c \in Calls :
        /\ applied[c] <= 1
        /\ answer[c].status = "ok" => applied[c] = 1
        /\ answer[c].status \in Refusals => applied[c] = 0

\* The envelope's intuit_tid is "Intuit's transaction id from the failing QBO
\* response" (schemas.py:34): an answer that passes on a failure of QBO names the
\* request that failed, not an earlier one of the same call.
Failures == {"rejected", "qbo_error"}
TidIsOfTheFailure ==
    \A c \in Calls : answer[c].status \in Failures => answer[c].tid = request[c]

\* QBO may throttle every send and refuse every token: the resends are
\* bounded, and every call is answered.
EveryCallAnswered == \A c \in Calls : <>(pc[c] = "done")
=============================================================================
