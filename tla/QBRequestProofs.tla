-------------------------- MODULE QBRequestProofs --------------------------
(***************************************************************************)
(* The resends of QBClient._request never repeat a write, for any number   *)
(* of calls, deaths of the token, 429s, 5xx and lost answers.              *)
(*                                                                         *)
(* The invariant: a call that is not done has neither an answer nor an     *)
(* effect.  So whatever a resend repeats was not applied.                  *)
(***************************************************************************)
EXTENDS QBRequest, TLAPS

\* What the steps of one call leave alone of the others, stated with DOMAINs
\* so that no type of a value is needed.
Shape ==
    /\ DOMAIN pc = Calls
    /\ DOMAIN answer = Calls
    /\ DOMAIN tid = Calls
    /\ DOMAIN request = Calls
    /\ applied \in [Calls -> Nat]

\* A call has no answer and no effect before it is done.
Untouched == \A c \in Calls :
    pc[c] # "done" => answer[c].status = "none" /\ applied[c] = 0

IInv == Shape /\ Untouched /\ ResendsAreSafe /\ TidIsOfTheFailure

LEMMA InitIInv == Init => IInv
BY DEF Init, IInv, Shape, Untouched, ResendsAreSafe, TidIsOfTheFailure, NoAnswer, Refusals,
       Failures

\* A step that leaves its call unanswered and its write undone.
LEMMA Onward ==
    ASSUME IInv, NEW c \in Calls, pc[c] # "done", NEW l, l # "done",
           pc' = [pc EXCEPT ![c] = l],
           answer' = answer, applied' = applied,
           tid' = tid \/ Capture(c), 
           request' = request \/ request' = [request EXCEPT ![c] = 2]
    PROVE  IInv'
<1>1. answer[c].status = "none"
  BY DEF IInv, Untouched
<1>2. Shape'
  BY DEF IInv, Shape, Capture
<1>3. Untouched' /\ ResendsAreSafe'
  BY <1>1 DEF IInv, Shape, Untouched, ResendsAreSafe
<1>4. TidIsOfTheFailure'
  <2> SUFFICES ASSUME NEW d \in Calls, answer[d].status \in Failures
               PROVE  answer[d].tid = request'[d]
    BY DEF TidIsOfTheFailure
  <2>1. d # c
    BY <1>1 DEF Failures
  <2>2. request'[d] = request[d]
    BY <2>1 DEF IInv, Shape
  <2> QED
    BY <2>2 DEF IInv, TidIsOfTheFailure
<1> QED
  BY <1>2, <1>3, <1>4 DEF IInv

\* A step that answers its call.  `effect` is whether the write took effect;
\* then the answer is no refusal; one that passes on a failure has its tid.
LEMMA Answered ==
    ASSUME IInv, NEW c \in Calls, pc[c] # "done",
           NEW status,
           Answer(c, status),
           request' = request,
           \/ tid' = tid /\ status \notin Failures
           \/ Capture(c),
           \/ applied' = applied /\ status # "ok"
           \/ applied' = [applied EXCEPT ![c] = @ + 1] /\ status \notin Refusals
    PROVE  IInv'
<1>1. /\ answer[c].status = "none" /\ applied[c] = 0
      /\ \A d \in Calls : d # c => answer'[d] = answer[d] /\ applied'[d] = applied[d]
                                   /\ pc'[d] = pc[d]
      /\ answer'[c].status = status /\ answer'[c].tid = tid'[c] /\ pc'[c] = "done"
  BY DEF IInv, Shape, Untouched, Answer
<1>2. Shape'
  BY DEF IInv, Shape, Capture, Answer
<1>3. Untouched'
  BY <1>1 DEF IInv, Untouched
<1>4. ResendsAreSafe'
  <2>1. \/ applied'[c] = 0 /\ status # "ok"
        \/ applied'[c] = 1 /\ status \notin Refusals
    BY <1>1 DEF IInv, Shape
  <2> QED
    BY <1>1, <2>1 DEF IInv, ResendsAreSafe
<1>5. TidIsOfTheFailure'
  <2>1. status \in Failures => tid'[c] = request[c]
    BY DEF Capture, IInv, Shape
  <2> QED
    BY <1>1, <2>1 DEF IInv, TidIsOfTheFailure
<1> QED
  BY <1>2, <1>3, <1>4, <1>5 DEF IInv

\* The write took effect, or its answer was lost on the way; no answer says so.
LEMMA Escaped ==
    ASSUME IInv, NEW c \in Calls, pc[c] # "done", Escape(c),
           request' = request, tid' = tid,
           applied' = applied \/ applied' = [applied EXCEPT ![c] = @ + 1]
    PROVE  IInv'
<1>1. /\ answer[c].status = "none" /\ applied[c] = 0
      /\ \A d \in Calls : d # c => answer'[d] = answer[d] /\ applied'[d] = applied[d]
                                   /\ pc'[d] = pc[d]
      /\ answer'[c].status = "error" /\ pc'[c] = "done"
      /\ applied'[c] \in {0, 1}
  BY DEF IInv, Shape, Untouched, Escape, NoAnswer
<1>2. Shape' /\ Untouched' /\ ResendsAreSafe' /\ TidIsOfTheFailure'
  BY <1>1 DEF IInv, Shape, Untouched, ResendsAreSafe, TidIsOfTheFailure, Escape, Refusals,
               Failures
<1> QED
  BY <1>2 DEF IInv

LEMMA StepIInv ==
    ASSUME IInv, NEW c \in Calls, Step(c)
    PROVE  IInv'
<1>1. CASE Acquire(c)
  <2>1. CASE answer' = answer /\ pc' = [pc EXCEPT ![c] = "tokens"]
    BY <1>1, <2>1, Onward DEF Acquire
  <2>2. CASE Answer(c, "denied")
    BY <1>1, <2>2, Answered DEF Acquire, Failures
  <2> QED
    BY <1>1, <2>1, <2>2 DEF Acquire
<1>2. CASE EnsureTokens(c)
  BY <1>2, Onward DEF EnsureTokens
<1>3. CASE NoTokens(c)
  BY <1>3, Answered DEF NoTokens, Failures
<1>4. CASE Succeeds(c)
  <2>1. CASE Writes(c)
    BY <1>4, <2>1, Answered DEF Succeeds, Apply, Serves, Sending, Refusals
  <2>2. CASE ~Writes(c)
    BY <1>4, <2>2, Onward DEF Succeeds, Apply, Serves, Sending
  <2> QED
    BY <2>1, <2>2
<1>5. CASE Faulted(c)
  BY <1>5, Answered DEF Faulted, Serves, Sending
<1>6. CASE Throttled(c)
  <2>1. CASE pc[c] = "send"
    BY <1>6, <2>1, Onward DEF Throttled
  <2>2. CASE pc[c] # "send"
    <3>1. PICK status \in {"throttled", "qbo_error"} :
            Capture(c) /\ Answer(c, status)
      BY <1>6, <2>2 DEF Throttled
    <3> QED
      BY <1>6, <3>1, Answered DEF Throttled, Sending
  <2> QED
    BY <2>1, <2>2
<1>7. CASE Refused(c)
  <2>1. CASE pc[c] = "last"
    BY <1>7, <2>1, Answered DEF Refused
  <2>2. CASE pc[c] # "last"
    BY <1>7, <2>2, Onward DEF Refused, Sending
  <2> QED
    BY <2>1, <2>2
<1>8. CASE Lost(c)
  <2>1. applied' = applied \/ applied' = [applied EXCEPT ![c] = @ + 1]
    BY <1>8 DEF Lost, Apply
  <2> QED
    BY <1>8, <2>1, Escaped DEF Lost, Sending
<1>9. CASE Refresh(c)
  BY <1>9, Onward DEF Refresh
<1>10. CASE RefreshFails(c)
  BY <1>10, Answered DEF RefreshFails
<1>11. CASE Inconclusive(c)
  <2>1. applied' = applied \/ applied' = [applied EXCEPT ![c] = @ + 1]
    BY <1>11 DEF Inconclusive, Apply
  <2>2. /\ pc[c] # "done" /\ request' = request
        /\ Capture(c) /\ Answer(c, "qbo_error")
    BY <1>11 DEF Inconclusive, Sending
  <2> QED
    BY <2>1, <2>2, Answered DEF Refusals
<1> QED
  BY <1>1, <1>2, <1>3, <1>4, <1>5, <1>6, <1>7, <1>8, <1>9, <1>10, <1>11 DEF Step, Prepare, Send

\* The invariant is inductive.
LEMMA NextIInv == IInv /\ [Next]_vars => IInv'
<1> SUFFICES ASSUME IInv, [Next]_vars PROVE IInv'
  OBVIOUS
<1>1. ASSUME NEW c \in Calls, Step(c) PROVE IInv'
  BY <1>1, StepIInv
<1>2. CASE Tick \/ BearerDies \/ UNCHANGED vars
  <2>1. UNCHANGED <<pc, request, tid, answer, applied>>
    BY <1>2 DEF Tick, BearerDies, vars
  <2> QED
    BY <2>1 DEF IInv, Shape, Untouched, ResendsAreSafe, TidIsOfTheFailure
<1> QED
  BY <1>1, <1>2 DEF Next, Done

\* For any number of calls and any faults, QBO's own after the effect included:
\* no write takes effect twice, an ok means it took effect, and a 404, 409, 429
\* or 503 that it did not.
THEOREM ResendsNeverRepeat == Spec => []ResendsAreSafe
<1>1. Init => IInv
  BY InitIInv
<1>2. IInv /\ [Next]_vars => IInv'
  BY NextIInv
<1>3. IInv => ResendsAreSafe
  BY DEF IInv
<1> QED
  BY <1>1, <1>2, <1>3, PTL DEF Spec

\* For any number of calls and any faults: an answer that passes on a failure of
\* QBO has the tid of the request that failed.
THEOREM TidNamesTheFailure == Spec => []TidIsOfTheFailure
<1>1. Init => IInv
  BY InitIInv
<1>2. IInv /\ [Next]_vars => IInv'
  BY NextIInv
<1>3. IInv => TidIsOfTheFailure
  BY DEF IInv
<1> QED
  BY <1>1, <1>2, <1>3, PTL DEF Spec
=============================================================================
