----------------------------- MODULE TokenBucket -----------------------------
(***************************************************************************)
(* One process-wide TokenBucket (api/rate_limit.py) and the request        *)
(* threads that call try_acquire() on it.                                  *)
(*                                                                         *)
(* A call takes the lock, reads the clock, refills, and takes a token or   *)
(* is denied.  The steps are separate, because it is the lock that makes   *)
(* them one: the clock ticks and other threads run between any two.        *)
(*                                                                         *)
(* `mark`, `admitted` and `denied` are history.  A window opens at any     *)
(* instant, and counts the calls admitted on a clock reading from then on; *)
(* `denied` remembers who was denied since the last admission, and when.   *)
(***************************************************************************)
EXTENDS BucketOps

CONSTANTS
    Threads,    \* the request threads
    NoThread,   \* the holder of a free lock
    MaxClock    \* bound on the clock

ASSUME ThreadAssumption == NoThread \notin Threads /\ MaxClock \in Nat

Never == MaxClock + 1

VARIABLES
    clock,      \* time.monotonic()
    units,      \* _tokens
    last,       \* _last_refill
    lock,       \* the thread that holds _lock
    pc,         \* where each thread is in try_acquire()
    now,        \* its local `now`
    mark,       \* history: when the window opened
    admitted,   \* history: the calls admitted in the window
    denied      \* history: when a thread was denied, if nobody was admitted since

bucket == <<units, last>>
history == <<mark, admitted, denied>>
vars == <<clock, bucket, lock, pc, now, history>>

Init ==
    /\ clock = 0
    /\ units = Full
    /\ last = 0
    /\ lock = NoThread
    /\ pc = [t \in Threads |-> "idle"]
    /\ now = [t \in Threads |-> 0]
    /\ mark = 0
    /\ admitted = 0
    /\ denied = [t \in Threads |-> Never]

\* Seeded bug: try_acquire() without its lock.
EnterMutantNoLock(t) ==
    /\ pc[t] = "idle"
    /\ lock' = t
    /\ pc' = [pc EXCEPT ![t] = "locked"]
    /\ UNCHANGED <<clock, bucket, now, history>>

Enter(t) ==
    /\ pc[t] = "idle"
    /\ lock = NoThread
    /\ lock' = t
    /\ pc' = [pc EXCEPT ![t] = "locked"]
    /\ UNCHANGED <<clock, bucket, now, history>>

ReadClock(t) ==
    /\ pc[t] = "locked"
    /\ now' = [now EXCEPT ![t] = clock]
    /\ pc' = [pc EXCEPT ![t] = "read"]
    /\ UNCHANGED <<clock, bucket, lock, history>>

Refill(t) ==
    /\ pc[t] = "read"
    /\ units' = Refilled(units, last, now[t])
    /\ last' = now[t]
    /\ pc' = [pc EXCEPT ![t] = "refilled"]
    /\ UNCHANGED <<clock, lock, now, history>>

Admit(t) ==
    /\ units' = units - Unit
    /\ admitted' = IF now[t] >= mark THEN admitted + 1 ELSE admitted
    /\ denied' = [s \in Threads |-> Never]

Deny(t) ==
    /\ denied' = [denied EXCEPT ![t] = IF @ = Never THEN now[t] ELSE @]
    /\ UNCHANGED <<units, admitted>>

\* Takes a token if there is one, and leaves the lock either way.
Take(t) ==
    /\ pc[t] = "refilled"
    /\ IF units >= Unit THEN Admit(t) ELSE Deny(t)
    /\ lock' = NoThread
    /\ pc' = [pc EXCEPT ![t] = "idle"]
    /\ UNCHANGED <<clock, last, now, mark>>

\* Time passes.
Tick ==
    /\ clock < MaxClock
    /\ clock' = clock + 1
    /\ UNCHANGED <<bucket, lock, pc, now, history>>

\* Somebody starts counting: any instant may begin a window.
OpenWindow ==
    /\ mark' = clock
    /\ admitted' = 0
    /\ UNCHANGED <<clock, bucket, lock, pc, now, denied>>

Next ==
    \/ Tick
    \/ OpenWindow
    \/ \E t \in Threads : Enter(t) \/ ReadClock(t) \/ Refill(t) \/ Take(t)

Spec == Init /\ [][Next]_vars
---------------------------------------------------------------------------
(* Properties *)

\* Every variable has its type, and the bucket never holds more than its
\* capacity or less than nothing.
TypeOK ==
    /\ clock \in 0 .. MaxClock
    /\ units \in 0 .. Full
    /\ last \in 0 .. MaxClock
    /\ lock \in Threads \cup {NoThread}
    /\ pc \in [Threads -> {"idle", "locked", "read", "refilled"}]
    /\ now \in [Threads -> 0 .. MaxClock]
    /\ mark \in 0 .. MaxClock
    /\ admitted \in Nat
    /\ denied \in [Threads -> 0 .. Never]

\* Over every window of time, whichever threads call when, the bucket admits
\* no more than its capacity and what flowed in: with 16 and 480 a minute, at
\* most 496 calls a minute, under QBO's 500 ("so we trip well before Intuit
\* does", rate_limit.py:17).
WindowBound ==
    admitted * Unit <= Full + Rate * (clock - mark)

\* "a caller that honors the hint won't retry before at least one token has
\* had time to refill" (rate_limit.py:50-51): a thread that was denied, and
\* comes back after retry_after_seconds, is admitted, unless somebody else was
\* admitted meanwhile.
HintSuffices ==
    \A t \in Threads :
        pc[t] = "refilled" /\ denied[t] # Never
            /\ now[t] >= denied[t] + RetryAfterSeconds * Second
          => units >= Unit
=============================================================================
