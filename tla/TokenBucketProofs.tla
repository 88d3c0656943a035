-------------------------- MODULE TokenBucketProofs --------------------------
(***************************************************************************)
(* The bucket of api/rate_limit.py keeps its promises for every capacity,  *)
(* rate, clock and number of threads.                                      *)
(*                                                                         *)
(* The window invariant: what the window admitted, plus what is left, is   *)
(* at most the capacity plus what flowed in between `mark` and the last    *)
(* refill.  It needs the lock: a thread whose clock reading is older than  *)
(* the last refill would turn `last` back and refill the same time twice.  *)
(***************************************************************************)
EXTENDS TokenBucket, TLAPS

---------------------------------------------------------------------------
(* Arithmetic *)

\* What flows in between a and c is what flows in up to b, and from b on.
LEMMA FlowSplits ==
    ASSUME NEW r \in Nat, NEW a \in Nat, NEW b \in Nat, NEW c \in Nat
    PROVE  r * (c - a) = r * (c - b) + r * (b - a)
BY SMT

\* More time, more flow.
LEMMA FlowGrows ==
    ASSUME NEW r \in Nat, NEW a \in Nat, NEW b \in Nat, a <= b
    PROVE  r * a <= r * b /\ r * a \in Nat /\ r * b \in Nat
<1>1. PICK d \in Nat : b = a + d
  <2>1. b - a \in Nat /\ b = a + (b - a)
    OBVIOUS
  <2> QED
    BY <2>1
<1>2. r * b = r * a + r * d
  BY <1>1
<1>3. r * a \in Nat /\ r * d \in Nat /\ r * b \in Nat
  BY SMT
<1> QED
  BY <1>2, <1>3

\* CeilDiv rounds up.
LEMMA CeilDivCovers ==
    ASSUME NEW a \in Nat \ {0}, NEW b \in Nat \ {0}
    PROVE  CeilDiv(a, b) \in Nat /\ a <= b * CeilDiv(a, b)
<1> DEFINE q == (a + b - 1) \div b
<1>1. q \in Int /\ b * q <= a + b - 1 /\ a + b - 1 < b * q + b
  BY SMT
<1>2. q >= 0
  BY SMT
<1> QED
  BY <1>1, <1>2 DEF CeilDiv

LEMMA FullIsNat == Full \in Nat /\ Unit <= Full
BY BucketAssumption DEF Full

\* In the time that the hint names, at least one token flows in.
LEMMA HintFlow ==
    /\ RetryAfterSeconds * Second \in Nat
    /\ Unit <= Rate * (RetryAfterSeconds * Second)
<1> DEFINE rs == Rate * Second
           s == CeilDiv(Unit, rs)
<1>1. rs \in Nat \ {0}
  BY BucketAssumption
<1>2. s \in Nat /\ Unit <= rs * s
  BY <1>1, CeilDivCovers, BucketAssumption
<1>3. RetryAfterSeconds \in Nat /\ s <= RetryAfterSeconds
  BY <1>2 DEF RetryAfterSeconds
<1>4. rs * s <= rs * RetryAfterSeconds
  BY <1>1, <1>2, <1>3, FlowGrows
<1>5. rs * RetryAfterSeconds = Rate * (RetryAfterSeconds * Second)
  <2> HIDE DEF s
  <2> QED
    BY <1>3, BucketAssumption
<1>6. RetryAfterSeconds * Second \in Nat
  BY <1>3, BucketAssumption
<1> QED
  BY <1>2, <1>3, <1>4, <1>5, <1>6, BucketAssumption

\* A refill never overfills the bucket, never drains it, and adds what flowed
\* in since the last one, unless that fills it.
LEMMA RefillAdds ==
    ASSUME NEW u \in 0 .. Full, NEW then \in Nat, NEW at \in Nat, then <= at
    PROVE  /\ Refilled(u, then, at) \in 0 .. Full
           /\ Refilled(u, then, at) <= u + Rate * (at - then)
           /\ \/ Refilled(u, then, at) = Full
              \/ Refilled(u, then, at) = u + Rate * (at - then)
<1>1. Rate * (at - then) \in Nat
  <2>1. at - then \in Nat
    OBVIOUS
  <2> QED
    BY <2>1, BucketAssumption
<1> QED
  BY <1>1, FullIsNat DEF Refilled, Least
---------------------------------------------------------------------------
(* The invariant *)

InLock(t) == pc[t] # "idle"

\* At most one thread is inside, and it holds the lock.
LockInv == \A t \in Threads : InLock(t) => lock = t

\* The last refill, and a reading about to be used, are in order.
ClockInv ==
    /\ last <= clock
    /\ mark <= clock
    /\ \A t \in Threads :
         /\ pc[t] = "read" => last <= now[t] /\ now[t] <= clock
         /\ pc[t] = "refilled" => last = now[t]

\* What the window admitted was refilled within it.
WindowInv ==
    /\ last < mark => admitted = 0
    /\ last >= mark => admitted * Unit + units <= Full + Rate * (last - mark)

\* Since a denial that nobody's admission followed, what flowed in is still
\* there.
DeniedInv ==
    \A t \in Threads :
        denied[t] # Never =>
            /\ denied[t] <= last
            /\ units = Full \/ Rate * (last - denied[t]) <= units

IInv == TypeOK /\ LockInv /\ ClockInv /\ WindowInv /\ DeniedInv

LEMMA InitIInv == Init => IInv
<1> SUFFICES ASSUME Init PROVE IInv
  OBVIOUS
<1>1. TypeOK
  BY FullIsNat, ThreadAssumption DEF Init, TypeOK, Never
<1>2. LockInv /\ ClockInv /\ DeniedInv
  BY DEF Init, LockInv, ClockInv, DeniedInv, InLock, Never
<1>3. WindowInv
  BY FullIsNat, BucketAssumption DEF Init, WindowInv
<1> QED
  BY <1>1, <1>2, <1>3 DEF IInv

LEMMA EnterIInv ==
    ASSUME IInv, NEW t \in Threads, Enter(t)
    PROVE  IInv'
BY ThreadAssumption
   DEF IInv, TypeOK, LockInv, ClockInv, WindowInv, DeniedInv, InLock, Enter, bucket, history

LEMMA ReadClockIInv ==
    ASSUME IInv, NEW t \in Threads, ReadClock(t)
    PROVE  IInv'
BY ThreadAssumption
   DEF IInv, TypeOK, LockInv, ClockInv, WindowInv, DeniedInv, InLock, ReadClock, bucket, history

LEMMA TickIInv ==
    ASSUME IInv, Tick
    PROVE  IInv'
BY ThreadAssumption
   DEF IInv, TypeOK, LockInv, ClockInv, WindowInv, DeniedInv, InLock, Tick, bucket, history

LEMMA OpenWindowIInv ==
    ASSUME IInv, OpenWindow
    PROVE  IInv'
<1>1. TypeOK' /\ LockInv' /\ ClockInv' /\ DeniedInv'
  BY DEF IInv, TypeOK, LockInv, ClockInv, DeniedInv, InLock, OpenWindow, bucket, history
<1>2. WindowInv'
  <2>1. CASE last < clock
    BY <2>1 DEF IInv, TypeOK, WindowInv, OpenWindow, bucket
  <2>2. CASE last = clock
    BY <2>2, FullIsNat, BucketAssumption DEF IInv, TypeOK, WindowInv, OpenWindow, bucket
  <2> QED
    BY <2>1, <2>2 DEF IInv, TypeOK, ClockInv
<1> QED
  BY <1>1, <1>2 DEF IInv

LEMMA RefillIInv ==
    ASSUME IInv, NEW t \in Threads, Refill(t)
    PROVE  IInv'
<1> DEFINE u == Refilled(units, last, now[t])
<1>1. /\ last \in Nat /\ now[t] \in Nat /\ last <= now[t] /\ now[t] <= clock
      /\ units \in 0 .. Full /\ units' = u /\ last' = now[t]
      /\ pc[t] = "read" /\ admitted \in Nat /\ mark \in Nat
  BY DEF IInv, TypeOK, ClockInv, Refill
<1>2. /\ u \in 0 .. Full /\ u <= units + Rate * (now[t] - last)
      /\ u = Full \/ u = units + Rate * (now[t] - last)
  BY <1>1, RefillAdds
<1>3. TypeOK'
  BY <1>1, <1>2 DEF IInv, TypeOK, Refill, history
<1>4. LockInv' /\ ClockInv'
  <2>1. \A s \in Threads : s # t => pc[s] = "idle" /\ pc'[s] = "idle"
    BY <1>1 DEF IInv, TypeOK, LockInv, InLock, Refill
  <2> QED
    BY <1>1, <2>1 DEF IInv, TypeOK, LockInv, ClockInv, InLock, Refill, history
<1>5. WindowInv'
  <2>1. mark' = mark /\ admitted' = admitted
    BY DEF Refill, history
  <2>2. CASE now[t] < mark
    BY <1>1, <2>1, <2>2 DEF IInv, WindowInv
  <2>3. CASE now[t] >= mark /\ last < mark
    <3>1. Rate * (now[t] - mark) >= 0
      <4>1. now[t] - mark \in Nat
        BY <1>1, <2>3
      <4> QED
        BY <4>1, BucketAssumption
    <3>2. Rate * (now[t] - mark) \in Int
      BY <1>1, BucketAssumption
    <3>3. admitted = 0
      BY <2>3 DEF IInv, WindowInv
    <3>4. admitted * Unit + u <= Full + Rate * (now[t] - mark)
      BY <1>2, <3>1, <3>2, <3>3, FullIsNat, BucketAssumption
    <3> QED
      BY <1>1, <2>1, <2>3, <3>4 DEF WindowInv
  <2>4. CASE last >= mark
    <3>1. Rate * (now[t] - mark) = Rate * (now[t] - last) + Rate * (last - mark)
      BY <1>1, FlowSplits, BucketAssumption
    <3>2. /\ Rate * (now[t] - mark) \in Int /\ Rate * (now[t] - last) \in Int
          /\ Rate * (last - mark) \in Int /\ admitted * Unit \in Int
      BY <1>1, BucketAssumption
    <3>3. admitted * Unit + units <= Full + Rate * (last - mark)
      BY <2>4 DEF IInv, WindowInv
    <3>4. admitted * Unit + u <= Full + Rate * (now[t] - mark)
      <4> HIDE DEF u
      <4> QED
        BY <1>1, <1>2, <3>1, <3>2, <3>3, FullIsNat
    <3> QED
      BY <1>1, <2>1, <2>4, <3>4 DEF WindowInv
  <2> QED
    BY <1>1, <2>2, <2>3, <2>4
<1>6. DeniedInv'
  <2> SUFFICES ASSUME NEW s \in Threads, denied[s] # Never
               PROVE  /\ denied[s] <= now[t]
                      /\ u = Full \/ Rate * (now[t] - denied[s]) <= u
    BY <1>1 DEF DeniedInv, Refill, history
  <2>1. denied[s] \in Nat /\ denied[s] <= last
    BY DEF IInv, TypeOK, DeniedInv, Never
  <2>2. units = Full \/ Rate * (last - denied[s]) <= units
    BY DEF IInv, DeniedInv
  <2>3. Rate * (now[t] - denied[s]) = Rate * (now[t] - last) + Rate * (last - denied[s])
    BY <1>1, <2>1, FlowSplits, BucketAssumption
  <2>4. /\ Rate * (now[t] - denied[s]) \in Int /\ Rate * (last - denied[s]) \in Int
        /\ Rate * (now[t] - last) \in Nat
    <3>1. now[t] - last \in Nat
      BY <1>1
    <3> QED
      BY <1>1, <2>1, <3>1, BucketAssumption
  <2> HIDE DEF u
  <2> QED
    BY <1>1, <1>2, <2>1, <2>2, <2>3, <2>4, FullIsNat
<1> QED
  BY <1>3, <1>4, <1>5, <1>6 DEF IInv

LEMMA TakeIInv ==
    ASSUME IInv, NEW t \in Threads, Take(t)
    PROVE  IInv'
<1>1. /\ pc[t] = "refilled" /\ last = now[t] /\ last' = last /\ mark' = mark /\ clock' = clock
      /\ lock = t /\ lock' = NoThread /\ pc' = [pc EXCEPT ![t] = "idle"] /\ now' = now
      /\ units \in 0 .. Full /\ admitted \in Nat /\ mark \in Nat /\ last \in 0 .. MaxClock
  BY DEF IInv, TypeOK, ClockInv, LockInv, InLock, Take
<1>2. \A s \in Threads : s # t => pc[s] = "idle" /\ pc'[s] = "idle"
  BY <1>1 DEF IInv, TypeOK, LockInv, InLock
<1>3. LockInv' /\ ClockInv'
  BY <1>1, <1>2 DEF IInv, TypeOK, LockInv, ClockInv, InLock
<1>4. CASE units >= Unit
  <2>1. /\ units' = units - Unit
        /\ admitted' = IF now[t] >= mark THEN admitted + 1 ELSE admitted
        /\ denied' = [s \in Threads |-> Never]
    BY <1>4 DEF Take, Admit
  <2>2. TypeOK'
    BY <1>1, <1>4, <2>1, FullIsNat, BucketAssumption, ThreadAssumption
       DEF IInv, TypeOK, Never
  <2>3. WindowInv'
    <3>1. CASE last < mark
      BY <1>1, <2>1, <3>1 DEF IInv, WindowInv
    <3>2. CASE last >= mark
      <4>1. admitted' * Unit = admitted * Unit + Unit
        BY <1>1, <2>1, <3>2, BucketAssumption
      <4>2. admitted * Unit \in Int /\ Rate * (last - mark) \in Int
        BY <1>1, BucketAssumption
      <4>3. admitted * Unit + units <= Full + Rate * (last - mark)
        BY <3>2 DEF IInv, WindowInv
      <4>4. admitted' * Unit + units' <= Full + Rate * (last - mark)
        BY <1>1, <2>1, <4>1, <4>2, <4>3, FullIsNat, BucketAssumption
      <4> QED
        BY <1>1, <3>2, <4>4 DEF WindowInv
    <3> QED
      BY <1>1, <3>1, <3>2
  <2>4. DeniedInv'
    BY <2>1 DEF DeniedInv
  <2> QED
    BY <1>3, <2>2, <2>3, <2>4 DEF IInv
<1>5. CASE ~ (units >= Unit)
  <2>1. /\ units' = units /\ admitted' = admitted
        /\ denied' = [denied EXCEPT ![t] = IF @ = Never THEN now[t] ELSE @]
    BY <1>5 DEF Take, Deny
  <2>2. TypeOK'
    BY <1>1, <2>1, ThreadAssumption DEF IInv, TypeOK, Never
  <2>3. WindowInv'
    BY <1>1, <2>1 DEF IInv, WindowInv
  <2>4. DeniedInv'
    <3> SUFFICES ASSUME NEW s \in Threads, denied'[s] # Never
                 PROVE  /\ denied'[s] <= last
                        /\ units = Full \/ Rate * (last - denied'[s]) <= units
      BY <1>1, <2>1 DEF DeniedInv
    <3>1. CASE denied'[s] = denied[s]
      BY <3>1 DEF IInv, DeniedInv
    <3>2. CASE denied'[s] = last
      BY <1>1, <3>2, BucketAssumption
    <3>3. denied'[s] = denied[s] \/ denied'[s] = last
      BY <1>1, <2>1 DEF IInv, TypeOK
    <3> QED
      BY <3>1, <3>2, <3>3
  <2> QED
    BY <1>3, <2>2, <2>3, <2>4 DEF IInv
<1> QED
  BY <1>4, <1>5

\* The invariant is inductive.
LEMMA NextIInv == IInv /\ [Next]_vars => IInv'
<1> SUFFICES ASSUME IInv, [Next]_vars PROVE IInv'
  OBVIOUS
<1>1. CASE Tick
  BY <1>1, TickIInv
<1>2. CASE OpenWindow
  BY <1>2, OpenWindowIInv
<1>3. ASSUME NEW t \in Threads, Enter(t) \/ ReadClock(t) \/ Refill(t) \/ Take(t)
      PROVE  IInv'
  BY <1>3, EnterIInv, ReadClockIInv, RefillIInv, TakeIInv
<1>4. CASE UNCHANGED vars
  BY <1>4 DEF IInv, TypeOK, LockInv, ClockInv, WindowInv, DeniedInv, InLock,
              vars, bucket, history
<1> QED
  BY <1>1, <1>2, <1>3, <1>4 DEF Next
---------------------------------------------------------------------------
(* The promises *)

LEMMA IInvWindow == IInv => WindowBound
<1> SUFFICES ASSUME IInv PROVE WindowBound
  OBVIOUS
<1>1. /\ clock \in Nat /\ last \in Nat /\ mark \in Nat /\ admitted \in Nat
      /\ units \in 0 .. Full /\ last <= clock /\ mark <= clock
  BY DEF IInv, TypeOK, ClockInv
<1>2. Rate * (clock - mark) \in Nat /\ clock - mark \in Nat
  <2>1. clock - mark \in Nat
    BY <1>1
  <2> QED
    BY <2>1, BucketAssumption
<1>3. CASE last < mark
  BY <1>1, <1>2, <1>3, FullIsNat, BucketAssumption DEF IInv, WindowInv, WindowBound
<1>4. CASE last >= mark
  <2>1. Rate * (last - mark) <= Rate * (clock - mark)
    <3>1. last - mark \in Nat /\ last - mark <= clock - mark
      BY <1>1, <1>4
    <3> QED
      BY <3>1, <1>2, FlowGrows, BucketAssumption
  <2>2. admitted * Unit + units <= Full + Rate * (last - mark)
    BY <1>4 DEF IInv, WindowInv
  <2>3. admitted * Unit \in Int /\ Rate * (last - mark) \in Int
    BY <1>1, BucketAssumption
  <2> QED
    BY <1>1, <1>2, <2>1, <2>2, <2>3, FullIsNat DEF WindowBound
<1> QED
  BY <1>1, <1>3, <1>4

LEMMA IInvHint == IInv => HintSuffices
<1> SUFFICES ASSUME IInv, NEW t \in Threads, pc[t] = "refilled", denied[t] # Never,
                    now[t] >= denied[t] + RetryAfterSeconds * Second
             PROVE  units >= Unit
  BY DEF HintSuffices
<1> DEFINE hint == RetryAfterSeconds * Second
<1>1. hint \in Nat /\ Unit <= Rate * hint
  BY HintFlow
<1>2. /\ last = now[t] /\ denied[t] \in Nat /\ last \in Nat /\ units \in 0 .. Full
      /\ units = Full \/ Rate * (last - denied[t]) <= units
  BY DEF IInv, TypeOK, ClockInv, DeniedInv, Never
<1>3. last - denied[t] \in Nat /\ hint <= last - denied[t]
  <2> HIDE DEF hint
  <2>1. now[t] >= denied[t] + hint
    BY DEF hint
  <2> QED
    BY <1>1, <1>2, <2>1
<1>4. Rate * hint <= Rate * (last - denied[t])
  <2> HIDE DEF hint
  <2> QED
    BY <1>1, <1>3, FlowGrows, BucketAssumption
<1>5. Rate * hint \in Nat /\ Rate * (last - denied[t]) \in Nat
  BY <1>1, <1>3, BucketAssumption
<1> HIDE DEF hint
<1> QED
  BY <1>1, <1>2, <1>4, <1>5, FullIsNat, BucketAssumption

\* For every capacity, rate, clock and set of threads: no window of time
\* admits more than the capacity and what flowed in during it.
THEOREM NoWindowOverruns == Spec => []WindowBound
<1>1. Init => IInv
  BY InitIInv
<1>2. IInv /\ [Next]_vars => IInv'
  BY NextIInv
<1>3. IInv => WindowBound
  BY IInvWindow
<1> QED
  BY <1>1, <1>2, <1>3, PTL DEF Spec

\* For every capacity, rate, clock and set of threads: who waits as long as
\* the hint says finds a token, unless somebody else took it.
THEOREM HintIsHonest == Spec => []HintSuffices
<1>1. Init => IInv
  BY InitIInv
<1>2. IInv /\ [Next]_vars => IInv'
  BY NextIInv
<1>3. IInv => HintSuffices
  BY IInvHint
<1> QED
  BY <1>1, <1>2, <1>3, PTL DEF Spec
=============================================================================
