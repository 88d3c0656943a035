--------------------------- MODULE OAuthFlowProofs ---------------------------
(***************************************************************************)
(* A state is accepted once, and only while it is fresh, for any number of *)
(* starts, callbacks and processes, any TTL and any launch tokens.         *)
(*                                                                         *)
(* The invariant: a store holds a state only if its start used that store  *)
(* and is past create(), with the reading that start took; and no store    *)
(* holds a state that was accepted.  As create() runs once in a start, an  *)
(* accepted state never comes back.                                        *)
(*                                                                         *)
(* Then the converse, that a callback is refused only for a reason: KInv.  *)
(***************************************************************************)
EXTENDS OAuthFlow, TLAPS

\* What the steps read and leave alone.
Typed ==
    /\ clock \in Nat
    /\ up \subseteq Processes
    /\ memo \in [Processes -> Calls \cup {None}]
    /\ states \in [Calls -> [Starts -> Nat]]
    /\ pc \in [Calls -> Pcs]
    /\ at \in [Calls -> Processes \cup {None}]
    /\ uses \in [Calls -> Calls \cup {None}]
    /\ now \in [Calls -> Nat]
    /\ state \in [Callbacks -> Starts \cup {Forged}]
    /\ answer \in [Calls -> Answers]

\* Where a request is tells what it has been given.
Placed ==
    \A c \in Calls :
        /\ pc[c] # "done" => answer[c] = "none"
        /\ pc[c] # "browser" => at[c] \in Processes
        /\ pc[c] \in {"browser", "store", "build"} => uses[c] = None
        /\ pc[c] \notin {"browser", "store", "build", "done"} => uses[c] \in Calls

\* A request uses a store that was built in its own process.
Home ==
    /\ \A c \in Calls : uses[c] # None =>
           at[uses[c]] = at[c] /\ pc[uses[c]] # "browser"
    /\ \A p \in Processes : memo[p] # None =>
           at[memo[p]] = p /\ pc[memo[p]] # "browser"

\* A state in a store is there since its start put it there.
Minted ==
    \A b \in Calls, s \in Starts : states[b][s] # Never =>
        b = uses[s] /\ pc[s] \in {"discover", "done"} /\ states[b][s] = now[s]

\* An accepted state is that of a finished create(), and in no store.
Spent ==
    \A c \in Accepted :
        /\ state[c] \in Starts
        /\ pc[state[c]] \in {"discover", "done"}
        /\ \A b \in Calls : states[b][state[c]] = Never

IInv == Typed /\ Placed /\ Home /\ Minted /\ Spent /\ OnlyFreshFlows /\ AcceptedOnce

LEMMA NeverIsNat == Never \in Nat
BY FlowAssumption DEF Never

LEMMA InitIInv == Init => IInv
<1> SUFFICES ASSUME Init PROVE IInv
  OBVIOUS
<1>1. Typed /\ Placed /\ Home /\ Minted
  BY NeverIsNat DEF Init, Typed, Placed, Home, Minted, Pcs, Answers, Calls
<1>2. Accepted = {}
  BY DEF Init, Accepted, Calls
<1> QED
  BY <1>1, <1>2 DEF IInv, Spent, OnlyFreshFlows, AcceptedOnce

\* A step that moves a request on, and accepts no state.  It does not return
\* to where a store is chosen, and a start that is past create() stays there.
LEMMA Moves ==
    ASSUME IInv, NEW c \in Calls, NEW l \in Pcs, NEW a \in Answers,
           UNCHANGED <<up, memo, states, at, uses, state>>,
           clock' \in Nat,
           pc' = [pc EXCEPT ![c] = l],
           \/ answer' = [answer EXCEPT ![c] = a]
           \/ answer' = answer /\ a = "none" /\ pc[c] # "done",
           now' = now \/ (pc[c] = "handler" /\ now' = [now EXCEPT ![c] = clock]),
           l # "browser", at[c] \in Processes,
           l = "done" \/ a = "none",
           l \in {"store", "build"} => uses[c] = None,
           l \notin {"store", "build", "done"} => uses[c] \in Calls,
           pc[c] \in {"discover", "done"} => l \in {"discover", "done"},
           \/ c \in Starts \cup Accepted
           \/ l \notin {"consumed", "save"} /\ a \in {"none", "denied", "mismatch"}
    PROVE  IInv'
<1>0. Accepted' \subseteq Accepted
  BY FlowAssumption DEF IInv, Typed, Placed, Accepted, Calls
<1>1. Typed'
  BY DEF IInv, Typed
<1>2. Placed'
  BY DEF IInv, Typed, Placed
<1>3. Home'
  BY DEF IInv, Typed, Home
<1>4. /\ \A s \in Calls : pc[s] \in {"discover", "done"} =>
             pc'[s] \in {"discover", "done"} /\ now'[s] = now[s]
      /\ \A d \in Accepted : now'[d] = now[d]
  BY DEF IInv, Typed, Placed, Accepted, Calls
<1>5. Minted'
  BY <1>4 DEF IInv, Minted, Calls
<1>6. Spent'
  BY <1>0, <1>4 DEF IInv, Spent, Calls
<1>7. OnlyFreshFlows'
  BY <1>0, <1>4 DEF IInv, Spent, OnlyFreshFlows, Calls
<1>8. AcceptedOnce'
  BY <1>0 DEF IInv, AcceptedOnce
<1> QED
  BY <1>1, <1>2, <1>3, <1>5, <1>6, <1>7, <1>8 DEF IInv

\* A request reaches a process, with its state if it is a callback.
LEMMA Arrives ==
    ASSUME IInv, NEW c \in Calls, NEW p \in up, NEW l \in {"store", "done"}, NEW a \in Answers,
           pc[c] = "browser",
           UNCHANGED <<clock, up, memo, states, uses, now>>,
           at' = [at EXCEPT ![c] = p],
           pc' = [pc EXCEPT ![c] = l],
           \/ answer' = [answer EXCEPT ![c] = a] /\ l = "done"
           \/ answer' = answer,
           \/ c \in Starts /\ state' = state
           \/ /\ c \in Callbacks /\ answer' = answer
              /\ \E s \in Starts \cup {Forged} : state' = [state EXCEPT ![c] = s]
    PROVE  IInv'
<1>1. Typed'
  BY DEF IInv, Typed, Pcs
<1>2. Placed'
  BY DEF IInv, Typed, Placed
<1>3. Home'
  BY FlowAssumption DEF IInv, Typed, Home, Placed
<1>4. /\ Accepted' \subseteq Accepted
      /\ c \notin Accepted
  BY FlowAssumption DEF IInv, Typed, Placed, Accepted, Calls
<1>5. Minted'
  BY DEF IInv, Typed, Minted, Calls
<1>6. /\ \A d \in Accepted' : d \in Accepted /\ state'[d] = state[d] /\ at'[d] = at[d]
      /\ \A s \in Calls : pc[s] \in {"discover", "done"} => at'[s] = at[s] /\ pc'[s] = pc[s]
  BY <1>4 DEF IInv, Typed, Accepted, Calls
<1>7. Spent'
  BY <1>6 DEF IInv, Spent, Calls
<1>8. OnlyFreshFlows'
  BY <1>6 DEF IInv, Spent, OnlyFreshFlows, Calls
<1>9. AcceptedOnce'
  BY <1>6 DEF IInv, AcceptedOnce
<1> QED
  BY <1>1, <1>2, <1>3, <1>5, <1>7, <1>8, <1>9 DEF IInv

\* A request is given a store of its own process.
LEMMA Gets ==
    ASSUME IInv, NEW c \in Calls, NEW b \in Calls,
           pc[c] \in {"store", "build"}, Given(c, b),
           at[b] = at[c], pc[b] # "browser",
           UNCHANGED <<clock, up, states, at, now, state, answer>>,
           memo' = memo \/ memo' = [memo EXCEPT ![at[c]] = c]
    PROVE  IInv'
<1>1. Typed'
  BY DEF IInv, Typed, Given, Pcs
<1>2. Placed'
  BY DEF IInv, Typed, Placed, Given
<1>3. Home'
  BY DEF IInv, Typed, Home, Placed, Given
<1>4. Accepted' \subseteq Accepted /\ c \notin Accepted
  BY DEF IInv, Typed, Placed, Accepted, Calls, Given
<1>5. \A d \in Calls : d # c => pc'[d] = pc[d] /\ uses'[d] = uses[d]
  BY DEF IInv, Typed, Given
<1>6. \A s \in Calls : pc[s] \in {"discover", "done"} => s # c
  OBVIOUS
<1>7. Minted'
  BY <1>5, <1>6 DEF IInv, Minted, Calls
<1>8. Spent'
  BY <1>4, <1>5, <1>6 DEF IInv, Spent, Calls
<1>9. OnlyFreshFlows'
  BY <1>4, <1>5, <1>6 DEF IInv, Spent, OnlyFreshFlows, Accepted, Calls
<1>10. AcceptedOnce'
  BY <1>4 DEF IInv, AcceptedOnce
<1> QED
  BY <1>1, <1>2, <1>3, <1>7, <1>8, <1>9, <1>10 DEF IInv

\* What a purge leaves is as old as it was.
LEMMA PurgeKeeps ==
    ASSUME NEW minted \in [Starts -> Nat], NEW time \in Nat
    PROVE  /\ Purged(minted, time) \in [Starts -> Nat]
           /\ \A s \in Starts : Purged(minted, time)[s] # Never =>
                  /\ Purged(minted, time)[s] = minted[s]
                  /\ time < minted[s] + TTL
BY FlowAssumption, NeverIsNat DEF Purged, Expired

\* create() puts a state where it has never been, and only there.
LEMMA Creates == ASSUME IInv, NEW s \in Starts, Create(s) PROVE IInv'
<1>1. /\ s \in Calls /\ uses[s] \in Calls /\ pc[s] = "create" /\ pc'[s] = "discover"
      /\ \A d \in Calls : d # s => pc'[d] = pc[d]
  BY DEF IInv, Typed, Placed, Create, Calls
<1>2. /\ states' \in [Calls -> [Starts -> Nat]]
      /\ \A b \in Calls, r \in Starts : states'[b][r] # Never =>
             \/ b = uses[s] /\ r = s /\ states'[b][r] = now[s]
             \/ states'[b][r] = states[b][r]
  <2> DEFINE old == states[uses[s]]
             left == Purged(old, now[s])
             new == [left EXCEPT ![s] = now[s]]
  <2>1. old \in [Starts -> Nat] /\ now[s] \in Nat
    BY <1>1 DEF IInv, Typed
  <2>2. /\ left \in [Starts -> Nat]
        /\ \A r \in Starts : left[r] # Never => left[r] = old[r]
    BY <2>1, PurgeKeeps
  <2>3. states' = [states EXCEPT ![uses[s]] = new]
    BY DEF Create
  <2>4. /\ new \in [Starts -> Nat]
        /\ \A r \in Starts : new[r] = IF r = s THEN now[s] ELSE left[r]
    BY <2>1, <2>2
  <2> HIDE DEF new, left
  <2>5. /\ states' \in [Calls -> [Starts -> Nat]]
        /\ \A b \in Calls : states'[b] = IF b = uses[s] THEN new ELSE states[b]
    BY <1>1, <2>3, <2>4 DEF IInv, Typed
  <2> QED
    BY <2>2, <2>4, <2>5
<1>3. Typed' /\ Placed' /\ Home'
  BY <1>1, <1>2 DEF IInv, Typed, Placed, Home, Create, Pcs
<1>4. Minted'
  BY <1>1, <1>2 DEF IInv, Minted, Create, Calls
<1>5. Accepted' \subseteq Accepted
  <2>1. \A c \in Callbacks : c # s /\ c \in Calls
    BY FlowAssumption DEF Calls
  <2>2. answer' = answer
    BY DEF Create
  <2> QED
    BY <1>1, <2>1, <2>2 DEF Accepted
<1>6. \A c \in Accepted : state[c] # s
  BY <1>1 DEF IInv, Spent
<1>7. Spent'
  BY <1>1, <1>2, <1>5, <1>6 DEF IInv, Spent, Create, Calls
<1>8. OnlyFreshFlows' /\ AcceptedOnce'
  BY <1>5 DEF IInv, OnlyFreshFlows, AcceptedOnce, Create
<1> QED
  BY <1>3, <1>4, <1>7, <1>8 DEF IInv

\* consume() takes a state away for good, and accepts it only if it was there
\* and fresh.
LEMMA Consumes == ASSUME IInv, NEW c \in Callbacks, Consume(c) PROVE IInv'
<1>1. /\ c \in Calls /\ uses[c] \in Calls /\ pc[c] = "consume" /\ c \notin Accepted
      /\ pc'[c] \in {"consumed", "done"}
      /\ \A d \in Calls : d # c => pc'[d] = pc[d] /\ answer'[d] = answer[d]
      /\ \A s \in Starts : s # c
  BY FlowAssumption DEF IInv, Typed, Placed, Consume, Calls, Answer, Accepted
<1>2. /\ states' \in [Calls -> [Starts -> Nat]]
      /\ \A b \in Calls, r \in Starts : states'[b][r] # Never =>
             states'[b][r] = states[b][r] /\ (b = uses[c] => r # state[c])
  BY <1>1, PurgeKeeps, NeverIsNat DEF IInv, Typed, Consume, Popped
<1>3. Typed'
  BY <1>2 DEF IInv, Typed, Consume, Answer, Pcs, Answers
<1>4. Placed' /\ Home'
  BY <1>1 DEF IInv, Typed, Placed, Home, Consume, Answer
<1>5. Minted'
  BY <1>1, <1>2 DEF IInv, Minted, Consume, Calls
<1>6. CASE ~Found(c)
  <2>1. Accepted' \subseteq Accepted
    BY <1>1, <1>6 DEF IInv, Typed, Accepted, Calls, Consume, Answer
  <2>2. Spent'
    BY <1>1, <1>2, <2>1 DEF IInv, Spent, Consume, Calls
  <2>3. OnlyFreshFlows' /\ AcceptedOnce'
    BY <2>1 DEF IInv, OnlyFreshFlows, AcceptedOnce, Consume
  <2> QED
    BY <1>3, <1>4, <1>5, <2>2, <2>3 DEF IInv
<1>7. CASE Found(c)
  <2> DEFINE s == state[c]
  <2>1. /\ s \in Starts
        /\ states[uses[c]][s] # Never
        /\ now[c] < states[uses[c]][s] + TTL
    BY <1>1, <1>7, PurgeKeeps DEF Found, IInv, Typed
  <2>2. /\ uses[s] = uses[c] /\ pc[s] \in {"discover", "done"}
        /\ states[uses[c]][s] = now[s]
        /\ \A b \in Calls : b # uses[c] => states[b][s] = Never
    BY <1>1, <2>1 DEF IInv, Minted
  <2>3. at[s] = at[c]
    BY <1>1, <2>1, <2>2, FlowAssumption DEF IInv, Home, Calls
  <2>4. Accepted' \subseteq Accepted \cup {c}
    BY <1>1 DEF Accepted, Calls
  <2>5. \A d \in Accepted : state[d] # s
    BY <1>1, <2>1 DEF IInv, Spent
  <2>6. Spent'
    <3>1. \A b \in Calls : states'[b][s] = Never
      BY <1>1, <1>2, <2>1, <2>2
    <3> QED
      BY <1>1, <1>2, <2>1, <2>2, <2>4, <3>1 DEF IInv, Spent, Consume, Calls
  <2>7. OnlyFreshFlows'
    BY <2>1, <2>2, <2>3, <2>4 DEF IInv, OnlyFreshFlows, Consume
  <2>8. AcceptedOnce'
    BY <2>4, <2>5 DEF IInv, AcceptedOnce, Consume
  <2> QED
    BY <1>3, <1>4, <1>5, <2>6, <2>7, <2>8 DEF IInv
<1> QED
  BY <1>6, <1>7

LEMMA ResolveIInv == ASSUME IInv, NEW c \in Calls, Resolve(c) PROVE IInv'
<1>1. CASE Hit(c)
  <2>1. at[c] \in Processes /\ memo[at[c]] \in Calls
    BY <1>1 DEF Hit, IInv, Typed, Placed
  <2> QED
    BY <1>1, <2>1, Gets DEF Hit, IInv, Home
<1>2. CASE Miss(c)
  BY <1>2, Moves DEF Miss, IInv, Typed, Placed, Pcs, Answers
<1>3. CASE Build(c)
  <2>1. memo' = memo \/ memo' = [memo EXCEPT ![at[c]] = c]
    BY <1>3 DEF Build, IInv, Typed
  <2> QED
    BY <1>3, <2>1, Gets DEF Build
<1> QED
  BY <1>1, <1>2, <1>3 DEF Resolve

LEMMA StartIInv == ASSUME IInv, NEW s \in Starts, StartStep(s) PROVE IInv'
<1>1. s \in Calls /\ s \notin Callbacks
  BY FlowAssumption DEF Calls
<1>2. CASE \E p \in up : ArriveStart(s, p)
  <2>1. PICK p \in up : ArriveStart(s, p)
    BY <1>2
  <2> QED
    BY <1>1, <2>1, Arrives DEF ArriveStart, Answer, Answers
<1>3. CASE Resolve(s)
  BY <1>1, <1>3, ResolveIInv
<1>4. CASE Creating(s)
  BY <1>1, <1>4, Moves DEF Creating, ReadClock, IInv, Typed, Placed, Pcs, Answers
<1>5. CASE Create(s)
  BY <1>5, Creates
<1>6. CASE Redirect(s)
  BY <1>1, <1>6, Moves DEF Redirect, Answer, IInv, Typed, Placed, Pcs, Answers
<1> QED
  BY <1>2, <1>3, <1>4, <1>5, <1>6 DEF StartStep

LEMMA CallbackIInv == ASSUME IInv, NEW c \in Callbacks, CallbackStep(c) PROVE IInv'
<1>1. c \in Calls
  BY DEF Calls
<1>2. CASE \E p \in up, s \in Starts \cup {Forged} : ArriveCallback(c, p, s)
  <2>1. PICK p \in up, s \in Starts \cup {Forged} : ArriveCallback(c, p, s)
    BY <1>2
  <2> QED
    BY <1>1, <2>1, Arrives DEF ArriveCallback, Answers
<1>3. CASE Resolve(c)
  BY <1>1, <1>3, ResolveIInv
<1>4. CASE Denied(c)
  BY <1>1, <1>4, Moves DEF Denied, Answer, IInv, Typed, Placed, Pcs, Answers
<1>5. CASE Stateless(c)
  BY <1>1, <1>5, Moves DEF Stateless, Answer, IInv, Typed, Placed, Pcs, Answers
<1>6. CASE Consuming(c)
  BY <1>1, <1>6, Moves DEF Consuming, ReadClock, IInv, Typed, Placed, Pcs, Answers
<1>7. CASE Consume(c)
  BY <1>7, Consumes
<1>8. CASE Incomplete(c)
  BY <1>1, <1>8, Moves DEF Incomplete, Answer, Accepted, IInv, Typed, Placed, Pcs, Answers
<1>9. CASE Exchange(c)
  <2>1. c \in Accepted
    BY <1>9 DEF Exchange, Accepted
  <2>2. CASE pc' = [pc EXCEPT ![c] = "save"] /\ UNCHANGED answer
    BY <1>1, <1>9, <2>1, <2>2, Moves DEF Exchange, IInv, Typed, Placed, Pcs, Answers
  <2>3. CASE Answer(c, "failed")
    BY <1>1, <1>9, <2>1, <2>3, Moves DEF Exchange, Answer, IInv, Typed, Placed, Pcs, Answers
  <2> QED
    BY <1>9, <2>2, <2>3 DEF Exchange
<1>10. CASE Save(c)
  <2>1. c \in Accepted
    BY <1>10 DEF Save, Accepted
  <2>2. PICK a \in {"connected", "failed"} : Answer(c, a)
    BY <1>10 DEF Save
  <2> QED
    BY <1>1, <1>10, <2>1, <2>2, Moves DEF Save, Answer, IInv, Typed, Placed, Pcs, Answers
<1> QED
  BY <1>2, <1>3, <1>4, <1>5, <1>6, <1>7, <1>8, <1>9, <1>10 DEF CallbackStep

\* The invariant is inductive.
LEMMA NextIInv == IInv /\ [Next]_vars => IInv'
<1> SUFFICES ASSUME IInv, [Next]_vars PROVE IInv'
  OBVIOUS
<1>1. ASSUME NEW s \in Starts, StartStep(s) PROVE IInv'
  BY <1>1, StartIInv
<1>2. ASSUME NEW c \in Callbacks, CallbackStep(c) PROVE IInv'
  BY <1>2, CallbackIInv
<1>3. CASE Tick \/ (\E p \in Processes : Stop(p)) \/ UNCHANGED vars
  <2>1. /\ UNCHANGED <<memo, states, pc, at, uses, now, state, answer>>
        /\ clock' \in Nat /\ up' \subseteq Processes
    BY <1>3 DEF Tick, Stop, vars, IInv, Typed
  <2>2. Accepted' = Accepted
    BY <2>1 DEF Accepted
  <2> QED
    BY <2>1, <2>2
    DEF IInv, Typed, Placed, Home, Minted, Spent, OnlyFreshFlows, AcceptedOnce
<1> QED
  BY <1>1, <1>2, <1>3 DEF Next, Finished

\* For any starts, callbacks and processes: however often a callback URL is
\* sent, its state is accepted once.
THEOREM StatesAreOneTime == Spec => []AcceptedOnce
<1>1. Init => IInv
  BY InitIInv
<1>2. IInv /\ [Next]_vars => IInv'
  BY NextIInv
<1>3. IInv => AcceptedOnce
  BY DEF IInv
<1> QED
  BY <1>1, <1>2, <1>3, PTL DEF Spec

\* For any TTL and any processes: an accepted state was minted by a start that
\* used the same store, less than the TTL before.
THEOREM StatesAreFresh == Spec => []OnlyFreshFlows
<1>1. Init => IInv
  BY InitIInv
<1>2. IInv /\ [Next]_vars => IInv'
  BY NextIInv
<1>3. IInv => OnlyFreshFlows
  BY DEF IInv
<1> QED
  BY <1>1, <1>2, <1>3, PTL DEF Spec
---------------------------------------------------------------------------
(***************************************************************************)
(* Why a refused callback can always be told a reason: a state that its    *)
(* store has lost was used, or purged by a request that came a TTL later.  *)
(***************************************************************************)
\* The clock is ahead of every reading of it.
Timely == clock <= MaxClock /\ \A d \in Calls : now[d] <= clock

\* A callback that carries a state got it from a redirect.
Presented ==
    \A c \in Callbacks : pc[c] # "browser" /\ state[c] # Forged =>
        state[c] \in Starts /\ answer[state[c]] = "redirect"

\* A redirect and a refused state both had a store.
Stored == \A c \in Calls : answer[c] \in {"redirect", "mismatch"} => uses[c] \in Calls

\* A request uses the store of its process, or the one it built itself.
OwnStore(c) == uses[c] # None => memo[at[c]] # None /\ uses[c] \in {memo[at[c]], c}

\* A state that was minted is in its store, or used, or too late.
IsMinted(s) == pc[s] = "discover" \/ answer[s] = "redirect"
Used(s) == \E d \in Accepted : state[d] = s
Kept(s) == IsMinted(s) => states[uses[s]][s] # Never \/ Used(s) \/ TooLate(s)

KInv ==
    /\ Timely /\ Presented /\ Stored
    /\ \A c \in Calls : OwnStore(c)
    /\ \A s \in Starts : Kept(s)
    /\ RefusalsExplained

\* What no step takes back.
GoesOn ==
    /\ \A p \in Processes : memo[p] # None => memo'[p] = memo[p]
    /\ \A d \in Calls :
          /\ uses[d] # None => uses'[d] = uses[d]
          /\ pc[d] # "browser" => at'[d] = at[d] /\ pc'[d] # "browser"
          /\ pc[d] # "browser" /\ d \in Callbacks => state'[d] = state[d]
          /\ now[d] <= now'[d]
          /\ pc[d] \in {"discover", "done"} => now'[d] = now[d]
          /\ pc[d] = "done" => pc'[d] = "done" /\ answer'[d] = answer[d]
    /\ Accepted \subseteq Accepted'

\* What a step does anew, to a request and to a state.
ArrivesWith(c) ==
    c \in Callbacks /\ pc[c] = "browser" /\ pc'[c] # "browser" /\ state'[c] # Forged =>
        state'[c] \in Starts /\ answer[state'[c]] = "redirect"
Answered(c) ==
    answer'[c] \in {"redirect", "mismatch"} /\ answer'[c] # answer[c] => uses[c] \in Calls
Receives(c) ==
    uses'[c] # uses[c] =>
        at'[c] = at[c] /\ memo'[at[c]] # None /\ uses'[c] \in {memo'[at[c]], c}
Refuses(c) ==
    c \in Callbacks /\ answer'[c] = "mismatch" /\ answer'[c] # answer[c] =>
        \/ state[c] = Forged
        \/ pc[c] = "consume" /\ ~Found(c)
Mints(s) == IsMinted(s)' /\ ~IsMinted(s) => uses[s] \in Calls /\ states'[uses[s]][s] = now[s]
Loses(s) ==
    IsMinted(s) /\ states[uses[s]][s] # Never /\ states'[uses[s]][s] = Never =>
        Used(s)' \/ TooLate(s)

Effects ==
    /\ GoesOn /\ Timely'
    /\ \A c \in Calls : ArrivesWith(c) /\ Answered(c) /\ Receives(c) /\ Refuses(c)
    /\ \A s \in Starts : Mints(s) /\ Loses(s)

\* A step that moves one request on, and no state.
LEMMA MovesEffects ==
    ASSUME IInv, Timely, NEW c \in Calls, NEW l \in Pcs, NEW a \in Answers,
           UNCHANGED <<clock, memo, states, at, uses, state>>,
           pc[c] \notin {"browser", "done"}, l # "browser",
           pc' = [pc EXCEPT ![c] = l],
           \/ answer' = [answer EXCEPT ![c] = a] /\ l = "done"
           \/ answer' = answer,
           \/ now' = now
           \/ pc[c] = "handler" /\ now' = [now EXCEPT ![c] = clock],
           c \in Accepted => l = "save" \/ (l = "done" /\ a \in {"incomplete", "failed", "connected"}
                                                      /\ answer' = [answer EXCEPT ![c] = a]),
           l = "discover" => pc[c] = "discover",
           a = "redirect" => pc[c] = "discover",
           a = "mismatch" => pc[c] = "handler" /\ (c \in Callbacks => state[c] = Forged)
    PROVE  Effects
<1>1. /\ \A d \in Calls : d # c => pc'[d] = pc[d] /\ answer'[d] = answer[d] /\ now'[d] = now[d]
      /\ pc'[c] = l /\ answer'[c] \in {answer[c], a}
      /\ now'[c] \in {now[c], clock} /\ (pc[c] # "handler" => now'[c] = now[c])
      /\ (answer'[c] = a /\ answer'[c] # answer[c] => l = "done")
  BY DEF IInv, Typed
<1>2. Accepted \subseteq Accepted'
  <2> SUFFICES ASSUME NEW d \in Accepted PROVE d \in Accepted'
    OBVIOUS
  <2>1. CASE d # c
    BY <1>1, <2>1 DEF Accepted, Calls
  <2>2. CASE d = c
    BY <1>1, <2>2 DEF Accepted, IInv, Typed
  <2> QED
    BY <2>1, <2>2
<1>3. Timely'
  BY <1>1 DEF Timely, IInv, Typed
<1>4. GoesOn
  BY <1>1, <1>2 DEF GoesOn, Timely, IInv, Typed
<1>5. \A d \in Calls : ArrivesWith(d) /\ Answered(d) /\ Receives(d) /\ Refuses(d)
  BY <1>1 DEF ArrivesWith, Answered, Receives, Refuses, IInv, Placed
<1>6. ASSUME NEW s \in Starts PROVE Mints(s) /\ Loses(s)
  <2>1. IsMinted(s)' => IsMinted(s)
    BY <1>1 DEF IsMinted, Calls
  <2> QED
    BY <2>1 DEF Mints, Loses
<1> QED
  BY <1>2, <1>3, <1>4, <1>5, <1>6 DEF Effects

LEMMA ArriveEffects ==
    ASSUME IInv, Timely, NEW c \in Calls, NEW p \in up, pc[c] = "browser",
           NEW l \in {"store", "done"},
           at' = [at EXCEPT ![c] = p], pc' = [pc EXCEPT ![c] = l],
           UNCHANGED <<clock, memo, states, uses, now>>,
           \/ /\ c \in Starts /\ state' = state
              /\ answer' = answer \/ answer' = [answer EXCEPT ![c] = "forbidden"]
           \/ /\ c \in Callbacks /\ answer' = answer
              /\ \E s \in Starts \cup {Forged} :
                    /\ s # Forged => answer[s] = "redirect"
                    /\ state' = [state EXCEPT ![c] = s]
    PROVE  Effects
<1>1. /\ \A d \in Calls : d # c => pc'[d] = pc[d] /\ at'[d] = at[d] /\ answer'[d] = answer[d]
      /\ pc'[c] = l /\ answer'[c] \in {answer[c], "forbidden"}
      /\ \A d \in Callbacks : d # c => state'[d] = state[d]
      /\ c \in Callbacks => answer' = answer
      /\ c \in Callbacks /\ state'[c] # Forged =>
            state'[c] \in Starts /\ answer[state'[c]] = "redirect"
  BY FlowAssumption DEF IInv, Typed
<1>2. Accepted \subseteq Accepted'
  BY <1>1 DEF Accepted, Calls, IInv, Placed
<1>3. Timely'
  BY <1>1 DEF Timely, IInv, Typed
<1>4. GoesOn
  BY <1>1, <1>2 DEF GoesOn, Timely, IInv, Typed
<1>5. \A d \in Calls : ArrivesWith(d) /\ Answered(d) /\ Receives(d) /\ Refuses(d)
  BY <1>1 DEF ArrivesWith, Answered, Receives, Refuses, IInv, Placed
<1>6. ASSUME NEW s \in Starts PROVE Mints(s) /\ Loses(s)
  <2>1. IsMinted(s)' => IsMinted(s)
    BY <1>1 DEF IsMinted, Calls
  <2> QED
    BY <2>1 DEF Mints, Loses
<1> QED
  BY <1>2, <1>3, <1>4, <1>5, <1>6 DEF Effects

LEMMA GetEffects ==
    ASSUME IInv, Timely, NEW c \in Calls, NEW b, Given(c, b), pc[c] \in {"store", "build"},
           UNCHANGED <<clock, states, at, now, state, answer>>,
           \/ memo' = memo /\ memo[at[c]] = b /\ b # None
           \/ b = c /\ memo' = [memo EXCEPT ![at[c]] = IF @ = None THEN c ELSE @]
    PROVE  Effects
<1>1. /\ \A d \in Calls : d # c => pc'[d] = pc[d] /\ uses'[d] = uses[d]
      /\ pc'[c] = "handler" /\ uses'[c] = b /\ uses[c] = None /\ at[c] \in Processes
      /\ memo'[at[c]] # None /\ b \in {memo'[at[c]], c}
      /\ \A p \in Processes : memo[p] # None => memo'[p] = memo[p]
  BY FlowAssumption DEF Given, IInv, Typed, Placed
<1>2. Accepted \subseteq Accepted'
  BY <1>1 DEF Accepted, Calls
<1>3. Timely'
  BY DEF Timely
<1>4. GoesOn
  BY <1>1, <1>2 DEF GoesOn, Timely, IInv, Typed
<1>5. \A d \in Calls : ArrivesWith(d) /\ Answered(d) /\ Receives(d) /\ Refuses(d)
  BY <1>1 DEF ArrivesWith, Answered, Receives, Refuses, IInv, Placed
<1>6. ASSUME NEW s \in Starts PROVE Mints(s) /\ Loses(s)
  <2>1. IsMinted(s)' => IsMinted(s)
    BY <1>1 DEF IsMinted, Calls
  <2> QED
    BY <2>1 DEF Mints, Loses
<1> QED
  BY <1>2, <1>3, <1>4, <1>5, <1>6 DEF Effects

\* What a purge takes is a TTL old.
LEMMA PurgeTakes ==
    ASSUME NEW minted \in [Starts -> Nat], NEW time \in Nat, NEW s \in Starts,
           Purged(minted, time)[s] = Never
    PROVE  minted[s] = Never \/ time >= minted[s] + TTL
BY FlowAssumption, NeverIsNat DEF Purged, Expired

LEMMA TooLateByPurge ==
    ASSUME IInv, NEW c \in Calls, NEW s \in Starts, uses[c] \in Calls, uses[s] = uses[c],
           Purged(states[uses[c]], now[c])[s] = Never, states[uses[c]][s] # Never
    PROVE  TooLate(s)
<1>1. states[uses[c]] \in [Starts -> Nat] /\ now[c] \in Nat
  BY DEF IInv, Typed
<1>2. now[c] >= states[uses[c]][s] + TTL
  BY <1>1, PurgeTakes
<1>3. states[uses[c]][s] = now[s]
  BY DEF IInv, Minted
<1> QED
  BY <1>2, <1>3 DEF TooLate

LEMMA CreateEffects == ASSUME IInv, Timely, Stored, NEW c \in Starts, Create(c) PROVE Effects
<1>1. /\ c \in Calls /\ uses[c] \in Calls /\ pc[c] = "create" /\ pc'[c] = "discover"
      /\ answer[c] = "none"
      /\ \A d \in Calls : d # c => pc'[d] = pc[d]
      /\ UNCHANGED <<clock, memo, at, uses, now, state, answer>>
  BY DEF IInv, Typed, Placed, Create, Calls
<1>2. Accepted \subseteq Accepted'
  BY <1>1 DEF Accepted, Calls
<1>3. Timely'
  BY <1>1 DEF Timely
<1>4. GoesOn
  BY <1>1, <1>2 DEF GoesOn, Timely, IInv, Typed
<1>5. \A d \in Calls : ArrivesWith(d) /\ Answered(d) /\ Receives(d) /\ Refuses(d)
  BY <1>1 DEF ArrivesWith, Answered, Receives, Refuses
<1> DEFINE left == Purged(states[uses[c]], now[c])
<1>6. /\ states'[uses[c]][c] = now[c]
      /\ \A s \in Starts : s # c => states'[uses[c]][s] = left[s]
      /\ \A b \in Calls : b # uses[c] => states'[b] = states[b]
  <2>1. left \in [Starts -> Nat]
    BY <1>1, PurgeKeeps DEF IInv, Typed
  <2>2. states' = [states EXCEPT ![uses[c]] = [left EXCEPT ![c] = now[c]]]
    BY DEF Create
  <2> HIDE DEF left
  <2> QED
    BY <1>1, <2>1, <2>2 DEF IInv, Typed
<1>7. ASSUME NEW s \in Starts PROVE Mints(s) /\ Loses(s)
  <2>1. CASE s = c
    BY <1>1, <1>6, <2>1 DEF Mints, Loses, IsMinted
  <2>2. CASE s # c
    <3>1. IsMinted(s)' = IsMinted(s)
      BY <1>1, <2>2 DEF IsMinted, Calls
    <3>2. Mints(s)
      BY <3>1 DEF Mints
    <3>3. ASSUME states[uses[s]][s] # Never, states'[uses[s]][s] = Never, IsMinted(s)
          PROVE  TooLate(s)
      <4>1. uses[s] \in Calls
        BY <3>3 DEF Stored, IInv, IsMinted, Placed, Calls
      <4>2. uses[s] = uses[c]
        BY <1>1, <1>6, <3>3, <4>1
      <4> QED
        BY <1>1, <1>6, <2>2, <3>3, <4>2, TooLateByPurge
    <3> QED
      BY <1>1, <3>2, <3>3 DEF Loses
  <2> QED
    BY <2>1, <2>2
<1> QED
  BY <1>2, <1>3, <1>4, <1>5, <1>7 DEF Effects

LEMMA ConsumeEffects == ASSUME IInv, Timely, Stored, NEW c \in Callbacks, Consume(c) PROVE Effects
<1>1. /\ c \in Calls /\ c \notin Starts /\ uses[c] \in Calls /\ pc[c] = "consume"
      /\ answer[c] = "none"
      /\ UNCHANGED <<clock, memo, at, uses, now, state>>
      /\ \A d \in Calls : d # c => pc'[d] = pc[d] /\ answer'[d] = answer[d]
      /\ Found(c) => pc'[c] = "consumed" /\ answer'[c] = answer[c]
      /\ ~Found(c) => pc'[c] = "done" /\ answer'[c] = "mismatch"
  BY FlowAssumption DEF IInv, Typed, Placed, Consume, Answer, Calls
<1>2. Accepted \subseteq Accepted' /\ (Found(c) => c \in Accepted')
  BY <1>1 DEF Accepted, Calls
<1>3. Timely'
  BY <1>1 DEF Timely
<1>4. GoesOn
  BY <1>1, <1>2 DEF GoesOn, Timely, IInv, Typed
<1>5. \A d \in Calls : ArrivesWith(d) /\ Answered(d) /\ Receives(d) /\ Refuses(d)
  BY <1>1 DEF ArrivesWith, Answered, Receives, Refuses
<1> DEFINE left == Purged(states[uses[c]], now[c])
<1>6. /\ \A s \in Starts : s # state[c] => states'[uses[c]][s] = left[s]
      /\ \A b \in Calls : b # uses[c] => states'[b] = states[b]
  BY <1>1 DEF Consume, Popped, IInv, Typed
<1>7. ASSUME NEW s \in Starts PROVE Mints(s) /\ Loses(s)
  <2>1. IsMinted(s)' = IsMinted(s)
    BY <1>1 DEF IsMinted, Calls
  <2>2. Mints(s)
    BY <2>1 DEF Mints
  <2>3. ASSUME states[uses[s]][s] # Never, states'[uses[s]][s] = Never, IsMinted(s)
        PROVE  Used(s)' \/ TooLate(s)
    <3>1. uses[s] \in Calls
      BY <2>3 DEF Stored, IInv, IsMinted, Placed, Calls
    <3>2. uses[s] = uses[c]
      BY <1>1, <1>6, <2>3, <3>1
    <3>3. CASE left[s] = Never
      BY <1>1, <2>3, <3>2, <3>3, TooLateByPurge DEF Calls
    <3>4. CASE left[s] # Never
      <4>1. s = state[c]
        BY <1>6, <2>3, <3>2, <3>4
      <4>2. Found(c)
        BY <3>4, <4>1, FlowAssumption DEF Found
      <4> QED
        BY <1>1, <1>2, <4>1, <4>2 DEF Used
    <3> QED
      BY <3>3, <3>4
  <2> QED
    BY <2>2, <2>3 DEF Loses
<1> QED
  BY <1>2, <1>3, <1>4, <1>5, <1>7 DEF Effects

LEMMA ResolveEffects == ASSUME IInv, Timely, NEW c \in Calls, Resolve(c) PROVE Effects
<1>1. CASE Hit(c)
  BY <1>1, GetEffects DEF Hit
<1>2. CASE Miss(c)
  <2>1. c \notin Accepted
    BY <1>2 DEF Miss, Accepted, IInv, Placed
  <2> QED
    BY <1>2, <2>1, MovesEffects DEF Miss, Pcs, Answers
<1>3. CASE Build(c)
  BY <1>3, GetEffects DEF Build
<1> QED
  BY <1>1, <1>2, <1>3 DEF Resolve

LEMMA StartEffects == ASSUME IInv, Timely, Stored, NEW s \in Starts, StartStep(s) PROVE Effects
<1>1. s \in Calls /\ s \notin Callbacks /\ s \notin Accepted
  BY FlowAssumption DEF Calls, Accepted
<1>2. ASSUME NEW p \in up, ArriveStart(s, p) PROVE Effects
  BY <1>1, <1>2, ArriveEffects DEF ArriveStart, Answer
<1>3. CASE Resolve(s)
  BY <1>1, <1>3, ResolveEffects
<1>4. CASE Creating(s)
  BY <1>1, <1>4, MovesEffects DEF Creating, ReadClock, Pcs, Answers
<1>5. CASE Create(s)
  BY <1>5, CreateEffects
<1>6. CASE Redirect(s)
  BY <1>1, <1>6, MovesEffects DEF Redirect, Answer, Pcs, Answers
<1> QED
  BY <1>2, <1>3, <1>4, <1>5, <1>6 DEF StartStep

LEMMA CallbackEffects ==
    ASSUME IInv, Timely, Stored, NEW c \in Callbacks, CallbackStep(c) PROVE Effects
<1>1. c \in Calls
  BY DEF Calls
<1>2. ASSUME NEW p \in up, NEW s \in Starts \cup {Forged}, ArriveCallback(c, p, s) PROVE Effects
  BY <1>1, <1>2, ArriveEffects DEF ArriveCallback
<1>3. CASE Resolve(c)
  BY <1>1, <1>3, ResolveEffects
<1>4. pc[c] = "handler" => c \notin Accepted
  BY <1>1 DEF Accepted, IInv, Placed
<1>5. CASE Denied(c)
  BY <1>1, <1>4, <1>5, MovesEffects DEF Denied, Answer, Pcs, Answers
<1>6. CASE Stateless(c)
  BY <1>1, <1>4, <1>6, MovesEffects DEF Stateless, Answer, Pcs, Answers
<1>7. CASE Consuming(c)
  BY <1>1, <1>4, <1>7, MovesEffects DEF Consuming, ReadClock, Pcs, Answers
<1>8. CASE Consume(c)
  BY <1>8, ConsumeEffects
<1>9. CASE Incomplete(c)
  BY <1>1, <1>9, MovesEffects DEF Incomplete, Answer, Pcs, Answers
<1>10. CASE Exchange(c)
  BY <1>1, <1>10, MovesEffects DEF Exchange, Answer, Pcs, Answers
<1>11. CASE Save(c)
  BY <1>1, <1>11, MovesEffects DEF Save, Answer, Pcs, Answers
<1> QED
  BY <1>2, <1>3, <1>5, <1>6, <1>7, <1>8, <1>9, <1>10, <1>11 DEF CallbackStep

LEMMA NextEffects == ASSUME IInv, Timely, Stored, [Next]_vars PROVE Effects
<1>1. CASE Tick \/ (\E p \in Processes : Stop(p)) \/ UNCHANGED vars
  <2>1. /\ UNCHANGED <<memo, states, pc, at, uses, now, state, answer>>
        /\ clock' # clock => clock < MaxClock /\ clock' = clock + 1
    BY <1>1 DEF Tick, Stop, vars
  <2>2. Accepted' = Accepted
    BY <2>1 DEF Accepted
  <2>3. Timely'
    BY <2>1, FlowAssumption DEF Timely, IInv, Typed
  <2>4. GoesOn
    BY <2>1, <2>2 DEF GoesOn, IInv, Typed
  <2>5. \A d \in Calls : ArrivesWith(d) /\ Answered(d) /\ Receives(d) /\ Refuses(d)
    BY <2>1 DEF ArrivesWith, Answered, Receives, Refuses
  <2>6. \A s \in Starts : Mints(s) /\ Loses(s)
    BY <2>1 DEF Mints, Loses, IsMinted
  <2> QED
    BY <2>3, <2>4, <2>5, <2>6 DEF Effects
<1> QED
  BY <1>1, StartEffects, CallbackEffects DEF Next, Finished

LEMMA UsedStays == ASSUME IInv, GoesOn, NEW s, Used(s) PROVE Used(s)'
<1>1. PICK d \in Accepted : state[d] = s
  BY DEF Used
<1>2. d \in Callbacks /\ d \in Calls /\ pc[d] # "browser"
  BY DEF Accepted, Calls, IInv, Placed
<1> QED
  BY <1>1, <1>2 DEF GoesOn, Used

LEMMA TooLateStays ==
    ASSUME IInv, IInv', GoesOn, NEW s \in Starts, IsMinted(s), uses[s] \in Calls, TooLate(s)
    PROVE  TooLate(s)'
<1>1. PICK d \in Calls : uses[d] = uses[s] /\ now[d] >= now[s] + TTL
  BY DEF TooLate
<1>2. s \in Calls /\ pc[s] \in {"discover", "done"}
  BY DEF IsMinted, Calls, IInv, Placed
<1>3. uses[s] # None /\ uses[d] # None
  BY <1>1, FlowAssumption
<1>4. uses'[d] = uses'[s] /\ now'[s] = now[s] /\ now[d] <= now'[d]
  BY <1>1, <1>2, <1>3 DEF GoesOn
<1>5. now[d] \in Nat /\ now[s] \in Nat /\ now'[d] \in Nat
  BY <1>2 DEF IInv, Typed
<1> QED
  BY <1>1, <1>4, <1>5, FlowAssumption DEF TooLate

\* The reasons for a refusal stay reasons.
Explained(c) ==
    LET s == state[c] IN
    \/ s = Forged
    \/ Used(s)
    \/ TooLate(s) \/ Elsewhere(c, s) \/ LostRace(c) \/ LostRace(s)

LEMMA RaceStays ==
    ASSUME IInv, GoesOn, NEW c \in Calls, OwnStore(c), uses[c] \in Calls
    PROVE  /\ uses'[c] = uses[c] /\ at'[c] = at[c] /\ memo'[at[c]] = memo[at[c]]
           /\ LostRace(c) => LostRace(c)'
<1>1. uses[c] # None /\ memo[at[c]] # None
  BY FlowAssumption DEF OwnStore
<1>2. pc[c] # "browser" /\ at[c] \in Processes
  BY <1>1 DEF IInv, Placed
<1> QED
  BY <1>1, <1>2 DEF GoesOn, LostRace

LEMMA ExplainedStays ==
    ASSUME IInv, IInv', KInv, GoesOn, NEW c \in Callbacks, uses[c] \in Calls, Explained(c),
           NEW s, s = state[c]
    PROVE  Explained(c)'
<1>1. c \in Calls /\ pc[c] # "browser"
  BY FlowAssumption DEF Calls, IInv, Placed
<1>2. state'[c] = s
  BY <1>1 DEF GoesOn
<1>3. CASE s = Forged
  BY <1>2, <1>3 DEF Explained
<1>4. CASE s # Forged
  <2>1. s \in Starts /\ s \in Calls /\ answer[s] = "redirect" /\ uses[s] \in Calls
    BY <1>1, <1>4 DEF KInv, Presented, Stored, Calls
  <2>2. IsMinted(s)
    BY <2>1 DEF IsMinted
  <2>3. /\ at'[c] = at[c] /\ (LostRace(c) => LostRace(c)')
        /\ at'[s] = at[s] /\ (LostRace(s) => LostRace(s)')
    BY <1>1, <2>1, RaceStays DEF KInv
  <2>4. Used(s) => Used(s)'
    BY UsedStays
  <2>5. TooLate(s) => TooLate(s)'
    BY <2>1, <2>2, TooLateStays
  <2>6. Elsewhere(c, s) => Elsewhere(c, s)'
    BY <2>3 DEF Elsewhere
  <2>7. Used(s) \/ TooLate(s) \/ Elsewhere(c, s) \/ LostRace(c) \/ LostRace(s)
    BY <1>4 DEF Explained
  <2>8. Used(s)' \/ TooLate(s)' \/ Elsewhere(c, s)' \/ LostRace(c)' \/ LostRace(s)'
    BY <2>3, <2>4, <2>5, <2>6, <2>7
  <2> QED
    BY <1>2, <2>8 DEF Explained
<1> QED
  BY <1>3, <1>4

\* A state that is not found when it is consumed was lost for a reason.
LEMMA NotFoundIsExplained ==
    ASSUME IInv, KInv, NEW c \in Callbacks, pc[c] = "consume", ~Found(c)
    PROVE  Explained(c)
<1> DEFINE s == state[c]
<1>1. c \in Calls /\ uses[c] \in Calls
  BY DEF Calls, IInv, Placed
<1>2. CASE s = Forged
  BY <1>2 DEF Explained
<1>3. CASE s # Forged
  <2>1. s \in Starts /\ s \in Calls /\ answer[s] = "redirect" /\ uses[s] \in Calls
    BY <1>3 DEF KInv, Presented, Stored, Calls
  <2>2. Purged(states[uses[c]], now[c])[s] = Never
    BY <1>3 DEF Found
  <2>3. CASE at[c] = at[s] /\ ~LostRace(c) /\ ~LostRace(s)
    <3>1. OwnStore(c) /\ OwnStore(s)
      BY <1>1, <2>1 DEF KInv
    <3>2. uses[s] = uses[c]
      BY <1>1, <2>1, <2>3, <3>1, FlowAssumption DEF OwnStore, LostRace
    <3>3. CASE states[uses[c]][s] # Never
      BY <1>1, <2>1, <2>2, <3>2, <3>3, TooLateByPurge DEF Explained
    <3>4. CASE states[uses[c]][s] = Never
      <4>1. Kept(s) /\ IsMinted(s)
        BY <2>1 DEF KInv, IsMinted
      <4> QED
        BY <3>2, <3>4, <4>1 DEF Kept, Explained
    <3> QED
      BY <3>3, <3>4
  <2> QED
    BY <2>3 DEF Explained, Elsewhere
<1> QED
  BY <1>2, <1>3

LEMMA KStays == ASSUME IInv, KInv, [Next]_vars PROVE KInv'
<1>1. IInv' /\ Effects /\ GoesOn /\ Timely'
  BY NextIInv, NextEffects DEF KInv, Effects
<1>2. Presented'
  <2> SUFFICES ASSUME NEW c \in Callbacks, pc'[c] # "browser", state'[c] # Forged
               PROVE  state'[c] \in Starts /\ answer'[state'[c]] = "redirect"
    BY DEF Presented
  <2>1. c \in Calls
    BY DEF Calls
  <2>2. state'[c] \in Starts /\ answer[state'[c]] = "redirect"
    BY <1>1, <2>1 DEF KInv, Presented, Effects, ArrivesWith, GoesOn
  <2>3. state'[c] \in Calls /\ pc[state'[c]] = "done"
    BY <2>2 DEF Calls, IInv, Placed
  <2> QED
    BY <1>1, <2>2, <2>3 DEF GoesOn
<1>3. Stored'
  <2> SUFFICES ASSUME NEW c \in Calls, answer'[c] \in {"redirect", "mismatch"}
               PROVE  uses'[c] \in Calls
    BY DEF Stored
  <2>1. uses[c] \in Calls
    BY <1>1 DEF KInv, Stored, Effects, Answered
  <2> QED
    BY <1>1, <2>1, FlowAssumption DEF GoesOn
<1>4. ASSUME NEW c \in Calls PROVE OwnStore(c)'
  <2>1. CASE uses[c] # None
    <3>1. uses[c] \in Calls
      BY <2>1 DEF IInv, Typed
    <3> QED
      BY <1>1, <2>1, <3>1, RaceStays DEF KInv, OwnStore
  <2>2. CASE uses[c] = None
    BY <1>1, <2>2 DEF Effects, Receives, OwnStore
  <2> QED
    BY <2>1, <2>2
<1>5. ASSUME NEW s \in Starts, IsMinted(s)'
      PROVE  states'[uses'[s]][s] # Never \/ Used(s)' \/ TooLate(s)'
  <2>1. s \in Calls /\ now[s] \in Nat
    BY DEF Calls, IInv, Typed
  <2>2. CASE ~IsMinted(s)
    <3>1. uses[s] \in Calls /\ states'[uses[s]][s] = now[s]
      BY <1>1, <1>5, <2>2 DEF Effects, Mints
    <3>2. uses'[s] = uses[s]
      BY <1>1, <2>1, <3>1, FlowAssumption DEF GoesOn
    <3>3. now[s] # Never
      BY <2>1, FlowAssumption DEF KInv, Timely, Never, IInv, Typed
    <3> QED
      BY <3>1, <3>2, <3>3
  <2>3. CASE IsMinted(s)
    <3>1. uses[s] \in Calls
      BY <2>1, <2>3 DEF IsMinted, KInv, Stored, IInv, Placed
    <3>2. uses'[s] = uses[s]
      BY <1>1, <2>1, <3>1, FlowAssumption DEF GoesOn
    <3>3. states[uses[s]][s] # Never \/ Used(s) \/ TooLate(s)
      BY <2>3 DEF KInv, Kept
    <3>4. TooLate(s) => TooLate(s)'
      BY <1>1, <2>3, <3>1, TooLateStays
    <3>5. Used(s) => Used(s)'
      BY <1>1, UsedStays
    <3>6. Loses(s)
      BY <1>1 DEF Effects
    <3> QED
      BY <2>3, <3>2, <3>3, <3>4, <3>5, <3>6 DEF Loses
  <2> QED
    BY <2>2, <2>3
<1>6. RefusalsExplained'
  <2>1. ASSUME NEW c \in Callbacks, answer'[c] = "mismatch" PROVE Explained(c)'
    <3>1. c \in Calls
      BY DEF Calls
    <3>2. CASE answer[c] = "mismatch"
      <4>1. Explained(c) /\ uses[c] \in Calls
        BY <3>1, <3>2 DEF KInv, Stored, RefusalsExplained, Explained, Used
      <4> QED
        BY <1>1, <4>1, ExplainedStays
    <3>3. CASE answer[c] # "mismatch"
      <4>1. Refuses(c) /\ uses[c] \in Calls
        BY <1>1, <2>1, <3>1, <3>3 DEF Effects, Answered
      <4>2. Explained(c)
        BY <2>1, <3>3, <4>1, NotFoundIsExplained DEF Refuses, Explained
      <4> QED
        BY <1>1, <4>1, <4>2, ExplainedStays
    <3> QED
      BY <3>2, <3>3
  <2> QED
    BY <2>1 DEF RefusalsExplained, Explained, Used
<1> QED
  BY <1>1, <1>2, <1>3, <1>4, <1>5, <1>6 DEF KInv, Kept

\* "leaving the state intact lets the operator retry": for any starts,
\* callbacks and processes, a callback is refused only for a reason that
\* RefusalsExplained lists, never because another flow took its state.
THEOREM NoRefusalWithoutReason == Spec => []RefusalsExplained
<1>1. Init => IInv
  BY InitIInv
<1>2. Init => KInv
  <2> SUFFICES ASSUME Init PROVE KInv
    OBVIOUS
  <2>1. Timely /\ Presented /\ Stored
    BY FlowAssumption DEF Init, Timely, Presented, Stored, Calls
  <2>2. (\A c \in Calls : OwnStore(c)) /\ (\A s \in Starts : Kept(s)) /\ RefusalsExplained
    BY FlowAssumption DEF Init, OwnStore, Kept, IsMinted, RefusalsExplained, Calls
  <2> QED
    BY <2>1, <2>2 DEF KInv
<1>3. IInv /\ [Next]_vars => IInv'
  BY NextIInv
<1>4. IInv /\ KInv /\ [Next]_vars => KInv'
  BY KStays
<1>5. KInv => RefusalsExplained
  BY DEF KInv
<1> QED
  BY <1>1, <1>2, <1>3, <1>4, <1>5, PTL DEF Spec
=============================================================================
