-------------------------- MODULE SeedSandboxProofs --------------------------
(***************************************************************************)
(* The state file of scripts/seed_sandbox.py tells the truth, and a rerun  *)
(* copies again only what the script has no word of; parents come first,   *)
(* and a whole run copies all there is: for every export, every command    *)
(* line and every number of runs and faults.                               *)
(***************************************************************************)
EXTENDS SeedSandbox, FiniteSetTheorems, SequenceTheorems, TLAPS

IsTrue(map) == \A r \in DOMAIN map :
                  map[r] \in DOMAIN sandbox /\ sandbox[map[r]].of = r

Copied == {sandbox[i].of : i \in DOMAIN sandbox}

\* The sandbox is a list of records, and the file keeps its shape.
Shapes ==
    /\ sandbox \in Seq(Range(sandbox))
    /\ DOMAIN file = {"torn", "map"}

\* A POST and a save belong to a run that is not dry, and to a record that is
\* on the list.
Posting ==
    /\ pc \in {"post", "save", "write"} => ~opts.dry
    /\ pc = "post" => Here \notin Known
    /\ pc \in {"save", "write"} => Here \in Known

\* Both maps are true, but for that of a dry run, and the script knows all the
\* file says.
Maps ==
    /\ IsTrue(file.map)
    /\ pc # "idle" /\ ~opts.dry => IsTrue(state)
    /\ pc # "idle" => DOMAIN file.map \subseteq Known

\* A copy is in the file, or about to be saved, or in doubt.
Accounted ==
    \A r \in Copied : \/ r \in doubtful \cup DOMAIN file.map
                      \/ pc \in {"save", "write"} /\ r = Here

IInv == Shapes /\ Posting /\ Maps /\ Accounted

\* What a POST that takes effect does to the sandbox.
LEMMA CreateAppends ==
    ASSUME Shapes, Create
    PROVE  /\ sandbox' \in Seq(Range(sandbox'))
           /\ Len(sandbox') \in DOMAIN sandbox'
           /\ sandbox'[Len(sandbox')].of = Here
           /\ Here \notin Copied
           /\ \A i \in DOMAIN sandbox : i \in DOMAIN sandbox' /\ sandbox'[i] = sandbox[i]
           /\ Copied' = Copied \cup {Here}
  <1> DEFINE new == [of |-> Here, parent |-> ParentRef(Here)]
             All == Range(sandbox) \cup {new}
  <1>1. sandbox \in Seq(All) /\ new \in All /\ sandbox' = Append(sandbox, new)
    BY SMT DEF Shapes, Create
  <1>2. new.of = Here
    OBVIOUS
  <1> HIDE DEF new, All
  <1>3. /\ sandbox' \in Seq(All) /\ Len(sandbox') = Len(sandbox) + 1
        /\ DOMAIN sandbox' = 1 .. Len(sandbox) + 1 /\ DOMAIN sandbox = 1 .. Len(sandbox)
        /\ Len(sandbox) \in Nat
        /\ \A i \in DOMAIN sandbox : sandbox'[i] = sandbox[i]
        /\ sandbox'[Len(sandbox) + 1] = new
    BY <1>1, SMT
  <1>4. sandbox' \in Seq(Range(sandbox'))
    BY <1>3, SMT DEF Range
  <1>5. Here \notin Copied
    BY DEF Create, Copied
  <1>6. Copied' = Copied \cup {Here}
    BY <1>2, <1>3, SMT DEF Copied
  <1>7. \A i \in DOMAIN sandbox : i \in DOMAIN sandbox'
    BY <1>3, SMT
  <1> QED BY <1>2, <1>3, <1>4, <1>5, <1>6, <1>7, SMT

\* A map that is true stays true when the sandbox gains a copy, or does not.
LEMMA TrueStays ==
    ASSUME Shapes, Create \/ UNCHANGED sandbox, NEW map, IsTrue(map)
    PROVE  \A r \in DOMAIN map : map[r] \in DOMAIN sandbox' /\ sandbox'[map[r]].of = r
  <1>1. CASE UNCHANGED sandbox
    BY <1>1 DEF IsTrue
  <1>2. CASE Create
    <2>1. \A i \in DOMAIN sandbox : i \in DOMAIN sandbox' /\ sandbox'[i] = sandbox[i]
      BY <1>2, CreateAppends
    <2> QED BY <2>1 DEF IsTrue
  <1> QED BY <1>1, <1>2

LEMMA InitIInv == Init => IInv
  <1> SUFFICES ASSUME Init PROVE IInv
    OBVIOUS
  <1>1. Shapes
    BY SMT DEF Init, Shapes, Range
  <1>2. Posting /\ Maps /\ Accounted
    BY SMT DEF Init, Posting, Maps, IsTrue, Accounted, Copied, NoMap
  <1> QED BY <1>1, <1>2 DEF IInv

\* Steps that touch neither the sandbox nor the file, and stay in the run.
LEMMA Within ==
    ASSUME IInv, UNCHANGED copies, UNCHANGED state, UNCHANGED opts,
           pc # "idle", pc \notin {"save", "write"}, pc' \in {"pass", "sort", "next"}
    PROVE  IInv'
  BY SMT DEF IInv, Shapes, Posting, Maps, IsTrue, Accounted, Copied, Known, copies, Range

\* The script stops: nothing it had in memory matters any more.
LEMMA Stopping ==
    ASSUME IInv, NEW how, Stop(how), UNCHANGED file,
           Create \/ UNCHANGED sandbox,
           doubtful \subseteq doubtful',
           pc \in {"post", "save", "write"} => Here \in doubtful',
           Create => pc = "post"
    PROVE  IInv'
  <1>1. Shapes'
    BY CreateAppends, SMT DEF IInv, Shapes, Range
  <1>2. Posting'
    BY DEF Posting, Stop
  <1>3. Maps'
    BY TrueStays DEF IInv, Maps, IsTrue, Stop
  <1>4. Copied' = Copied \/ (Copied' = Copied \cup {Here} /\ pc = "post")
    BY CreateAppends DEF IInv, Copied
  <1>5. Accounted'
    BY <1>4, SMT DEF IInv, Accounted, Stop
  <1> QED BY <1>1, <1>2, <1>3, <1>5 DEF IInv

\* A POST that has no word of its record, and is followed by another one or by
\* the next record.
LEMMA Doubting ==
    ASSUME IInv, pc = "post", Doubt, Create \/ UNCHANGED sandbox,
           UNCHANGED <<file, state, opts>>,
           pc' = "next" \/ (pc' = "post" /\ UNCHANGED todo)
    PROVE  IInv'
  <1>1. Shapes'
    BY CreateAppends, SMT DEF IInv, Shapes, Range
  <1>2. Posting'
    BY SMT DEF IInv, Posting, Known, Here
  <1>3. Maps'
    <2>1. IsTrue(file.map)'
      BY TrueStays DEF IInv, Maps, IsTrue
    <2>2. ~opts.dry => IsTrue(state)'
      BY TrueStays DEF IInv, Maps, IsTrue
    <2> QED BY <2>1, <2>2 DEF IInv, Maps, Known
  <1>4. Copied' \subseteq Copied \cup {Here}
    BY CreateAppends DEF IInv, Copied
  <1>5. Accounted'
    BY <1>4, SMT DEF IInv, Accounted, Doubt
  <1> QED BY <1>1, <1>2, <1>3, <1>5 DEF IInv

\* A POST that answers with an id: the script's map gains it.
LEMMA Creating == ASSUME IInv, Created PROVE IInv'
  <1> DEFINE id == Len(sandbox')
  <1>1. /\ pc = "post" /\ Create /\ state' = Noted(id) /\ doubtful' = doubtful \ {Here}
        /\ pc' = "save" /\ UNCHANGED <<opts, file, todo>>
    BY DEF Created, run
  <1>2. /\ sandbox' \in Seq(Range(sandbox')) /\ id \in DOMAIN sandbox'
        /\ sandbox'[id].of = Here /\ Here \notin Copied
        /\ Copied' = Copied \cup {Here}
    BY <1>1, CreateAppends DEF IInv
  <1>3. ~opts.dry /\ IsTrue(state) /\ IsTrue(file.map) /\ DOMAIN file.map \subseteq Known
    BY <1>1 DEF IInv, Posting, Maps
  <1>4. /\ \A r \in DOMAIN state : state[r] \in DOMAIN sandbox' /\ sandbox'[state[r]].of = r
        /\ \A r \in DOMAIN file.map :
              file.map[r] \in DOMAIN sandbox' /\ sandbox'[file.map[r]].of = r
    BY <1>1, <1>3, TrueStays DEF IInv
  <1> HIDE DEF id
  <1>5. /\ DOMAIN state' = Known \cup {Here} /\ Here' = Here
        /\ \A r \in DOMAIN state' : state'[r] = IF r = Here THEN id ELSE state[r]
    BY <1>1 DEF Noted, Known, Here
  <1>6. Shapes'
    BY <1>1, <1>2 DEF IInv, Shapes
  <1>7. Posting'
    BY <1>1, <1>3, <1>5 DEF Posting, Known
  <1>8. Maps'
    <2>1. IsTrue(state)'
      BY <1>2, <1>4, <1>5 DEF IsTrue, Known
    <2>2. IsTrue(file.map)'
      BY <1>1, <1>4 DEF IsTrue
    <2> QED BY <1>1, <1>3, <1>5, <2>1, <2>2 DEF Maps, Known
  <1>9. Accounted'
    BY <1>1, <1>2, <1>5 DEF IInv, Accounted
  <1> QED BY <1>6, <1>7, <1>8, <1>9 DEF IInv

LEMMA NextIInv == IInv /\ [Next]_vars => IInv'
  <1> SUFFICES ASSUME IInv, [Next]_vars PROVE IInv'
    OBVIOUS
  <1> USE DEF NextRecord
  <1>1. CASE BeginPass \/ Place \/ Defer \/ NextSweep \/ Sorted \/ EndPass
    <2>1. /\ UNCHANGED copies /\ UNCHANGED state /\ UNCHANGED opts
          /\ pc \in {"pass", "sort", "next"} /\ pc' \in {"pass", "sort", "next"}
      BY <1>1 DEF BeginPass, Place, Defer, NextSweep, Sorted, EndPass, run
    <2> QED BY <2>1, Within
  <1>2. CASE SkipCopied \/ SkipItem
    <2>1. UNCHANGED copies /\ UNCHANGED state /\ UNCHANGED opts /\ pc = "next" /\ pc' = "next"
      BY <1>2 DEF SkipCopied, SkipItem, run
    <2> QED BY <2>1, Within
  <1>3. CASE EndRun \/ AccountsFail
    <2>1. PICK how : Stop(how)
      BY <1>3 DEF EndRun, AccountsFail
    <2>2. pc = "pass" /\ UNCHANGED copies
      BY <1>3 DEF EndRun, AccountsFail
    <2>3. Create \/ UNCHANGED sandbox
      BY <2>2 DEF copies
    <2>4. CASE Create
      <3>1. Here \in Copied'
        BY <2>4, CreateAppends DEF IInv
      <3>2. Here \notin Copied
        BY <2>4, CreateAppends DEF IInv
      <3> QED BY <2>2, <3>1, <3>2 DEF copies, Copied
    <2> QED BY <2>1, <2>2, <2>3, <2>4, Stopping DEF copies
  <1>4. CASE MarkDry
    <2>1. /\ pc = "next" /\ pc' = "next" /\ opts.dry /\ UNCHANGED <<sandbox, file, doubtful, opts>>
          /\ DOMAIN state \subseteq DOMAIN state'
      BY <1>4 DEF MarkDry, Noted, Known, run, copies
    <2> QED BY <2>1, SMT
             DEF IInv, Shapes, Posting, Maps, IsTrue, Accounted, Copied, Known, Range
  <1>5. CASE BeginPost
    <2>1. /\ pc = "next" /\ pc' = "post" /\ ~opts.dry /\ Here \notin Known
          /\ UNCHANGED <<sandbox, file, doubtful, opts, state, todo>>
      BY <1>5 DEF BeginPost, Wanted, run, copies
    <2> QED BY <2>1, SMT
             DEF IInv, Shapes, Posting, Maps, IsTrue, Accounted, Copied, Known, Range, Here
  <1>6. CASE Created
    BY <1>6, Creating
  <1>7. CASE CreatedWithoutId \/ Refused \/ Busy
    <2>1. /\ pc = "post" /\ Doubt /\ UNCHANGED <<file, state, opts>>
          /\ Create \/ UNCHANGED sandbox
          /\ pc' = "next" \/ (pc' = "post" /\ UNCHANGED todo)
      BY <1>7 DEF CreatedWithoutId, Refused, Busy, Logged, Again, Effect, run
    <2> QED BY <2>1, Doubting
  <1>8. CASE Limited
    <2>1. CASE Again
      <3>1. /\ pc = "post" /\ Doubt /\ UNCHANGED <<file, state, opts>>
            /\ UNCHANGED sandbox /\ pc' = "post" /\ UNCHANGED todo
        BY <1>8, <2>1 DEF Limited, Again, run
      <3> QED BY <3>1, Doubting
    <2>2. CASE Doubt /\ Stop("stopped") /\ UNCHANGED file
      BY <1>8, <2>2, Stopping DEF Limited, Doubt
    <2> QED BY <1>8, <2>1, <2>2 DEF Limited
  <1>9. CASE Escapes
    <2>1. /\ pc = "post" /\ Doubt /\ Stop("stopped") /\ UNCHANGED file
          /\ Create \/ UNCHANGED sandbox
      BY <1>9 DEF Escapes, Effect
    <2> QED BY <2>1, Stopping DEF Doubt
  <1>10. CASE Truncate
    <2>1. /\ pc = "save" /\ pc' = "write" /\ UNCHANGED <<sandbox, doubtful, opts, state, todo>>
          /\ file' = [file EXCEPT !.torn = TRUE]
      BY <1>10 DEF Truncate, run
    <2>2. file'.map = file.map /\ DOMAIN file' = {"torn", "map"}
      BY <2>1, SMT DEF IInv, Shapes
    <2> HIDE <1>10
    <2>3. Shapes'
      BY <2>1, <2>2 DEF IInv, Shapes
    <2>4. Posting' /\ Maps'
      BY <2>1, <2>2, SMT DEF IInv, Posting, Maps, IsTrue, Known, Here
    <2>5. Accounted'
      BY <2>1, <2>2, SMT DEF IInv, Accounted, Copied, Here
    <2> QED BY <2>3, <2>4, <2>5 DEF IInv
  <1>11. CASE Save
    <2>1. /\ pc = "write" /\ pc' = "next" /\ UNCHANGED <<sandbox, doubtful, opts, state>>
          /\ file' = [torn |-> FALSE, map |-> state]
      BY <1>11 DEF Save, run
    <2>2. file'.map = state /\ DOMAIN file' = {"torn", "map"}
      BY <2>1, SMT
    <2>3. Shapes'
      BY <2>1, <2>2 DEF IInv, Shapes
    <2>4. Posting' /\ Maps'
      BY <2>1, <2>2, SMT DEF IInv, Posting, Maps, IsTrue, Known
    <2>5. Accounted'
      BY <2>1, <2>2, SMT DEF IInv, Accounted, Copied, Posting, Maps, Known
    <2> QED BY <2>3, <2>4, <2>5 DEF IInv
  <1>12. CASE \E o \in Options : Start(o)
    <2>1. PICK o \in Options : Start(o)
      BY <1>12
    <2>2. pc = "idle" /\ UNCHANGED <<sandbox, file, doubtful>>
      BY <2>1 DEF Start, copies
    <2>3. \/ pc' = "idle"
          \/ pc' = "pass" /\ state' = file.map
      BY <2>1 DEF Start, Stop
    <2> QED BY <2>2, <2>3, SMT
             DEF IInv, Shapes, Posting, Maps, IsTrue, Accounted, Copied, Known, Range
  <1>13. CASE Crash
    <2>1. /\ Stop("stopped") /\ UNCHANGED file
          /\ (Create /\ pc = "post") \/ UNCHANGED sandbox
          /\ IF pc \in {"post", "save", "write"} THEN Doubt ELSE UNCHANGED doubtful
      BY <1>13 DEF Crash, Effect
    <2>2. Create => pc = "post"
      <3> SUFFICES ASSUME Create, pc # "post" PROVE FALSE
        OBVIOUS
      <3>1. Here \notin Copied /\ Copied' = Copied \cup {Here}
        BY CreateAppends DEF IInv
      <3>2. UNCHANGED sandbox
        BY <2>1
      <3> QED BY <3>1, <3>2 DEF Copied
    <2> QED BY <2>1, <2>2, Stopping DEF Doubt
  <1>14. CASE Discard
    <2>1. /\ pc = "idle" /\ pc' = "idle" /\ UNCHANGED sandbox
          /\ file' = [torn |-> FALSE, map |-> NoMap] /\ Copied \subseteq doubtful'
      BY <1>14 DEF Discard, Copied
    <2>2. DOMAIN file' = {"torn", "map"} /\ DOMAIN file'.map = {}
      BY <2>1, SMT DEF NoMap
    <2> QED BY <2>1, <2>2, SMT
             DEF IInv, Shapes, Posting, Maps, IsTrue, Accounted, Copied, Range
  <1>15. CASE Over \/ UNCHANGED vars
    <2>1. UNCHANGED <<sandbox, file, doubtful, opts, state, todo, pc>>
      BY <1>15 DEF Over, vars, run, copies
    <2> QED BY <2>1, SMT
             DEF IInv, Shapes, Posting, Maps, IsTrue, Accounted, Copied, Known, Range, Here
  <1> QED BY <1>1, <1>2, <1>3, <1>4, <1>5, <1>6, <1>7, <1>8, <1>9, <1>10, <1>11,
             <1>12, <1>13, <1>14, <1>15 DEF Next, Script

LEMMA SpecIInv == Spec => []IInv
  BY InitIInv, NextIInv, PTL DEF Spec

\* load_state and save_state: whatever ran, failed or crashed before, an id in a
\* state file that can be read is that of the copy of its record.
THEOREM StateFileIsTrue == Spec => []StateIsTrue
  <1>1. IInv => StateIsTrue
    BY DEF IInv, Maps, IsTrue, StateIsTrue
  <1> QED BY <1>1, SpecIInv, PTL

\* "Idempotent: reruns skip already-copied records", but for the records that a
\* lost answer, a missing id, a crash or a discarded state file left in doubt.
THEOREM RerunsCopyOnlyInDoubt == Spec => []CopiedAgainOnlyInDoubt
  <1>1. IInv => CopiedAgainOnlyInDoubt
    BY SMT DEF IInv, Posting, Maps, Accounted, Copied, Known, CopiedAgainOnlyInDoubt
  <1> QED BY <1>1, SpecIInv, PTL
---------------------------------------------------------------------------
(* Lists: what the sort, the limit and the loops make of them *)

\* The elements that are picked, each of them, and no more of them.
LEMMA PickedLists ==
  ASSUME NEW T, NEW s \in Seq(T), NEW S \in SUBSET DOMAIN s
  PROVE  /\ Picked(s, S) \in Seq(T) /\ Range(Picked(s, S)) = {s[i] : i \in S}
         /\ Len(Picked(s, S)) = Cardinality(S)
         /\ IsFiniteSet(S) /\ Cardinality(S) \in Nat
  <1> DEFINE upTo(i) == {j \in S : j <= i}
             N == Cardinality(S)
             rank == [i \in S |-> Cardinality(upTo(i))]
  <1>1. IsFiniteSet(S) /\ N \in Nat /\ S \subseteq Nat
    <2>1. DOMAIN s = 1 .. Len(s) /\ Len(s) \in Nat
      OBVIOUS
    <2>2. IsFiniteSet(DOMAIN s)
      BY <2>1, FS_Interval
    <2>3. IsFiniteSet(S)
      BY <2>2, FS_Subset
    <2> QED BY <2>1, <2>3, FS_CardinalityType
  <1>2. \A i \in S : upTo(i) \in SUBSET S
    OBVIOUS
  <1>3. ASSUME NEW i \in S, NEW k \in S, i < k
        PROVE  Cardinality(upTo(i)) < Cardinality(upTo(k))
    <2>1. upTo(i) \in SUBSET upTo(k) /\ k \in upTo(k) /\ k \notin upTo(i)
      BY <1>1, <1>3
    <2>2. upTo(k) \in SUBSET S
      OBVIOUS
    <2> HIDE DEF upTo
    <2>3. IsFiniteSet(upTo(k))
      BY <1>1, <2>2, FS_Subset
    <2>4. Cardinality(upTo(i)) <= Cardinality(upTo(k)) /\ upTo(i) # upTo(k)
          /\ (Cardinality(upTo(i)) = Cardinality(upTo(k)) => upTo(i) = upTo(k))
      BY <2>1, <2>3, FS_Subset
    <2>5. Cardinality(upTo(i)) \in Nat /\ Cardinality(upTo(k)) \in Nat
      BY <2>1, <2>3, FS_Subset, FS_CardinalityType
    <2> QED BY <2>4, <2>5
  <1>4. ASSUME NEW i \in S PROVE Cardinality(upTo(i)) \in 1 .. N
    <2>1. i \in upTo(i)
      BY <1>1
    <2>2. upTo(i) \in SUBSET S
      OBVIOUS
    <2> HIDE DEF upTo
    <2>3. IsFiniteSet(upTo(i)) /\ Cardinality(upTo(i)) <= N /\ Cardinality(upTo(i)) \in Nat
      BY <1>1, <2>2, FS_Subset, FS_CardinalityType
    <2>4. Cardinality(upTo(i)) # 0
      BY <2>1, <2>3, FS_EmptySet
    <2> QED BY <1>1, <2>3, <2>4
  <1> HIDE DEF upTo, N
  <1>5. rank \in Injection(S, 1 .. N)
    <2>1. rank \in [S -> 1 .. N]
      BY <1>4
    <2>2. ASSUME NEW i \in S, NEW k \in S, rank[i] = rank[k] PROVE i = k
      <3>1. ~(i < k) /\ ~(k < i)
        BY <1>3, <1>4, <2>2
      <3> QED BY <1>1, <3>1
    <2> QED BY <2>1, <2>2 DEF Injection, IsInjective
  <1>6. rank \in Surjection(S, 1 .. N)
    <2>1. IsFiniteSet(1 .. N) /\ Cardinality(1 .. N) = N
      BY <1>1, FS_Interval
    <2> HIDE DEF rank
    <2> QED BY <1>5, <2>1, FS_Injection DEF N
  <1>7. ASSUME NEW n \in 1 .. N PROVE \E i \in S : rank[i] = n
    BY <1>6 DEF Surjection
  <1>8. ASSUME NEW i \in S, NEW n \in 1 .. N, rank[i] = n PROVE Nth(S, n) = i
    <2>1. Cardinality({j \in S : j <= i}) = n
      BY <1>8 DEF upTo
    <2>2. \A k \in S : Cardinality({j \in S : j <= k}) = n => k = i
      <3>1. \A k \in S : rank[k] = Cardinality({j \in S : j <= k})
        BY DEF upTo
      <3> QED BY <1>5, <1>8, <3>1 DEF Injection, IsInjective
    <2> QED BY <2>1, <2>2 DEF Nth
  <1> HIDE DEF rank
  <1>9. \A n \in 1 .. N : Nth(S, n) \in S
    BY <1>7, <1>8
  <1>10. \A i \in S : \E n \in 1 .. N : Nth(S, n) = i
    BY <1>5, <1>8 DEF Injection
  <1>11. \A i \in S : s[i] \in T
    OBVIOUS
  <1>12. Picked(s, S) = [n \in 1 .. N |-> s[Nth(S, n)]]
    BY DEF Picked, N
  <1>13. Picked(s, S) \in Seq(T) /\ Len(Picked(s, S)) = N /\ DOMAIN Picked(s, S) = 1 .. N
    BY <1>1, <1>9, <1>11, <1>12
  <1>14. Range(Picked(s, S)) = {s[i] : i \in S}
    BY <1>9, <1>10, <1>12, <1>13 DEF Range
  <1> QED BY <1>1, <1>13, <1>14 DEF N

LEMMA Ranges ==
  ASSUME NEW T, NEW s \in Seq(T)
  PROVE  /\ s # <<>> => /\ Range(s) = {Head(s)} \cup Range(Tail(s)) /\ Tail(s) \in Seq(T)
                        /\ Head(s) \in T /\ Len(Tail(s)) = Len(s) - 1
         /\ \A x \in T : /\ Range(Append(s, x)) = Range(s) \cup {x}
                         /\ Append(s, x) \in Seq(T) /\ Len(Append(s, x)) = Len(s) + 1
         /\ \A t \in Seq(T) : /\ Range(s \o t) = Range(s) \cup Range(t)
                              /\ s \o t \in Seq(T) /\ Len(s \o t) = Len(s) + Len(t)
         /\ Range(s) \subseteq T /\ Len(s) \in Nat
  <1>1. ASSUME s # <<>> PROVE Range(s) = {Head(s)} \cup Range(Tail(s))
    <2>1. /\ DOMAIN s = 1 .. Len(s) /\ Len(s) \in Nat /\ Len(s) >= 1 /\ Head(s) = s[1]
          /\ DOMAIN Tail(s) = 1 .. Len(s) - 1
          /\ \A i \in 1 .. Len(s) - 1 : Tail(s)[i] = s[i + 1]
      BY <1>1
    <2>2. \A i \in DOMAIN s : i = 1 \/ (i - 1 \in DOMAIN Tail(s) /\ Tail(s)[i - 1] = s[i])
      BY <2>1
    <2>3. \A i \in DOMAIN Tail(s) : i + 1 \in DOMAIN s /\ Tail(s)[i] = s[i + 1]
      BY <2>1
    <2>4. 1 \in DOMAIN s
      BY <2>1
    <2> QED BY <2>1, <2>2, <2>3, <2>4 DEF Range
  <1>2. ASSUME NEW x \in T PROVE Range(Append(s, x)) = Range(s) \cup {x}
    <2>1. /\ DOMAIN Append(s, x) = DOMAIN s \cup {Len(s) + 1}
          /\ \A i \in DOMAIN s : Append(s, x)[i] = s[i]
          /\ Append(s, x)[Len(s) + 1] = x
      OBVIOUS
    <2> QED BY <2>1 DEF Range
  <1>3. ASSUME NEW t \in Seq(T) PROVE Range(s \o t) = Range(s) \cup Range(t)
    BY RangeConcatenation
  <1>4. Range(s) \subseteq T
    BY DEF Range
  <1> QED BY <1>1, <1>2, <1>3, <1>4

LEMMA EmptyRange == Range(<<>>) = {} /\ \A T : <<>> \in Seq(T) /\ Len(<<>>) = 0
  BY DEF Range

---------------------------------------------------------------------------
(* Parents come first *)

\* What a child on the list may do without: a parent that is not active, one
\* that is settled, one that stands before it; or it is below a cycle.
Explained(r, before) ==
    parent[r] \notin Active \/ parent[r] \in before \/ BelowCycle(r)

Ordered(list, settled) ==
    \A i \in DOMAIN list :
        Explained(list[i], settled \cup {list[j] : j \in 1 .. i - 1})

LEMMA OrderedMore ==
  ASSUME NEW list, NEW S, NEW R, Ordered(list, S), S \subseteq R
  PROVE  Ordered(list, R)
  BY DEF Ordered, Explained

LEMMA OrderedAppend ==
  ASSUME NEW s \in Seq(Active), NEW x \in Active, NEW S, Ordered(s, S),
         Explained(x, Range(s))
  PROVE  Ordered(Append(s, x), S)
  <1> DEFINE t == Append(s, x)
             n == Len(s)
  <1>1. /\ n \in Nat /\ DOMAIN s = 1 .. n /\ DOMAIN t = 1 .. n + 1
        /\ t[n + 1] = x /\ \A i \in 1 .. n : t[i] = s[i]
    OBVIOUS
  <1> HIDE DEF t, n
  <1>2. ASSUME NEW i \in 1 .. n + 1
        PROVE  Explained(t[i], S \cup {t[j] : j \in 1 .. i - 1})
    <2>1. CASE i = n + 1
      <3>1. Range(s) \subseteq {t[j] : j \in 1 .. i - 1}
        BY <1>1, <2>1 DEF Range
      <3> QED BY <1>1, <2>1, <3>1 DEF Explained
    <2>2. CASE i # n + 1
      <3>1. i \in DOMAIN s /\ t[i] = s[i]
        BY <1>1, <2>2
      <3>2. {s[j] : j \in 1 .. i - 1} \subseteq {t[j] : j \in 1 .. i - 1}
        BY <1>1, <2>2
      <3>3. Explained(s[i], S \cup {s[j] : j \in 1 .. i - 1})
        BY <3>1 DEF Ordered
      <3> QED BY <3>1, <3>2, <3>3 DEF Explained
    <2> QED BY <2>1, <2>2
  <1> QED BY <1>1, <1>2 DEF Ordered, t

LEMMA OrderedConcat ==
  ASSUME NEW s \in Seq(Active), NEW d \in Seq(Active), NEW S, Ordered(s, S),
         \A r \in Range(d) : BelowCycle(r)
  PROVE  Ordered(s \o d, S)
  <1> DEFINE t == s \o d
             n == Len(s)
  <1>1. /\ n \in Nat /\ DOMAIN s = 1 .. n /\ Len(d) \in Nat /\ DOMAIN d = 1 .. Len(d)
        /\ DOMAIN t = 1 .. n + Len(d)
        /\ \A i \in 1 .. n : t[i] = s[i]
        /\ \A i \in 1 .. Len(d) : t[n + i] = d[i]
    OBVIOUS
  <1> HIDE DEF t, n
  <1>2. ASSUME NEW i \in DOMAIN t
        PROVE  Explained(t[i], S \cup {t[j] : j \in 1 .. i - 1})
    <2>1. CASE i > n
      <3>1. i - n \in DOMAIN d /\ t[i] = d[i - n]
        BY <1>1, <2>1
      <3> QED BY <3>1 DEF Explained, Range
    <2>2. CASE ~(i > n)
      <3>1. i \in DOMAIN s /\ t[i] = s[i]
        BY <1>1, <2>2
      <3>2. {s[j] : j \in 1 .. i - 1} \subseteq {t[j] : j \in 1 .. i - 1}
        BY <1>1, <2>2
      <3>3. Explained(s[i], S \cup {s[j] : j \in 1 .. i - 1})
        BY <3>1 DEF Ordered
      <3> QED BY <3>1, <3>2, <3>3 DEF Explained
    <2> QED BY <2>1, <2>2
  <1> QED BY <1>2 DEF Ordered, t

LEMMA OrderedPrefix ==
  ASSUME NEW s \in Seq(Active), NEW m \in Nat, NEW S, Ordered(s, S),
         m <= Len(s)
  PROVE  Ordered(SubSeq(s, 1, m), S) /\ SubSeq(s, 1, m) \in Seq(Active)
  <1> DEFINE t == SubSeq(s, 1, m)
  <1>1. /\ t \in Seq(Active) /\ DOMAIN t = 1 .. m
        /\ \A i \in 1 .. m : t[i] = s[i] /\ i \in DOMAIN s
    OBVIOUS
  <1> HIDE DEF t
  <1>2. ASSUME NEW i \in 1 .. m
        PROVE  Explained(t[i], S \cup {t[j] : j \in 1 .. i - 1})
    <2>1. {s[j] : j \in 1 .. i - 1} \subseteq {t[j] : j \in 1 .. i - 1}
      BY <1>1
    <2>2. Explained(s[i], S \cup {s[j] : j \in 1 .. i - 1})
      BY <1>1 DEF Ordered
    <2> QED BY <1>1, <2>1, <2>2 DEF Explained
  <1> QED BY <1>1, <1>2 DEF Ordered, t

LEMMA OrderedTail ==
  ASSUME NEW s \in Seq(Active), s # <<>>, NEW S, Ordered(s, S), Head(s) \in S
  PROVE  Ordered(Tail(s), S)
  <1> DEFINE t == Tail(s)
             n == Len(s) - 1
  <1>1. /\ n \in Nat /\ DOMAIN t = 1 .. n /\ Head(s) = s[1]
        /\ \A i \in 1 .. n : t[i] = s[i + 1] /\ i + 1 \in DOMAIN s
    OBVIOUS
  <1> HIDE DEF t, n
  <1>2. ASSUME NEW i \in 1 .. n
        PROVE  Explained(t[i], S \cup {t[j] : j \in 1 .. i - 1})
    <2>1. \A j \in 1 .. (i + 1) - 1 : s[j] \in S \cup {t[k] : k \in 1 .. i - 1}
      <3> SUFFICES ASSUME NEW j \in 1 .. i, j # 1 PROVE s[j] \in {t[k] : k \in 1 .. i - 1}
        BY <1>1
      <3>1. j - 1 \in 1 .. i - 1 /\ s[j] = t[j - 1]
        BY <1>1
      <3> QED BY <3>1
    <2>2. Explained(s[i + 1], S \cup {s[j] : j \in 1 .. (i + 1) - 1})
      BY <1>1 DEF Ordered
    <2> QED BY <1>1, <2>1, <2>2 DEF Explained
  <1> QED BY <1>1, <1>2 DEF Ordered, t

---------------------------------------------------------------------------
(* The lists of a run *)

KindNames == {"Customer", "Item"}

\* What a run needs not copy any more.
Settled == Known \cup Unsupported \cup NoAccount \cup doubtful

Types ==
    /\ parent \in Parents
    /\ opts \in [dry : BOOLEAN, kinds : SUBSET Range(Kinds), limit : Nat]
    /\ passes \in Seq(KindNames)
    /\ remaining \in Seq(Active) /\ deferred \in Seq(Active) /\ todo \in Seq(Active)
    /\ pc \in {"idle", "pass", "sort", "next", "post", "save", "write"}

\* Which of the locals are in use where.
Phases ==
    /\ pc # "sort" => remaining = <<>> /\ deferred = <<>>
    /\ pc \in {"idle", "pass"} => todo = <<>>
    /\ pc \in {"post", "save", "write"} => todo # <<>>
    /\ pc \notin {"idle", "write"} => ~file.torn
    /\ pc \in {"pass", "sort", "next", "post"} /\ ~opts.dry => Known \subseteq DOMAIN file.map

\* A list is the active records of one kind, each once; a sweep that has placed
\* none leaves children of those it leaves.
Sorting ==
    pc = "sort" =>
        /\ \E k \in KindNames : Range(remaining) \cup Range(deferred) \cup Range(todo)
                                    = Active \cap Range(Export[k])
        /\ Len(remaining) + Len(deferred) + Len(todo) <= Cardinality(Records)
        /\ ~progress => \A r \in Range(deferred) :
                            parent[r] \in Range(remaining) \cup Range(deferred)

WholeRun == ~opts.dry /\ opts.kinds = Range(Kinds) /\ opts.limit >= Cardinality(Records)

\* The records of the kinds that are still to come.
ToCome == UNION {Range(Export[k]) : k \in Range(passes)}

\* A whole run has every active record on a list or behind it.
Covered ==
    pc # "idle" /\ WholeRun =>
        Active \subseteq Settled \cup ToCome
                  \cup Range(remaining) \cup Range(deferred) \cup Range(todo)

Finished == pc = "idle" /\ ended = "done" => ~file.torn /\ WholeRunCopiesAll

LInv ==
    /\ Types /\ Phases /\ Sorting /\ Covered /\ Finished
    /\ Ordered(todo, Settled)

LEMMA OrderedKept ==
  ASSUME UNCHANGED parent, NEW list, NEW S, Ordered(list, S),
         todo' = list, Settled' = S
  PROVE  Ordered(todo, Settled)'
  <1>1. \A r : BelowCycle(r) => BelowCycle(r)'
    BY DEF BelowCycle
  <1>2. ASSUME NEW i \in DOMAIN list
        PROVE  \/ parent'[list[i]] \notin Active
               \/ parent'[list[i]] \in S \cup {list[j] : j \in 1 .. i - 1}
               \/ BelowCycle(list[i])'
    BY <1>1 DEF Ordered, Explained
  <1> QED BY <1>2 DEF Ordered, Explained

LEMMA NothingOrdered == \A S : Ordered(<<>>, S)
  BY DEF Ordered

LEMMA NothingKept ==
  ASSUME UNCHANGED parent, todo' = <<>>
  PROVE  Ordered(todo, Settled)'
  BY NothingOrdered, OrderedKept

\* The script ends early.
LEMMA StopKeepsLists ==
  ASSUME LInv, Stop("stopped"), UNCHANGED <<parent, opts>>
  PROVE  LInv'
  <1>1. Types'
    <2>1. <<>> \in Seq(KindNames) /\ <<>> \in Seq(Active)
      OBVIOUS
    <2> QED BY <2>1 DEF LInv, Types, Stop
  <1>2. Phases' /\ Sorting' /\ Covered' /\ Finished'
    BY DEF Stop, Phases, Sorting, Covered, Finished
  <1>3. Ordered(todo, Settled)'
    BY NothingKept DEF Stop
  <1> QED BY <1>1, <1>2, <1>3 DEF LInv

\* On to the next record: this one is settled.
LEMMA NextRecordKeepsLists ==
  ASSUME LInv, pc \in {"next", "post", "write"}, todo # <<>>, NextRecord,
         Settled \cup {Here} \subseteq Settled', ~file'.torn,
         ~opts.dry => Known' \subseteq DOMAIN file'.map
  PROVE  LInv'
  <1>1. /\ todo' = Tail(todo) /\ pc' = "next"
        /\ UNCHANGED <<parent, opts, passes, ended, remaining, deferred, progress>>
    BY DEF NextRecord, run, sorting
  <1>2. todo \in Seq(Active) /\ Range(todo) = {Here} \cup Range(todo') /\ todo' \in Seq(Active)
    BY <1>1, Ranges DEF LInv, Types, Here
  <1>3. Types'
    BY <1>1, <1>2 DEF LInv, Types
  <1>4. Phases'
    BY <1>1 DEF LInv, Phases
  <1>5. Sorting' /\ Finished'
    BY <1>1 DEF Sorting, Finished
  <1>6. Covered'
    <2>1. WholeRun' = WholeRun /\ ToCome' = ToCome
      BY <1>1 DEF WholeRun, ToCome
    <2>2. pc # "idle"
      OBVIOUS
    <2> QED BY <1>1, <1>2, <2>1, <2>2 DEF LInv, Covered
  <1>7. Ordered(todo, Settled)'
    <2>1. Ordered(todo, Settled') /\ Head(todo) \in Settled'
      BY OrderedMore DEF LInv, Here
    <2>2. Ordered(Tail(todo), Settled')
      BY <1>2, <2>1, OrderedTail
    <2> QED BY <1>1, <2>2, OrderedKept
  <1> QED BY <1>3, <1>4, <1>5, <1>6, <1>7 DEF LInv

\* The same record still.
LEMMA SameRecordKeepsLists ==
  ASSUME LInv, pc \in {"next", "post", "save"}, pc' \in {"post", "save", "write"},
         todo # <<>>, UNCHANGED <<run, sorting, todo>>,
         Settled \subseteq Settled', pc' # "write" => ~file'.torn,
         pc' = "post" /\ ~opts.dry => Known' \subseteq DOMAIN file'.map
  PROVE  LInv'
  <1>1. UNCHANGED <<parent, opts, passes, ended, remaining, deferred, progress, todo>>
    BY DEF run, sorting
  <1>2. Types'
    BY <1>1 DEF LInv, Types
  <1>3. Phases'
    BY <1>1 DEF LInv, Phases
  <1>4. Sorting' /\ Finished'
    BY DEF Sorting, Finished
  <1>5. Covered'
    <2>1. WholeRun' = WholeRun /\ ToCome' = ToCome
      BY <1>1 DEF WholeRun, ToCome
    <2>2. pc # "idle"
      OBVIOUS
    <2> QED BY <1>1, <2>1, <2>2 DEF LInv, Covered
  <1>6. Ordered(todo, Settled)'
    <2>1. Ordered(todo, Settled')
      BY OrderedMore DEF LInv
    <2> QED BY <1>1, <2>1, OrderedKept
  <1> QED BY <1>2, <1>3, <1>4, <1>5, <1>6 DEF LInv

LEMMA RecordsAreFinite == IsFiniteSet(Records)
  <1>1. ASSUME NEW s, s \in Seq(Range(s)) PROVE IsFiniteSet(Range(s))
    <2>1. IsFiniteSet(1 .. Len(s)) /\ DOMAIN s = 1 .. Len(s)
      BY <1>1, FS_Interval
    <2>2. s \in Surjection(DOMAIN s, Range(s))
      BY <1>1 DEF Surjection, Range
    <2> QED BY <2>1, <2>2, FS_Surjection
  <1>2. IsFiniteSet(Range(Customers)) /\ IsFiniteSet(Range(Items))
    BY ExportAssumption, <1>1
  <1> QED BY <1>2, FS_Union DEF Records

\* The sort, and the limit after it.
LEMMA PlaceKeepsLists == ASSUME LInv, Place PROVE LInv'
  <1> DEFINE r == Head(remaining)
  <1>1. /\ pc = "sort" /\ remaining # <<>> /\ CanPlace(r) /\ todo' = Append(todo, r)
        /\ remaining' = Tail(remaining) /\ progress' = TRUE
        /\ UNCHANGED <<parent, opts, passes, ended, file, doubtful, state, deferred, pc>>
    BY DEF Place, run, copies
  <1>2. /\ remaining \in Seq(Active) /\ todo \in Seq(Active) /\ deferred \in Seq(Active)
        /\ parent \in Parents
    BY DEF LInv, Types
  <1>3. /\ Range(remaining) = {r} \cup Range(remaining') /\ remaining' \in Seq(Active)
        /\ r \in Active /\ Len(remaining') = Len(remaining) - 1
        /\ Len(remaining) \in Nat /\ Range(remaining) \subseteq Active
    BY <1>1, <1>2, Ranges
  <1>4. /\ Range(todo') = Range(todo) \cup {r} /\ todo' \in Seq(Active)
        /\ Len(todo') = Len(todo) + 1 /\ Len(todo) \in Nat
    BY <1>1, <1>2, <1>3, Ranges
  <1>5. Len(deferred) \in Nat
    BY <1>2
  <1>6. Explained(r, Range(todo))
    <2>1. PICK k \in KindNames : Range(remaining) \cup Range(deferred) \cup Range(todo)
                                    = Active \cap Range(Export[k])
      BY <1>1 DEF LInv, Sorting
    <2>2. r \in Range(Export[k]) /\ r \in Records
      BY <1>3, <2>1 DEF Active
    <2>3. parent[r] \in Active => parent[r] \in Range(Export[k])
      <3>1. parent[r] = Nobody \/ (parent[r] \in Range(Items) <=> r \in Range(Items))
        BY <1>2, <2>2, ExportAssumption
      <3>2. Nobody \notin Active
        BY ExportAssumption DEF Active
      <3>3. \/ k = "Customer" /\ Export[k] = Customers
            \/ k = "Item" /\ Export[k] = Items
        BY DEF KindNames, Export
      <3> QED BY <2>2, <3>1, <3>2, <3>3, ExportAssumption DEF Active, Records
    <2> QED BY <1>1, <2>1, <2>3 DEF CanPlace, Explained
  <1> HIDE DEF r
  <1>7. Types'
    BY <1>1, <1>3, <1>4 DEF LInv, Types
  <1>8. Phases' /\ Finished'
    BY <1>1 DEF LInv, Phases, Finished, Known
  <1>9. Sorting'
    <2>1. Range(remaining') \cup Range(deferred') \cup Range(todo')
            = Range(remaining) \cup Range(deferred) \cup Range(todo)
      BY <1>1, <1>3, <1>4
    <2>2. Len(remaining') + Len(deferred') + Len(todo')
            = Len(remaining) + Len(deferred) + Len(todo)
      BY <1>1, <1>3, <1>4, <1>5
    <2> QED BY <1>1, <2>1, <2>2 DEF LInv, Sorting
  <1>10. Settled' = Settled
    BY <1>1 DEF Settled, Known
  <1>11. Covered'
    <2>1. WholeRun' = WholeRun /\ ToCome' = ToCome
      BY <1>1 DEF WholeRun, ToCome
    <2> QED BY <1>1, <1>3, <1>4, <1>10, <2>1 DEF LInv, Covered
  <1>12. Ordered(todo, Settled)'
    <2>1. Ordered(Append(todo, r), Settled)
      BY <1>2, <1>3, <1>6, OrderedAppend DEF LInv
    <2> QED BY <1>1, <1>10, <2>1, OrderedKept
  <1> QED BY <1>7, <1>8, <1>9, <1>11, <1>12 DEF LInv

LEMMA DeferKeepsLists == ASSUME LInv, Defer PROVE LInv'
  <1> DEFINE r == Head(remaining)
  <1>1. /\ pc = "sort" /\ remaining # <<>> /\ ~CanPlace(r) /\ deferred' = Append(deferred, r)
        /\ remaining' = Tail(remaining)
        /\ UNCHANGED <<parent, opts, passes, ended, file, doubtful, state, todo, progress, pc>>
    BY DEF Defer, run, copies
  <1>2. /\ remaining \in Seq(Active) /\ todo \in Seq(Active) /\ deferred \in Seq(Active)
    BY DEF LInv, Types
  <1>3. /\ Range(remaining) = {r} \cup Range(remaining') /\ remaining' \in Seq(Active)
        /\ r \in Active /\ Len(remaining') = Len(remaining) - 1 /\ Len(remaining) \in Nat
    BY <1>1, <1>2, Ranges
  <1>4. /\ Range(deferred') = Range(deferred) \cup {r} /\ deferred' \in Seq(Active)
        /\ Len(deferred') = Len(deferred) + 1 /\ Len(deferred) \in Nat
    BY <1>1, <1>2, <1>3, Ranges
  <1>5. Len(todo) \in Nat /\ parent[r] \in Range(remaining) \cup Range(deferred)
    BY <1>1, <1>2 DEF CanPlace
  <1> HIDE DEF r
  <1>6. Types'
    BY <1>1, <1>3, <1>4 DEF LInv, Types
  <1>7. Phases' /\ Finished'
    BY <1>1 DEF LInv, Phases, Finished, Known
  <1>8. Sorting'
    <2>1. Range(remaining') \cup Range(deferred') = Range(remaining) \cup Range(deferred)
      BY <1>3, <1>4
    <2>2. Len(remaining') + Len(deferred') + Len(todo')
            = Len(remaining) + Len(deferred) + Len(todo)
      BY <1>1, <1>3, <1>4, <1>5
    <2>3. ~progress' => \A x \in Range(deferred') :
                          parent'[x] \in Range(remaining') \cup Range(deferred')
      BY <1>1, <1>4, <1>5, <2>1 DEF LInv, Sorting
    <2> QED BY <1>1, <2>1, <2>2, <2>3 DEF LInv, Sorting
  <1>9. Settled' = Settled
    BY <1>1 DEF Settled, Known
  <1>10. Covered'
    <2>1. WholeRun' = WholeRun /\ ToCome' = ToCome
      BY <1>1 DEF WholeRun, ToCome
    <2> QED BY <1>1, <1>3, <1>4, <1>9, <2>1 DEF LInv, Covered
  <1>11. Ordered(todo, Settled)'
    BY <1>1, <1>9, OrderedKept DEF LInv
  <1> QED BY <1>6, <1>7, <1>8, <1>10, <1>11 DEF LInv

LEMMA NextSweepKeepsLists == ASSUME LInv, NextSweep PROVE LInv'
  <1>1. /\ pc = "sort" /\ remaining = <<>> /\ remaining' = deferred /\ deferred' = <<>>
        /\ UNCHANGED <<parent, opts, passes, ended, file, doubtful, state, todo, pc>>
    BY DEF NextSweep, run, copies
  <1>2. Types'
    BY <1>1 DEF LInv, Types
  <1>3. Phases' /\ Finished'
    BY <1>1 DEF LInv, Phases, Finished, Known
  <1>4. /\ Range(remaining') = Range(deferred) /\ Range(deferred') = Range(remaining)
        /\ Range(deferred') = {}
    BY <1>1, EmptyRange
  <1>5. Sorting'
    <2>1. Len(remaining') + Len(deferred') = Len(remaining) + Len(deferred)
      <3>1. Len(deferred) \in Nat
        BY DEF LInv, Types
      <3> QED BY <1>1, <3>1
    <2> QED BY <1>1, <1>4, <2>1 DEF LInv, Sorting
  <1>6. Settled' = Settled
    BY <1>1 DEF Settled, Known
  <1>7. Covered'
    <2>1. WholeRun' = WholeRun /\ ToCome' = ToCome
      BY <1>1 DEF WholeRun, ToCome
    <2> QED BY <1>1, <1>4, <1>6, <2>1 DEF LInv, Covered
  <1>8. Ordered(todo, Settled)'
    BY <1>1, <1>6, OrderedKept DEF LInv
  <1> QED BY <1>2, <1>3, <1>5, <1>7, <1>8 DEF LInv

\* What a sweep leaves without having placed any is below a cycle.
LEMMA LeftIsBelowCycle ==
  ASSUME LInv, pc = "sort", remaining = <<>>, ~progress
  PROVE  \A r \in Range(deferred) : BelowCycle(r)
  <1>1. Range(deferred) \in SUBSET Active
    BY Ranges DEF LInv, Types
  <1>2. \A r \in Range(deferred) : parent[r] \in Range(deferred)
    BY EmptyRange DEF LInv, Sorting
  <1> QED BY <1>1, <1>2 DEF BelowCycle

LEMMA SortedKeepsLists == ASSUME LInv, Sorted PROVE LInv'
  <1> DEFINE list == todo \o deferred
             m == IF opts.limit < Len(list) THEN opts.limit ELSE Len(list)
  <1>1. /\ pc = "sort" /\ remaining = <<>>
        /\ deferred = <<>> \/ ~progress
        /\ deferred' = <<>> /\ pc' = "next"
        /\ UNCHANGED <<parent, opts, passes, ended, file, doubtful, state, remaining>>
    BY DEF Sorted, run, copies
  <1>11. todo' = SubSeq(list, 1, m)
    BY DEF Sorted, Limit
  <1>2. /\ todo \in Seq(Active) /\ deferred \in Seq(Active) /\ list \in Seq(Active)
        /\ Len(list) = Len(todo) + Len(deferred) /\ Range(list) = Range(todo) \cup Range(deferred)
        /\ Len(list) \in Nat /\ opts.limit \in Nat /\ Len(todo) \in Nat /\ Len(deferred) \in Nat
    BY Ranges DEF LInv, Types
  <1>3. Ordered(list, Settled)
    <2>1. \A r \in Range(deferred) : BelowCycle(r)
      <3>1. CASE deferred = <<>>
        BY <3>1, EmptyRange
      <3>2. CASE ~progress
        BY <1>1, <3>2, LeftIsBelowCycle
      <3> QED BY <1>1, <3>1, <3>2
    <2> QED BY <1>2, <2>1, OrderedConcat DEF LInv
  <1>4. m \in Nat /\ m <= Len(list)
    BY <1>2
  <1> HIDE DEF list
  <1>5. Ordered(todo', Settled) /\ todo' \in Seq(Active)
    BY <1>11, <1>2, <1>3, <1>4, OrderedPrefix
  <1>6. Types'
    <2>1. <<>> \in Seq(Active)
      OBVIOUS
    <2> QED BY <1>1, <1>5, <2>1 DEF LInv, Types
  <1>7. Phases' /\ Sorting' /\ Finished'
    BY <1>1 DEF LInv, Phases, Sorting, Finished, Known
  <1>8. Settled' = Settled
    BY <1>1 DEF Settled, Known
  <1>9. Covered'
    <2>1. WholeRun' = WholeRun /\ ToCome' = ToCome
      BY <1>1 DEF WholeRun, ToCome
    <2>2. WholeRun => todo' = list
      <3> SUFFICES ASSUME WholeRun PROVE todo' = list
        OBVIOUS
      <3>1. Len(remaining) = 0 /\ Cardinality(Records) \in Nat
        <4>1. Len(remaining) = 0
          BY <1>1
        <4> QED BY <4>1, RecordsAreFinite, FS_CardinalityType
      <3>2. Len(list) <= Cardinality(Records)
        BY <1>1, <1>2, <3>1 DEF LInv, Sorting
      <3>3. m = Len(list)
        BY <1>2, <3>1, <3>2 DEF WholeRun
      <3> QED BY <1>11, <1>2, <3>3, SubSeqFull
    <2>3. Range(remaining) = {} /\ Range(remaining') = {} /\ Range(deferred') = {}
      BY <1>1, EmptyRange
    <2> QED BY <1>1, <1>2, <1>8, <2>1, <2>2, <2>3 DEF LInv, Covered
  <1>10. Ordered(todo, Settled)'
    BY <1>1, <1>5, <1>8, OrderedKept
  <1> QED BY <1>6, <1>7, <1>9, <1>10 DEF LInv

\* A pass begins with the active records of its kind, each once.
LEMMA BeginPassKeepsLists == ASSUME LInv, BeginPass PROVE LInv'
  <1> DEFINE k == Head(passes)
             list == Export[k]
             S == {i \in DOMAIN list : list[i] \in Active}
  <1>1. /\ pc = "pass" /\ passes # <<>> /\ passes' = Tail(passes) /\ pc' = "sort"
        /\ UNCHANGED <<parent, opts, ended, file, doubtful, state, deferred, todo>>
    BY DEF BeginPass, copies
  <1>2. remaining' = Picked(list, S)
    BY DEF BeginPass, ActiveOf
  <1>3. passes \in Seq(KindNames)
    BY DEF LInv, Types
  <1>4. /\ k \in KindNames /\ passes' \in Seq(KindNames)
        /\ Range(passes) = {k} \cup Range(passes')
    BY <1>1, <1>3, Ranges
  <1>5. remaining = <<>> /\ deferred = <<>> /\ todo = <<>>
    BY <1>1 DEF LInv, Phases
  <1>6. list \in Seq(Range(list)) /\ IsInjective(list) /\ Range(list) \subseteq Records
    <2>1. \/ k = "Customer" /\ list = Customers
          \/ k = "Item" /\ list = Items
      BY <1>4 DEF KindNames, Export
    <2> QED BY <2>1, ExportAssumption DEF Records
  <1> HIDE DEF k, list
  <1>7. /\ Range(remaining') = {list[i] : i \in S} /\ Len(remaining') = Cardinality(S)
        /\ remaining' \in Seq(Range(list)) /\ IsFiniteSet(S) /\ Cardinality(S) \in Nat
    <2>1. S \in SUBSET DOMAIN list
      OBVIOUS
    <2> HIDE DEF S
    <2> QED BY <1>2, <1>6, <2>1, PickedLists
  <1>8. Range(remaining') = Active \cap Range(list)
    BY <1>7 DEF Range
  <1>9. remaining' \in Seq(Active)
    <2>1. /\ Len(remaining') \in Nat /\ DOMAIN remaining' = 1 .. Len(remaining')
          /\ remaining' = [i \in DOMAIN remaining' |-> remaining'[i]]
      BY <1>7
    <2>2. \A i \in DOMAIN remaining' : remaining'[i] \in Active
      BY <1>8 DEF Range
    <2> QED BY <2>1, <2>2
  <1>10. Cardinality(S) <= Cardinality(Records)
    <2> DEFINE f == [i \in S |-> list[i]]
    <2>1. f \in Injection(S, Records)
      <3>1. \A i \in S : i \in DOMAIN list /\ list[i] \in Records
        BY <1>6 DEF Range
      <3>2. \A i, j \in S : list[i] = list[j] => i = j
        BY <1>6, <3>1 DEF IsInjective
      <3> HIDE DEF S
      <3> QED BY <3>1, <3>2 DEF Injection, IsInjective
    <2> HIDE DEF f, S
    <2> QED BY <2>1, RecordsAreFinite, FS_Injection
  <1> HIDE DEF S
  <1>11. Types'
    BY <1>1, <1>4, <1>9 DEF LInv, Types
  <1>12. Phases' /\ Finished'
    BY <1>1 DEF LInv, Phases, Finished, Known
  <1>13. Sorting'
    <2>1. /\ Range(deferred') = {} /\ Range(todo') = {}
          /\ Len(deferred') = 0 /\ Len(todo') = 0
      BY <1>1, <1>5, EmptyRange
    <2>2. Range(remaining') \cup Range(deferred') \cup Range(todo')
            = Active \cap Range(Export[k])
      BY <1>8, <2>1 DEF list
    <2>3. Len(remaining') + Len(deferred') + Len(todo') <= Cardinality(Records)
      BY <1>7, <1>10, <2>1
    <2> QED BY <1>4, <2>1, <2>2, <2>3 DEF Sorting
  <1>14. Settled' = Settled
    BY <1>1 DEF Settled, Known
  <1>15. Covered'
    <2>1. WholeRun' = WholeRun
      BY <1>1 DEF WholeRun
    <2>2. ToCome = Range(list) \cup ToCome'
      BY <1>4 DEF ToCome, list
    <2>3. Range(remaining) = {} /\ Range(deferred) = {} /\ Range(todo) = {}
      BY <1>5, EmptyRange
    <2> QED BY <1>1, <1>8, <1>14, <2>1, <2>2, <2>3 DEF LInv, Covered
  <1>16. Ordered(todo, Settled)'
    BY <1>1, <1>5, NothingKept
  <1> QED BY <1>11, <1>12, <1>13, <1>15, <1>16 DEF LInv

LEMMA StartKeepsLists ==
  ASSUME LInv, NEW o \in Options, Start(o)
  PROVE  LInv'
  <1>1. /\ pc = "idle" /\ opts' = o /\ UNCHANGED <<file, parent, sandbox, doubtful>>
        /\ o \in [dry : BOOLEAN, kinds : SUBSET Range(Kinds), limit : Nat]
    BY BoundsAssumption DEF Start, copies
  <1>2. remaining = <<>> /\ deferred = <<>> /\ todo = <<>>
    BY <1>1 DEF LInv, Phases
  <1>3. CASE Stop("stopped")
    <2>1. <<>> \in Seq(KindNames) /\ <<>> \in Seq(Active)
      OBVIOUS
    <2>2. Types'
      BY <1>1, <1>3, <2>1 DEF LInv, Types, Stop
    <2>3. Phases' /\ Sorting' /\ Covered' /\ Finished' /\ Ordered(todo, Settled)'
      BY <1>1, <1>3, NothingKept DEF Stop, Phases, Sorting, Covered, Finished
    <2> QED BY <2>2, <2>3 DEF LInv
  <1>4. CASE /\ ~file.torn /\ state' = file.map /\ pc' = "pass"
             /\ passes' = Picked(Kinds, {i \in DOMAIN Kinds : Kinds[i] \in o.kinds})
             /\ UNCHANGED <<remaining, deferred, todo>>
    <2> DEFINE S == {i \in DOMAIN Kinds : Kinds[i] \in o.kinds}
    <2>1. Kinds \in Seq(KindNames) /\ Range(Kinds) = KindNames /\ DOMAIN Kinds = 1 .. 2
      BY DEF Kinds, KindNames, Range
    <2>2. passes' \in Seq(KindNames) /\ Range(passes') = {Kinds[i] : i \in S}
      <3>1. S \in SUBSET DOMAIN Kinds
        OBVIOUS
      <3>2. passes' = Picked(Kinds, S)
        BY <1>4
      <3> HIDE DEF S
      <3> QED BY <2>1, <3>1, <3>2, PickedLists
    <2>3. Types'
      BY <1>1, <1>2, <1>4, <2>2 DEF LInv, Types
    <2>4. Phases' /\ Sorting' /\ Finished'
      BY <1>1, <1>2, <1>4 DEF Phases, Sorting, Finished, Known
    <2>5. Covered'
      <3> SUFFICES ASSUME WholeRun' PROVE Active \subseteq ToCome'
        BY DEF Covered
      <3>1. Range(passes') = KindNames
        <4>1. o.kinds = Range(Kinds)
          BY <1>1 DEF WholeRun
        <4>2. S = DOMAIN Kinds
          BY <4>1 DEF Range
        <4> QED BY <2>1, <2>2, <4>2 DEF Range
      <3>2. Records \subseteq Range(Export["Customer"]) \cup Range(Export["Item"])
        BY DEF Records, Export
      <3>3. ToCome' = UNION {Range(Export[k]) : k \in KindNames}
        BY <3>1 DEF ToCome
      <3> QED BY <3>2, <3>3 DEF KindNames, Active
    <2>6. Ordered(todo, Settled)'
      BY <1>1, <1>2, <1>4, NothingKept
    <2> QED BY <2>3, <2>4, <2>5, <2>6 DEF LInv
  <1> QED BY <1>3, <1>4 DEF Start, sorting

\* The run ends: what there was to copy is in the file.
LEMMA EndRunKeepsLists == ASSUME LInv, EndRun PROVE LInv'
  <1>1. /\ pc = "pass" /\ passes = <<>> /\ Stop("done")
        /\ UNCHANGED <<parent, opts, file, doubtful>>
    BY DEF EndRun, copies
  <1>2. Types'
    <2>1. <<>> \in Seq(KindNames) /\ <<>> \in Seq(Active)
      OBVIOUS
    <2> QED BY <1>1, <2>1 DEF LInv, Types, Stop
  <1>3. Phases' /\ Sorting' /\ Covered'
    BY <1>1 DEF Stop, Phases, Sorting, Covered
  <1>4. Finished'
    <2>1. ~file.torn /\ (~opts.dry => Known \subseteq DOMAIN file.map)
      BY <1>1 DEF LInv, Phases
    <2>2. WholeRun => Active \subseteq Settled
      <3>1. Range(passes) = {} /\ Range(remaining) = {} /\ Range(deferred) = {} /\ Range(todo) = {}
        BY <1>1, EmptyRange DEF LInv, Phases
      <3>2. ToCome = {}
        BY <3>1 DEF ToCome
      <3> QED BY <1>1, <3>1, <3>2 DEF LInv, Covered
    <2>3. WholeRunCopiesAll'
      BY <1>1, <2>1, <2>2 DEF WholeRunCopiesAll, WholeRun, Settled
    <2> QED BY <1>1, <2>1, <2>3 DEF Finished
  <1>5. Ordered(todo, Settled)'
    BY <1>1, NothingKept DEF Stop
  <1> QED BY <1>2, <1>3, <1>4, <1>5 DEF LInv

\* Steps that leave the lists alone.
LEMMA QuietKeepsLists ==
  ASSUME LInv, UNCHANGED <<run, sorting, todo, pc, state, opts>>,
         \/ UNCHANGED <<file, doubtful>>
         \/ pc = "idle" /\ file.torn
  PROVE  LInv'
  <1>1. UNCHANGED <<parent, opts, passes, ended, remaining, deferred, progress, todo, pc>>
    BY DEF run, sorting
  <1>2. Types'
    BY <1>1 DEF LInv, Types
  <1>3. Phases'
    BY <1>1 DEF LInv, Phases, Known
  <1>4. Sorting'
    BY <1>1 DEF LInv, Sorting
  <1>5. Finished'
    BY <1>1 DEF LInv, Finished, WholeRunCopiesAll
  <1>6. CASE UNCHANGED <<file, doubtful>>
    <2>1. Settled' = Settled /\ WholeRun' = WholeRun /\ ToCome' = ToCome
      BY <1>1, <1>6 DEF Settled, Known, WholeRun, ToCome
    <2>2. Covered'
      BY <1>1, <2>1 DEF LInv, Covered
    <2>3. Ordered(todo, Settled)'
      BY <1>1, <2>1, OrderedKept DEF LInv
    <2> QED BY <1>2, <1>3, <1>4, <1>5, <2>2, <2>3 DEF LInv
  <1>7. CASE pc = "idle" /\ file.torn
    <2>1. Covered'
      BY <1>1, <1>7 DEF Covered
    <2>2. todo' = <<>>
      BY <1>1, <1>7 DEF LInv, Phases
    <2>3. Ordered(todo, Settled)'
      BY <1>1, <2>2, NothingKept
    <2> QED BY <1>2, <1>3, <1>4, <1>5, <2>1, <2>3 DEF LInv
  <1> QED BY <1>6, <1>7

LEMMA EndPassKeepsLists == ASSUME LInv, EndPass PROVE LInv'
  <1>1. /\ pc = "next" /\ todo = <<>> /\ pc' = "pass"
        /\ UNCHANGED <<parent, opts, passes, ended, file, doubtful, state,
                       remaining, deferred, progress, todo>>
    BY DEF EndPass, run, copies, sorting
  <1>2. Types'
    BY <1>1 DEF LInv, Types
  <1>3. Phases' /\ Sorting' /\ Finished'
    BY <1>1 DEF LInv, Phases, Sorting, Finished, Known
  <1>4. Settled' = Settled /\ WholeRun' = WholeRun /\ ToCome' = ToCome
    BY <1>1 DEF Settled, Known, WholeRun, ToCome
  <1>5. Covered'
    BY <1>1, <1>4 DEF LInv, Covered
  <1>6. Ordered(todo, Settled)'
    BY <1>1, <1>4, OrderedKept DEF LInv
  <1> QED BY <1>2, <1>3, <1>5, <1>6 DEF LInv

\* The record at the head of the list.
LEMMA RecordStepKeepsLists ==
  ASSUME IInv, LInv,
         \/ SkipCopied \/ SkipItem \/ MarkDry \/ BeginPost
         \/ Created \/ CreatedWithoutId \/ Refused \/ Busy \/ Limited
         \/ Truncate \/ Save
  PROVE  LInv'
  <1>1. /\ pc \in {"post", "save", "write"} => todo # <<>> /\ ~opts.dry
        /\ pc \in {"next", "post"} => ~file.torn /\ (~opts.dry => Known \subseteq DOMAIN file.map)
        /\ pc = "save" => ~file.torn
    BY DEF LInv, Phases, IInv, Posting
  <1>2. CASE SkipCopied \/ SkipItem
    <2>1. /\ pc = "next" /\ todo # <<>> /\ NextRecord /\ UNCHANGED <<file, doubtful, state>>
          /\ Here \in Settled
      BY <1>2 DEF SkipCopied, SkipItem, copies, Settled
    <2>2. Settled' = Settled /\ Known' = Known
      BY <2>1 DEF Settled, Known
    <2> QED BY <1>1, <2>1, <2>2, NextRecordKeepsLists
  <1>3. CASE MarkDry
    <2>1. /\ pc = "next" /\ todo # <<>> /\ NextRecord /\ UNCHANGED <<file, doubtful>>
          /\ opts.dry /\ Known' = Known \cup {Here}
      BY <1>3 DEF MarkDry, Wanted, copies, Noted, Known
    <2>2. Settled \cup {Here} \subseteq Settled'
      BY <2>1 DEF Settled
    <2> QED BY <1>1, <2>1, <2>2, NextRecordKeepsLists
  <1>4. CASE BeginPost
    <2>1. /\ pc = "next" /\ todo # <<>> /\ pc' = "post"
          /\ UNCHANGED <<run, sorting, todo>> /\ UNCHANGED <<file, doubtful, state>>
      BY <1>4 DEF BeginPost, Wanted, copies
    <2>2. Settled' = Settled /\ Known' = Known
      BY <2>1 DEF Settled, Known
    <2> QED BY <1>1, <2>1, <2>2, SameRecordKeepsLists
  <1>5. CASE Created
    <2>1. /\ pc = "post" /\ pc' = "save" /\ UNCHANGED <<run, sorting, todo>> /\ UNCHANGED file
          /\ doubtful' = doubtful \ {Here} /\ Known' = Known \cup {Here}
      BY <1>5 DEF Created, Noted, Known
    <2>2. Settled \subseteq Settled'
      BY <2>1 DEF Settled
    <2> QED BY <1>1, <2>1, <2>2, SameRecordKeepsLists
  <1>6. ASSUME pc = "post", Logged PROVE LInv'
    <2>1. /\ NextRecord /\ UNCHANGED <<file, state>> /\ doubtful' = doubtful \cup {Here}
      BY <1>6 DEF Logged, Doubt
    <2>2. Settled' = Settled \cup {Here} /\ Known' = Known
      BY <2>1 DEF Settled, Known
    <2> QED BY <1>1, <1>6, <2>1, <2>2, NextRecordKeepsLists
  <1>7. ASSUME pc = "post", Again PROVE LInv'
    <2>1. /\ UNCHANGED <<run, sorting, todo>> /\ UNCHANGED <<file, state, pc>>
          /\ doubtful' = doubtful \cup {Here}
      BY <1>7 DEF Again, Doubt
    <2>2. Settled' = Settled \cup {Here} /\ Known' = Known
      BY <2>1 DEF Settled, Known
    <2> QED BY <1>1, <1>7, <2>1, <2>2, SameRecordKeepsLists
  <1>8. CASE CreatedWithoutId \/ Refused \/ Busy
    BY <1>6, <1>7, <1>8 DEF CreatedWithoutId, Refused, Busy
  <1>9. CASE Limited
    BY <1>7, <1>9, StopKeepsLists DEF Limited
  <1>10. CASE Truncate
    <2>1. /\ pc = "save" /\ pc' = "write" /\ UNCHANGED <<run, sorting, todo>>
          /\ UNCHANGED <<doubtful, state>>
      BY <1>10 DEF Truncate
    <2>2. Settled' = Settled
      BY <2>1 DEF Settled, Known
    <2> QED BY <1>1, <2>1, <2>2, SameRecordKeepsLists
  <1>11. CASE Save
    <2>1. /\ pc = "write" /\ NextRecord /\ UNCHANGED <<doubtful, state>>
          /\ file'.torn = FALSE /\ file'.map = state
      BY <1>11 DEF Save
    <2>2. Settled' = Settled /\ Known' = DOMAIN file'.map
      BY <2>1 DEF Settled, Known
    <2>3. Here \in Settled
      BY <2>1 DEF IInv, Posting, Settled
    <2> QED BY <1>1, <2>1, <2>2, <2>3, NextRecordKeepsLists
  <1> QED BY <1>2, <1>3, <1>4, <1>5, <1>8, <1>9, <1>10, <1>11

LEMMA LInvInductive == Spec => []LInv
  <1>1. Init => LInv
    <2> SUFFICES ASSUME Init PROVE LInv
      OBVIOUS
    <2>1. <<>> \in Seq(KindNames) /\ <<>> \in Seq(Active)
      OBVIOUS
    <2>2. Types
      BY <2>1 DEF Init, Types, Idle
    <2>3. Phases /\ Sorting /\ Covered /\ Finished
      BY DEF Init, Phases, Sorting, Covered, Finished
    <2> QED BY <2>2, <2>3, NothingOrdered DEF LInv, Init
  <1>2. IInv /\ LInv /\ [Next]_vars => LInv'
    <2> SUFFICES ASSUME IInv, LInv, [Next]_vars PROVE LInv'
      OBVIOUS
    <2>1. CASE BeginPass \/ Place \/ Defer \/ NextSweep \/ Sorted \/ EndPass \/ EndRun
      BY <2>1, BeginPassKeepsLists, PlaceKeepsLists, DeferKeepsLists, NextSweepKeepsLists,
         SortedKeepsLists, EndPassKeepsLists, EndRunKeepsLists
    <2>2. CASE AccountsFail \/ Escapes \/ Crash
      BY <2>2, StopKeepsLists DEF AccountsFail, Escapes, Crash
    <2>3. CASE SkipCopied \/ SkipItem \/ MarkDry \/ BeginPost \/ Created \/ CreatedWithoutId
               \/ Refused \/ Busy \/ Limited \/ Truncate \/ Save
      BY <2>3, RecordStepKeepsLists
    <2>4. CASE \E o \in Options : Start(o)
      BY <2>4, StartKeepsLists
    <2>5. CASE Discard
      BY <2>5, QuietKeepsLists DEF Discard, run
    <2>6. CASE Over \/ UNCHANGED vars
      BY <2>6, QuietKeepsLists DEF Over, vars, run, copies
    <2> QED BY <2>1, <2>2, <2>3, <2>4, <2>5, <2>6 DEF Next, Script
  <1> QED BY <1>1, <1>2, SpecIInv, PTL DEF Spec

\* Whatever was refused, lost or interrupted before: see WholeRunCopiesAll.
THEOREM WholeRunsCopyAll == Spec => []WholeRunCopiesAll
  <1>1. LInv => WholeRunCopiesAll
    BY DEF LInv, Finished, WholeRunCopiesAll
  <1> QED BY <1>1, LInvInductive, PTL

\* Only a POST changes the sandbox, by one copy.
LEMMA SandboxGrows ==
  ASSUME IInv, [Next]_vars, sandbox' # sandbox
  PROVE  pc = "post" /\ Create /\ UNCHANGED parent
  BY DEF Next, Script, BeginPass, Place, Defer, NextSweep, Sorted, EndPass, EndRun,
     AccountsFail, SkipCopied, SkipItem, MarkDry, BeginPost, Created, CreatedWithoutId,
     Refused, Busy, Limited, Escapes, Truncate, Save, Start, Crash, Discard, Over,
     Effect, Logged, NextRecord, Again, run, copies, vars

\* Parents come first: see OrphansExplained.
THEOREM OrphansAreExplained == Spec => OrphansExplained
  <1>1. ASSUME IInv, LInv, [Next]_vars, sandbox' # sandbox
        PROVE  LET new == sandbox'[Len(sandbox')]
                   p == parent[new.of]
               IN  IF new.parent # NoId THEN sandbox'[new.parent].of = p
                   ELSE \/ p \in {Nobody} \cup Inactive \cup Unsupported \cup NoAccount
                        \/ p \in doubtful
                        \/ BelowCycle(new.of)
    <2> DEFINE p == parent[Here]
    <2>1. pc = "post" /\ Create
      BY <1>1, SandboxGrows
    <2>2. /\ sandbox \in Seq(Range(sandbox)) /\ ~opts.dry /\ IsTrue(state)
          /\ todo # <<>> /\ todo \in Seq(Active) /\ parent \in Parents /\ Ordered(todo, Settled)
      BY <1>1, <2>1 DEF IInv, LInv, Shapes, Posting, Maps, Phases, Types
    <2>3. PICK n : /\ n = sandbox'[Len(sandbox')]
                   /\ n = [of |-> Here, parent |-> ParentRef(Here)]
                   /\ \A i \in DOMAIN sandbox : i # 0 /\ sandbox'[i] = sandbox[i]
      BY <2>1, <2>2 DEF Create
    <2>4. n.of = Here /\ n.parent = ParentRef(Here)
      BY <2>3
    <2>5. CASE p \in Known
      <3>1. n.parent = state[p]
        BY <2>4, <2>5 DEF ParentRef
      <3>2. state[p] \in DOMAIN sandbox /\ sandbox[state[p]].of = p
        BY <2>2, <2>5 DEF IsTrue, Known
      <3>3. n.parent # NoId /\ sandbox'[n.parent].of = p
        BY <2>3, <3>1, <3>2 DEF NoId
      <3> QED BY <2>3, <2>4, <3>3
    <2>6. CASE p \notin Known
      <3>1. n.parent = NoId
        BY <2>4, <2>6 DEF ParentRef
      <3>2. Here \in Active /\ Explained(Here, Settled)
        <4>1. 1 \in DOMAIN todo /\ Here = todo[1] /\ todo[1] \in Active
          BY <2>2 DEF Here
        <4>2. Explained(todo[1], Settled \cup {todo[j] : j \in 1 .. 1 - 1})
          BY <2>2, <4>1 DEF Ordered
        <4>3. {todo[j] : j \in 1 .. 1 - 1} = {}
          OBVIOUS
        <4> QED BY <4>1, <4>2, <4>3 DEF Explained
      <3>3. p \in Records \cup {Nobody}
        BY <2>2, <3>2, ExportAssumption DEF Active
      <3>4. \/ p \in {Nobody} \cup Inactive \cup Unsupported \cup NoAccount
            \/ p \in doubtful
            \/ BelowCycle(Here)
        BY <2>6, <3>2, <3>3 DEF Explained, Settled, Active
      <3> QED BY <2>3, <2>4, <3>1, <3>4
    <2> QED BY <2>5, <2>6
  <1>2. IInv /\ LInv /\ [Next]_vars =>
          [sandbox' # sandbox =>
             LET new == sandbox'[Len(sandbox')]
                 p == parent[new.of]
             IN  IF new.parent # NoId THEN sandbox'[new.parent].of = p
                 ELSE \/ p \in {Nobody} \cup Inactive \cup Unsupported \cup NoAccount
                      \/ p \in doubtful
                      \/ BelowCycle(new.of)]_vars
    BY <1>1
  <1> QED BY <1>2, SpecIInv, LInvInductive, PTL DEF Spec, OrphansExplained
=============================================================================
