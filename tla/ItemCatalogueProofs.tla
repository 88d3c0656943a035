------------------------- MODULE ItemCatalogueProofs -------------------------
(* Why the SyncToken keeps the item routes from losing an update, why their  *)
(* answers are true, and what a walk over the pages of a list can miss or    *)
(* see twice while others write: a walk is described by where it stands in   *)
(* the listing, and a write moves the rows behind the one it adds or removes *)
(* by one position.                                                          *)
EXTENDS ItemCatalogue, FiniteSetTheorems, TLAPS

\* The parts of the state's type the argument needs.
Shape ==
    /\ DOMAIN items = Ids /\ \A i \in Ids : items[i].sync \in Nat
    /\ DOMAIN pc = Calls /\ DOMAIN read = Calls /\ DOMAIN body = Calls
    /\ DOMAIN result = Calls /\ DOMAIN applied = Calls
    /\ \A c \in Calls : ask[c] \in Requests

\* The body a call is about to POST fits what was asked for and carries the
\* SyncToken that the call read.
BodyFits(c) ==
    IF Op(c) = "create" THEN body[c].kind = "create"
    ELSE /\ Item(c) \in Ids
         /\ body[c].kind # "create"
         /\ body[c].sync = read[c].sync
         /\ read[c].sync \in Nat

\* A SyncToken identifies the item: QBO has the one that was read, or a later one.
TokenIdentifies(c) ==
    Op(c) # "create" =>
        /\ read[c].sync <= items[Item(c)].sync
        /\ read[c].sync = items[Item(c)].sync => read[c] = items[Item(c)]

\* What was answered is what happened.
Truthful(c) ==
    /\ pc[c] \in {"load", "post"} => applied[c] = 0 /\ result[c] = "none"
    /\ pc[c] = "post" => Op(c) # "get"
    /\ result[c] = "ok" => applied[c] = IF Op(c) = "get" THEN 0 ELSE 1
    /\ result[c] \in Refusals => applied[c] = 0

IInv ==
    /\ Shape
    /\ \A c \in Calls : pc[c] = "post" => BodyFits(c) /\ TokenIdentifies(c)
    /\ \A c \in Calls : Truthful(c)

\* A step that leaves the list alone disturbs no call but its own.
LEMMA QuietStepKeeps ==
  ASSUME IInv, NEW c \in Calls, UNCHANGED <<items, ask>>,
         DOMAIN pc' = Calls, DOMAIN read' = Calls, DOMAIN body' = Calls,
         DOMAIN result' = Calls, DOMAIN applied' = Calls,
         \A d \in Calls \ {c} :
             /\ pc'[d] = pc[d] /\ read'[d] = read[d] /\ body'[d] = body[d]
             /\ result'[d] = result[d] /\ applied'[d] = applied[d],
         pc'[c] = "post" => BodyFits(c)' /\ TokenIdentifies(c)',
         Truthful(c)'
  PROVE  IInv'
  <1>1. Shape'
    BY DEF IInv, Shape
  <1>2. ASSUME NEW d \in Calls, pc'[d] = "post"
        PROVE  BodyFits(d)' /\ TokenIdentifies(d)'
    <2>1. CASE d = c
      BY <1>2, <2>1
    <2>2. CASE d # c
      BY <1>2, <2>2 DEF IInv, BodyFits, TokenIdentifies, Op, Item
    <2>3. QED
      BY <2>1, <2>2
  <1>3. ASSUME NEW d \in Calls PROVE Truthful(d)'
    <2>1. CASE d = c
      BY <2>1
    <2>2. CASE d # c
      BY <2>2 DEF IInv, Truthful, Op
    <2>3. QED
      BY <2>1, <2>2
  <1>4. QED
    BY <1>1, <1>2, <1>3 DEF IInv

\* A call that ends without a write is answered by a refusal or by an error,
\* or it was a get.
LEMMA RefusalKeeps ==
  ASSUME IInv, NEW c \in Calls, NEW r, Finish(c, r),
         UNCHANGED <<items, ask, applied>>, pc[c] \in {"load", "post"},
         r = "ok" => Op(c) = "get"
  PROVE  IInv'
  <1>1. /\ DOMAIN pc' = Calls /\ DOMAIN read' = Calls /\ DOMAIN body' = Calls
        /\ DOMAIN result' = Calls /\ DOMAIN applied' = Calls
        /\ \A d \in Calls \ {c} :
             /\ pc'[d] = pc[d] /\ read'[d] = read[d] /\ body'[d] = body[d]
             /\ result'[d] = result[d] /\ applied'[d] = applied[d]
        /\ pc'[c] = "done" /\ result'[c] = r /\ applied'[c] = applied[c]
    BY DEF Finish, IInv, Shape
  <1>2. Truthful(c)'
    BY <1>1 DEF IInv, Truthful, Op
  <1>3. QED
    BY <1>1, <1>2, QuietStepKeeps

\* The read hands its SyncToken on to the POST.
LEMMA PrepareKeeps ==
  ASSUME IInv, NEW c \in Calls, Prepare(c)
  PROVE  IInv'
  <1>1. /\ Item(c) \in Ids /\ Op(c) \in {"update", "deactivate"} /\ pc[c] = "load"
    BY DEF IInv, Shape, Requests, Prepare, Loaded, Reading, Item
  <1>2. /\ DOMAIN pc' = Calls /\ DOMAIN read' = Calls /\ DOMAIN body' = Calls
        /\ UNCHANGED <<items, ask, result, applied>>
        /\ pc'[c] = "post" /\ read'[c] = items[Item(c)]
        /\ body'[c].kind = Op(c) /\ body'[c].sync = items[Item(c)].sync
    BY DEF Prepare, Loaded, Reading, IInv, Shape
  <1>3. \A d \in Calls \ {c} :
             /\ pc'[d] = pc[d] /\ read'[d] = read[d] /\ body'[d] = body[d]
             /\ result'[d] = result[d] /\ applied'[d] = applied[d]
    BY DEF Prepare, Loaded, Reading, IInv, Shape
  <1>4. BodyFits(c)' /\ TokenIdentifies(c)'
    BY <1>1, <1>2 DEF BodyFits, TokenIdentifies, IInv, Shape, Op, Item
  <1>5. Truthful(c)'
    BY <1>1, <1>2 DEF IInv, Truthful, Op, Refusals
  <1>6. QED
    BY <1>2, <1>3, <1>4, <1>5, QuietStepKeeps DEF IInv, Shape

\* The caller starts over, with nothing done so far.
LEMMA RetryKeeps ==
  ASSUME IInv, NEW c \in Calls, Retry(c)
  PROVE  IInv'
  <1>1. /\ DOMAIN pc' = Calls /\ DOMAIN result' = Calls
        /\ UNCHANGED <<items, ask, read, body, applied>>
        /\ pc'[c] = "load" /\ result'[c] = "none" /\ result[c] = "stale"
        /\ \A d \in Calls \ {c} : pc'[d] = pc[d] /\ result'[d] = result[d]
    BY DEF Retry, IInv, Shape
  <1>2. Truthful(c)'
    BY <1>1 DEF IInv, Truthful, Refusals
  <1>3. QED
    BY <1>1, <1>2, QuietStepKeeps DEF IInv, Shape
---------------------------------------------------------------------------
\* A write of one item moves its SyncToken on, so whoever read it before now
\* holds an older token.
LEMMA OthersOutdated ==
  ASSUME IInv, NEW i \in Ids, NEW new, new.sync = items[i].sync + 1,
         items' = [items EXCEPT ![i] = new], UNCHANGED ask,
         NEW d \in Calls, pc[d] = "post", read'[d] = read[d], body'[d] = body[d]
  PROVE  BodyFits(d)' /\ TokenIdentifies(d)'
  <1>1. BodyFits(d) /\ TokenIdentifies(d) /\ Op(d)' = Op(d) /\ Item(d)' = Item(d)
    BY DEF IInv, Op, Item
  <1>2. BodyFits(d)'
    BY <1>1 DEF BodyFits
  <1>3. CASE Op(d) = "create"
    BY <1>1, <1>2, <1>3 DEF TokenIdentifies
  <1>4. CASE Op(d) # "create" /\ Item(d) # i
    <2>1. items'[Item(d)] = items[Item(d)]
      BY <1>1, <1>4 DEF BodyFits, IInv, Shape
    <2>2. QED
      BY <1>1, <1>2, <2>1 DEF TokenIdentifies
  <1>5. CASE Op(d) # "create" /\ Item(d) = i
    <2>1. items'[i].sync = items[i].sync + 1 /\ items[i].sync \in Nat
      BY DEF IInv, Shape
    <2>2. QED
      BY <1>1, <1>2, <1>5, <2>1 DEF BodyFits, TokenIdentifies
  <1>6. QED
    BY <1>3, <1>4, <1>5

\* It leaves the list in shape.
LEMMA SyncsStayNatural ==
  ASSUME IInv, NEW i \in Ids, NEW new, new.sync = items[i].sync + 1,
         items' = [items EXCEPT ![i] = new]
  PROVE  DOMAIN items' = Ids /\ \A j \in Ids : items'[j].sync \in Nat
  <1>1. ASSUME NEW j \in Ids PROVE items'[j].sync \in Nat
    <2>1. CASE j = i
      BY <2>1 DEF IInv, Shape
    <2>2. CASE j # i
      BY <2>2 DEF IInv, Shape
    <2>3. QED
      BY <2>1, <2>2
  <1>2. QED
    BY <1>1 DEF IInv, Shape

\* QBO applies a call's write.
LEMMA AcceptKeeps ==
  ASSUME IInv, NEW c \in Calls, NEW r, Accept(c), Finish(c, r), r \notin Refusals
  PROVE  IInv'
  <1>1. PICK i \in Ids : items' = [items EXCEPT ![i] = Written(body[c], c, @)]
    <2>1. CASE AcceptCreate(c)
      BY <2>1 DEF AcceptCreate
    <2>2. CASE AcceptSparse(c)
      <3>1. Item(c) \in Ids
        BY <2>2 DEF AcceptSparse, Accept, IInv, BodyFits
      <3>2. QED
        BY <2>2, <3>1 DEF AcceptSparse
    <2>3. QED
      BY <2>1, <2>2 DEF Accept
  <1>2. Written(body[c], c, items[i]).sync = items[i].sync + 1
    BY DEF Written
  <1>3. /\ items' = [items EXCEPT ![i] = Written(body[c], c, items[i])]
        /\ UNCHANGED ask
    BY <1>1 DEF Accept
  <1>4. Shape'
    BY <1>2, <1>3, SyncsStayNatural DEF IInv, Shape, Finish, Accept
  <1>5. ASSUME NEW d \in Calls, pc'[d] = "post"
        PROVE  BodyFits(d)' /\ TokenIdentifies(d)'
    <2>1. pc[d] = "post" /\ read'[d] = read[d] /\ body'[d] = body[d]
      BY <1>5 DEF IInv, Shape, Finish
    <2>2. QED
      BY <1>2, <1>3, <2>1, OthersOutdated
  <1>6. ASSUME NEW d \in Calls PROVE Truthful(d)'
    <2>1. CASE d = c
      <3>1. /\ pc[c] = "post" /\ pc'[c] = "done" /\ result'[c] = r
            /\ applied'[c] = applied[c] + 1 /\ Op(c)' = Op(c)
        BY <1>3 DEF Accept, Finish, IInv, Shape, Op
      <3>2. QED
        BY <2>1, <3>1 DEF IInv, Truthful
    <2>2. CASE d # c
      <3>1. pc'[d] = pc[d] /\ result'[d] = result[d] /\ applied'[d] = applied[d]
        BY <2>2 DEF Accept, Finish, IInv, Shape
      <3>2. QED
        BY <1>3, <3>1 DEF IInv, Truthful, Op
    <2>3. QED
      BY <2>1, <2>2
  <1>7. QED
    BY <1>4, <1>5, <1>6 DEF IInv

\* Someone else writes.
LEMMA EditKeeps ==
  ASSUME IInv, NEW i \in Ids, EditOutside(i)
  PROVE  IInv'
  <1> DEFINE new == [Written(NoBody, QBO, items[i]) EXCEPT !.active = ~items[i].active]
  <1>1. items' = [items EXCEPT ![i] = new] /\ UNCHANGED <<ask, pc, read, body, result, applied>>
    BY DEF EditOutside, calls
  <1>2. new.sync = items[i].sync + 1
    BY DEF Written
  <1> HIDE DEF new
  <1>3. Shape'
    BY <1>1, <1>2, SyncsStayNatural DEF IInv, Shape
  <1>4. ASSUME NEW d \in Calls, pc'[d] = "post"
        PROVE  BodyFits(d)' /\ TokenIdentifies(d)'
    BY <1>1, <1>2, <1>4, OthersOutdated
  <1>5. ASSUME NEW d \in Calls PROVE Truthful(d)'
    BY <1>1 DEF IInv, Truthful, Op
  <1>6. QED
    BY <1>3, <1>4, <1>5 DEF IInv
---------------------------------------------------------------------------
LEMMA StepKeeps ==
  ASSUME IInv, NEW c \in Calls, Step(c)
  PROVE  IInv'
  <1>1. CASE RejectId(c)
    BY <1>1, RefusalKeeps DEF RejectId, Reading
  <1>2. CASE LoadNotFound(c)
    BY <1>2, RefusalKeeps DEF LoadNotFound, Reading
  <1>3. CASE LoadFails(c)
    BY <1>3, RefusalKeeps DEF LoadFails, Reading
  <1>4. CASE Get(c)
    BY <1>4, RefusalKeeps DEF Get, Loaded, Reading
  <1>5. CASE Prepare(c)
    BY <1>5, PrepareKeeps
  <1>6. CASE Write(c)
    BY <1>6, AcceptKeeps DEF Write, Refusals
  <1>7. CASE WriteAnsweredMalformed(c)
    BY <1>7, AcceptKeeps DEF WriteAnsweredMalformed, Refusals
  <1>8. CASE WriteAnswerLost(c)
    BY <1>8, AcceptKeeps DEF WriteAnswerLost, Refusals
  <1>9. CASE WriteStale(c)
    BY <1>9, RefusalKeeps DEF WriteStale, Refused
  <1>10. CASE WriteDuplicate(c)
    BY <1>10, RefusalKeeps DEF WriteDuplicate, Refused
  <1>11. CASE WriteFails(c)
    BY <1>11, RefusalKeeps DEF WriteFails, Refused
  <1>12. CASE Retry(c)
    BY <1>12, RetryKeeps
  <1>13. QED
    BY <1>1, <1>2, <1>3, <1>4, <1>5, <1>6, <1>7, <1>8, <1>9, <1>10, <1>11, <1>12 DEF Step

\* Listing changes nothing.
LEMMA UntouchedKeeps ==
  ASSUME IInv, UNCHANGED <<items, ask, calls, applied>>
  PROVE  IInv'
  BY DEF calls, IInv, Shape, BodyFits, TokenIdentifies, Truthful, Op, Item

LEMMA IInvInductive == Spec => []IInv
  <1>1. Init => IInv
    <2> SUFFICES ASSUME Init PROVE IInv
      OBVIOUS
    <2>1. Shape
      <3>1. \A c \in Calls : ask[c] \in Requests
        BY ItemAssumption DEF Init
      <3>2. \A i \in Ids : items[i].sync \in Nat
        BY DEF Init, Absent
      <3>3. QED
        BY <3>1, <3>2 DEF Init, Shape
    <2>2. ASSUME NEW c \in Calls, pc[c] = "post"
          PROVE  Op(c) = "create" /\ BodyFits(c) /\ TokenIdentifies(c)
      BY <2>2 DEF Init, FirstBody, BodyFits, TokenIdentifies
    <2>3. ASSUME NEW c \in Calls PROVE Truthful(c)
      BY <2>2 DEF Init, Truthful, Refusals
    <2>4. QED
      BY <2>1, <2>2, <2>3 DEF IInv
  <1>2. IInv /\ [Next]_vars => IInv'
    <2> SUFFICES ASSUME IInv, [Next]_vars PROVE IInv'
      OBVIOUS
    <2>1. ASSUME NEW c \in Calls, Step(c) PROVE IInv'
      BY <2>1, StepKeeps
    <2>2. ASSUME NEW w \in Walks, WalkStep(w) PROVE IInv'
      BY <2>2, UntouchedKeeps DEF WalkStep, RejectCursor, ServePage, PageFails
    <2>3. ASSUME NEW i \in Ids, EditOutside(i) PROVE IInv'
      BY <2>3, EditKeeps
    <2>4. CASE UNCHANGED vars
      BY <2>4, UntouchedKeeps DEF vars
    <2>5. QED
      BY <2>1, <2>2, <2>3, <2>4 DEF Next, AllDone
  <1>3. QED
    BY <1>1, <1>2, PTL DEF Spec

\* Whatever others do in the meantime, an update or a deactivation takes effect
\* on exactly the item it was computed from: see NoLostUpdate.
THEOREM ItemUpdatesAreNotLost == Spec => NoLostUpdate
  <1>1. ASSUME IInv, [Next]_vars, NEW c \in Calls, applied'[c] # applied[c],
               Op(c) # "create"
        PROVE  items[Item(c)] = read[c]
    <2>1. PICK d \in Calls : Step(d)
      BY <1>1 DEF Next, WalkStep, RejectCursor, ServePage, PageFails, EditOutside,
         AllDone, vars
    <2>2. applied' # applied
      BY <1>1
    <2>3. Accept(d)
      BY <2>1, <2>2 DEF Step, RejectId, LoadNotFound, LoadFails, Get, Prepare, Loaded,
         Reading, Write, WriteAnsweredMalformed, WriteAnswerLost, WriteStale,
         WriteDuplicate, WriteFails, Refused, Retry
    <2>4. d = c
      BY <1>1, <2>3 DEF Accept, IInv, Shape
    <2>5. BodyFits(c) /\ TokenIdentifies(c)
      BY <2>3, <2>4, <1>1 DEF Accept, IInv
    <2>6. body[c].sync = items[Item(c)].sync
      BY <1>1, <2>3, <2>4, <2>5 DEF Accept, AcceptCreate, AcceptSparse, BodyFits
    <2>7. QED
      BY <1>1, <2>5, <2>6 DEF BodyFits, TokenIdentifies
  <1>2. IInv /\ [Next]_vars =>
          [\A c \in Calls : applied'[c] # applied[c] /\ Op(c) # "create"
                             => items[Item(c)] = read[c]]_vars
    BY <1>1
  <1>3. QED
    BY <1>2, IInvInductive, PTL DEF Spec, NoLostUpdate

\* For any calls, items, walks and faults, an answer that says a write was done
\* or refused is true: see AnswersAreTrue.
THEOREM ItemAnswersAreTrue == Spec => []AnswersAreTrue
  <1>1. IInv => AnswersAreTrue
    BY DEF IInv, Truthful, AnswersAreTrue
  <1>2. QED
    BY <1>1, IInvInductive, PTL
---------------------------------------------------------------------------
(* The positions of the rows of a listing *)

\* A set of numbers that is not empty has a least one: the provers' induction.
LEMMA LeastOf ==
  ASSUME NEW T \in SUBSET Nat, T # {}
  PROVE  \E m \in T : \A n \in T : m <= n
  <1> DEFINE Ups == {0 .. n : n \in T}
             R == StrictSubsetOrdering(Nat)
  <1>1. IsWellFoundedOn(R, FiniteSubsetsOf(Nat))
    BY FS_StrictSubsetOrderingWellFounded
  <1>2. Ups \subseteq FiniteSubsetsOf(Nat) /\ Ups # {}
    <2>1. ASSUME NEW n \in T PROVE 0 .. n \in SUBSET Nat /\ IsFiniteSet(0 .. n)
      BY FS_Interval
    <2> QED BY <2>1 DEF FiniteSubsetsOf
  <1>3. \E U \in Ups : \A V \in Ups : ~(<<V, U>> \in R)
    <2> HIDE DEF Ups, R
    <2> QED BY <1>1, <1>2, WFMin
  <1>4. PICK m \in T : \A n \in T : ~(<<0 .. n, 0 .. m>> \in R)
    BY <1>3
  <1>5. ASSUME NEW n \in T, ~(m <= n) PROVE FALSE
    <2>1. 0 .. n \subseteq 0 .. m /\ m \in 0 .. m /\ m \notin 0 .. n
      BY <1>5
    <2>2. <<0 .. n, 0 .. m>> \in R
      BY <2>1 DEF StrictSubsetOrdering
    <2> QED BY <2>2, <1>4
  <1> QED BY <1>5

Rows(L) == L \in SUBSET Nat /\ IsFiniteSet(L)

LEMMA PositionType ==
  ASSUME NEW L, Rows(L), NEW i \in L
  PROVE  /\ i \in Nat /\ Position(i, L) \in Nat
         /\ 1 <= Position(i, L) /\ Position(i, L) <= Cardinality(L)
  <1> DEFINE B == {j \in L : j < i}
  <1>1. B \in SUBSET (L \ {i}) /\ i \in Nat
    BY DEF Rows
  <1>2. /\ IsFiniteSet(L \ {i}) /\ Cardinality(L \ {i}) = Cardinality(L) - 1
        /\ Cardinality(L) \in Nat
    BY FS_RemoveElement, FS_CardinalityType DEF Rows
  <1>3. Cardinality(B) \in Nat /\ Cardinality(B) <= Cardinality(L \ {i})
    BY <1>1, <1>2, FS_Subset, FS_CardinalityType
  <1>4. i \in Nat /\ Position(i, L) = 1 + Cardinality(B)
    BY <1>1 DEF Position
  <1> HIDE DEF B
  <1> QED BY <1>2, <1>3, <1>4

LEMMA PositionGrows ==
  ASSUME NEW L, Rows(L), NEW i \in L, NEW j \in L, i < j
  PROVE  Position(i, L) < Position(j, L)
  <1> DEFINE Bi == {l \in L : l < i}
             Bj == {l \in L : l < j}
  <1>0. i \in Nat /\ j \in Nat /\ \A l \in L : l \in Nat
    BY DEF Rows
  <1>1. IsFiniteSet(Bi) /\ IsFiniteSet(Bj)
    BY FS_Subset DEF Rows
  <1>2. i \notin Bi /\ Bi \cup {i} \in SUBSET Bj
    <2>1. \A k \in Bi \cup {i} : k \in Bj
      BY <1>0
    <2>2. i \notin Bi
      BY <1>0
    <2> HIDE DEF Bi, Bj
    <2> QED BY <2>1, <2>2
  <1>3. Cardinality(Bi \cup {i}) = Cardinality(Bi) + 1
    BY <1>1, <1>2, FS_AddElement
  <1>4. Cardinality(Bi) \in Nat /\ Cardinality(Bj) \in Nat
    BY <1>1, FS_CardinalityType
  <1>5. Cardinality(Bi \cup {i}) <= Cardinality(Bj)
    BY <1>1, <1>2, FS_Subset
  <1> QED BY <1>3, <1>4, <1>5 DEF Position

LEMMA PositionIsInjective ==
  ASSUME NEW L, Rows(L), NEW i \in L, NEW j \in L, Position(i, L) = Position(j, L)
  PROVE  i = j
  <1>1. i \in Nat /\ j \in Nat /\ Position(i, L) \in Nat
    BY PositionType
  <1>2. ~(i < j) /\ ~(j < i)
    BY <1>1, PositionGrows
  <1> QED BY <1>1, <1>2

\* There are no more rows at some positions than positions.
LEMMA FewAtPositions ==
  ASSUME NEW L, Rows(L), NEW p \in Nat, NEW n \in Nat
  PROVE  /\ IsFiniteSet(Query(L, p, n))
         /\ Cardinality(Query(L, p, n)) \in Nat /\ Cardinality(Query(L, p, n)) <= n
  <1> DEFINE Q == Query(L, p, n)
             T == p .. p + n - 1
             f == [i \in Q |-> Position(i, L)]
  <1>1. Q \subseteq L /\ \A i \in Q : Position(i, L) \in T
    BY DEF Query
  <1>2. f \in [Q -> T] /\ \A i, j \in Q : f[i] = f[j] => i = j
    BY <1>1, PositionIsInjective
  <1>3. f \in Injection(Q, T)
    BY <1>2 DEF Injection, IsInjective
  <1>4. IsFiniteSet(T) /\ Cardinality(T) = n
    BY FS_Interval
  <1>5. IsFiniteSet(Q) /\ Cardinality(Q) <= n
    <2> HIDE DEF Q, T, f
    <2> QED BY <1>3, <1>4, FS_Injection
  <1> QED BY <1>5, FS_CardinalityType

\* The positions are taken without a gap.
LEMMA NoGap ==
  ASSUME NEW L, Rows(L), NEW p \in Nat \ {0}, NEW r \in L, Position(r, L) >= p
  PROVE  /\ Cardinality(Query(L, 1, p - 1)) = p - 1
         /\ \E m \in L : Position(m, L) = p
  <1> DEFINE A == {i \in L : Position(i, L) >= p}
             B == Query(L, 1, p - 1)
  <1>1. PICK m \in A : \A n \in A : m <= n
    BY LeastOf DEF Rows
  <1>2. \A i \in L : Position(i, L) \in Nat /\ Position(i, L) >= 1 /\ i \in Nat
    BY PositionType
  <1>3. B = {j \in L : j < m}
    <2>1. \A j \in L : j < m => j \notin A
      BY <1>1, <1>2
    <2>2. \A j \in B : j # m /\ ~(m < j)
      BY <1>1, <1>2, PositionGrows DEF Query
    <2> QED BY <1>2, <2>1, <2>2 DEF Query
  <1>4. Position(m, L) = 1 + Cardinality(B)
    BY <1>3 DEF Position
  <1>5. Cardinality(B) \in Nat /\ Cardinality(B) <= p - 1
    BY FewAtPositions
  <1> QED BY <1>1, <1>2, <1>4, <1>5

\* A page that is followed by a row is full.
LEMMA FullPage ==
  ASSUME NEW L, Rows(L), NEW p \in Nat \ {0}, NEW n \in Nat,
         NEW r \in L, Position(r, L) >= p + n
  PROVE  Cardinality(Query(L, p, n)) = n
  <1> DEFINE B == Query(L, 1, p - 1)
             C == Query(L, 1, p + n - 1)
  <1>1. \A i \in L : Position(i, L) \in Nat /\ Position(i, L) >= 1
    BY PositionType
  <1>2. Cardinality(B) = p - 1 /\ Cardinality(C) = p + n - 1
    BY NoGap, <1>1
  <1>3. IsFiniteSet(B) /\ IsFiniteSet(C)
    BY FewAtPositions
  <1>4. Query(L, p, n) = C \ B /\ C \cap B = B
    BY <1>1 DEF Query
  <1>5. Cardinality(C \ B) = Cardinality(C) - Cardinality(C \cap B)
    <2> HIDE DEF B, C
    <2> QED BY <1>3, FS_Difference
  <1>7. Cardinality(Query(L, p, n)) = Cardinality(C) - Cardinality(B)
    BY <1>4, <1>5
  <1>6. p \in Nat /\ p + n - 1 - (p - 1) = n
    OBVIOUS
  <1> HIDE DEF B, C
  <1> QED BY <1>2, <1>6, <1>7

\* A row that leaves moves those behind it one position up, one that joins one
\* position down.
LEMMA RowLeaves ==
  ASSUME NEW L, Rows(L), NEW i \in L
  PROVE  /\ Rows(L \ {i})
         /\ \A j \in L \ {i} :
              Position(j, L \ {i}) = IF i < j THEN Position(j, L) - 1 ELSE Position(j, L)
  <1>1. Rows(L \ {i})
    BY FS_Subset DEF Rows
  <1>2. ASSUME NEW j \in L \ {i}
        PROVE  Position(j, L \ {i}) = IF i < j THEN Position(j, L) - 1 ELSE Position(j, L)
    <2> DEFINE B == {k \in L : k < j}
    <2>1. {k \in L \ {i} : k < j} = B \ {i} /\ (i \in B <=> i < j)
      OBVIOUS
    <2>2. IsFiniteSet(B) /\ Cardinality(B) \in Nat
      BY FS_Subset, FS_CardinalityType DEF Rows
    <2>3. Cardinality(B \ {i}) = IF i \in B THEN Cardinality(B) - 1 ELSE Cardinality(B)
      BY <2>2, FS_RemoveElement
    <2>4. Position(j, L) = 1 + Cardinality(B) /\ Position(j, L \ {i}) = 1 + Cardinality(B \ {i})
      BY <2>1 DEF Position
    <2> HIDE DEF B
    <2> QED BY <2>1, <2>2, <2>3, <2>4
  <1> QED BY <1>1, <1>2

LEMMA RowJoins ==
  ASSUME NEW L, Rows(L), NEW i \in Nat, i \notin L
  PROVE  /\ Rows(L \cup {i})
         /\ \A j \in L :
              Position(j, L \cup {i}) = IF i < j THEN Position(j, L) + 1 ELSE Position(j, L)
  <1>1. Rows(L \cup {i}) /\ (L \cup {i}) \ {i} = L
    BY FS_AddElement DEF Rows
  <1>2. \A j \in L : Position(j, L) \in Nat /\ Position(j, L \cup {i}) \in Nat
    BY <1>1, PositionType
  <1>3. \A j \in L : Position(j, L) = IF i < j THEN Position(j, L \cup {i}) - 1
                                      ELSE Position(j, L \cup {i})
    BY <1>1, RowLeaves
  <1> QED BY <1>1, <1>2, <1>3

\* A set with at most one element that the other does not have.
LEMMA AtMostOneMore ==
  ASSUME NEW A, NEW B, IsFiniteSet(B), \A a, b \in A \ B : a = b
  PROVE  /\ Cardinality(A) \in Nat /\ Cardinality(B) \in Nat
         /\ Cardinality(A) <= Cardinality(B) + 1
  <1>1. CASE A \subseteq B
    BY <1>1, FS_Subset, FS_CardinalityType
  <1>2. CASE ~(A \subseteq B)
    <2>1. PICK e \in A \ B : TRUE
      BY <1>2
    <2>2. A \in SUBSET (B \cup {e})
      BY <2>1
    <2>3. IsFiniteSet(B \cup {e}) /\ Cardinality(B \cup {e}) = Cardinality(B) + 1
      BY <2>1, FS_AddElement
    <2> QED BY <2>2, <2>3, FS_Subset, FS_CardinalityType
  <1> QED BY <1>1, <1>2
---------------------------------------------------------------------------
(* What a change of the listing does to a walk that stands at position p *)

\* Of the rows K, those the walk is past; and of the rows V, those it will see.
Past(K, L, p) == {j \in K : Position(j, L) < p}
Coming(V, L, p) == {j \in V \cap L : Position(j, L) >= p}

\* A row that leaves lets the walk miss one row at most.
LEMMA LeavingSkipsOne ==
  ASSUME NEW L, Rows(L), NEW i \in L, NEW K, K \subseteq L, NEW p \in Nat
  PROVE  Cardinality(Past(K \ {i}, L \ {i}, p)) <= Cardinality(Past(K, L, p)) + 1
  <1> DEFINE A == Past(K \ {i}, L \ {i}, p)
             B == Past(K, L, p)
  <1>0. \A j \in L \ {i} : /\ Position(j, L) \in Nat /\ j \in Nat /\ i \in Nat
                           /\ Position(j, L \ {i}) =
                                IF i < j THEN Position(j, L) - 1 ELSE Position(j, L)
    BY RowLeaves, PositionType
  <1>1. IsFiniteSet(B)
    BY FS_Subset DEF Rows, Past
  <1>2. ASSUME NEW j \in A \ B PROVE j \in L /\ Position(j, L) = p
    <2>1. j \in L \ {i} /\ Position(j, L \ {i}) < p /\ ~(Position(j, L) < p)
      BY DEF Past
    <2> QED BY <2>1, <1>0
  <1>3. \A j, k \in A \ B : j = k
    BY <1>2, PositionIsInjective
  <1> QED BY <1>1, <1>3, AtMostOneMore

\* It brings no row back.
LEMMA LeavingRepeatsNone ==
  ASSUME NEW L, Rows(L), NEW i \in L, NEW V, NEW p \in Nat
  PROVE  Coming(V, L \ {i}, p) \subseteq Coming(V, L, p)
  <1>0. \A j \in L \ {i} : /\ Position(j, L) \in Nat /\ j \in Nat /\ i \in Nat
                           /\ Position(j, L \ {i}) =
                                IF i < j THEN Position(j, L) - 1 ELSE Position(j, L)
    BY RowLeaves, PositionType
  <1>1. ASSUME NEW j \in L \ {i}, Position(j, L \ {i}) >= p PROVE Position(j, L) >= p
    BY <1>0, <1>1
  <1> QED BY <1>1 DEF Coming

\* A row that joins hides none.
LEMMA JoiningSkipsNone ==
  ASSUME NEW L, Rows(L), NEW i \in Nat, i \notin L, NEW K, K \subseteq L, NEW p \in Nat
  PROVE  Past(K, L \cup {i}, p) \subseteq Past(K, L, p)
  <1>1. ASSUME NEW j \in L, Position(j, L \cup {i}) < p PROVE Position(j, L) < p
    <2>1. Position(j, L) \in Nat
      BY PositionType
    <2> QED BY <1>1, <2>1, RowJoins
  <1> QED BY <1>1 DEF Past

\* It brings back one row at most: itself, or the last one the walk was past.
LEMMA JoiningRepeatsOne ==
  ASSUME NEW L, Rows(L), NEW i \in Nat, i \notin L, NEW V, NEW p \in Nat
  PROVE  \A j, k \in Coming(V, L \cup {i}, p) \ Coming(V, L, p) : j = k
  <1> DEFINE M == L \cup {i}
             X == Coming(V, M, p) \ Coming(V, L, p)
  <1>1. Rows(M) /\ i \in M
    BY RowJoins
  <1>2. \A j \in M : Position(j, M) \in Nat /\ j \in Nat
    BY <1>1, PositionType
  <1>3. \A j \in L : /\ Position(j, L) \in Nat
                    /\ Position(j, M) = IF i < j THEN Position(j, L) + 1 ELSE Position(j, L)
    BY RowJoins, PositionType
  <1> HIDE DEF M
  <1>4. ASSUME NEW j \in X, j # i
        PROVE  j \in L /\ i < j /\ Position(j, M) = p
    <2>1. j \in L /\ Position(j, M) >= p /\ ~(Position(j, L) >= p)
      BY <1>4 DEF Coming, M
    <2> QED BY <2>1, <1>3
  <1>5. CASE i \in X
    <2>1. Position(i, M) >= p
      BY <1>5 DEF Coming
    <2>2. ASSUME NEW j \in X, j # i PROVE FALSE
      <3>1. j \in M /\ Position(j, M) = p /\ Position(i, M) < Position(j, M)
        BY <1>1, <1>4, <2>2, PositionGrows DEF M
      <3> QED BY <2>1, <3>1, <1>2, <1>1
    <2> QED BY <2>2 DEF M
  <1>6. CASE i \notin X
    <2>1. \A j \in X : j \in M /\ Position(j, M) = p
      BY <1>4, <1>6 DEF M
    <2> QED BY <2>1, <1>1, PositionIsInjective DEF M
  <1> QED BY <1>5, <1>6

---------------------------------------------------------------------------
(* The walks *)

Unserved(w) == {i \in Ids : served[w][i] = 0}
Seen(w) == {i \in Ids : served[w][i] >= 1}
Again(w) == {i \in Ids : served[w][i] > 1}

WalkTypes ==
    /\ DOMAIN items = Ids
    /\ \A w \in Walks : Limit(w) \in 1 .. Cap
    /\ at \in [Walks -> {"first", "next", "done", "rejected", "gave_up"}]
    /\ cursor \in [Walks -> Nat]
    /\ served \in [Walks -> [Ids -> Nat]]
    /\ stayed \in [Walks -> SUBSET Ids]
    /\ left \in [Walks -> Nat]
    /\ joined \in [Walks -> Nat]

\* The rows a walk is past and was not served are no more than those that left.
SkipsCounted(w) ==
    /\ at[w] = "next" =>
         /\ stayed[w] \subseteq Listing(w)
         /\ Cardinality(Past(stayed[w] \cap Unserved(w), Listing(w), cursor[w])) <= left[w]
    /\ at[w] = "done" /\ Limit(w) < Cap =>
         Cardinality(stayed[w] \cap Unserved(w)) <= left[w]

\* The rows it was served again, or will be, are no more than those that joined.
RepeatsCounted(w) ==
    /\ at[w] = "first" => Seen(w) = {}
    /\ \A i \in Ids : served[w][i] <= 1 + joined[w]
    /\ Cardinality(Again(w)) <= joined[w]
    /\ at[w] = "next" =>
         /\ cursor[w] >= 1
         /\ Cardinality(Again(w) \cup Coming(Seen(w), Listing(w), cursor[w])) <= joined[w]
         /\ \A i \in Coming(Seen(w), Listing(w), cursor[w]) : served[w][i] <= joined[w]

WInv == WalkTypes /\ \A w \in Walks : SkipsCounted(w) /\ RepeatsCounted(w)

LEMMA ListingIsRows == \A w \in Walks : Rows(Listing(w)) /\ Listing(w) \subseteq Ids
  <1> SUFFICES ASSUME NEW w \in Walks PROVE Rows(Listing(w)) /\ Listing(w) \in SUBSET Ids
    OBVIOUS
  <1>1. Listing(w) \in SUBSET Ids
    BY DEF Listing
  <1> QED BY <1>1, ItemAssumption, FS_Subset DEF Rows

LEMMA ListingIsRowsNext == \A w \in Walks : Rows(Listing(w)') /\ Listing(w)' \subseteq Ids
  <1> SUFFICES ASSUME NEW w \in Walks PROVE Rows(Listing(w)') /\ Listing(w)' \in SUBSET Ids
    OBVIOUS
  <1>1. Listing(w)' \in SUBSET Ids
    BY DEF Listing
  <1> QED BY <1>1, ItemAssumption, FS_Subset DEF Rows

\* The sets the counts are about are finite.
LEMMA CountsAreFinite ==
  ASSUME WalkTypes, NEW w \in Walks
  PROVE  /\ IsFiniteSet(Again(w)) /\ IsFiniteSet(stayed[w] \cap Unserved(w))
         /\ \A L \in SUBSET Ids : \A p :
              /\ IsFiniteSet(Past(stayed[w] \cap Unserved(w), L, p))
              /\ IsFiniteSet(Again(w) \cup Coming(Seen(w), L, p))
  <1>1. \A A \in SUBSET Ids : IsFiniteSet(A)
    BY ItemAssumption, FS_Subset
  <1>2. Again(w) \in SUBSET Ids /\ stayed[w] \cap Unserved(w) \in SUBSET Ids
    BY DEF Again, Unserved
  <1>3. ASSUME NEW L \in SUBSET Ids, NEW p
        PROVE  /\ Past(stayed[w] \cap Unserved(w), L, p) \in SUBSET Ids
               /\ Again(w) \cup Coming(Seen(w), L, p) \in SUBSET Ids
    BY DEF Past, Coming, Again, Unserved, Seen
  <1> QED BY <1>1, <1>2, <1>3

\* A change of one item changes a listing by that row at most.
LEMMA OneRowChanges ==
  ASSUME WalkTypes, NEW i \in Ids, NEW new, items' = [items EXCEPT ![i] = new],
         UNCHANGED list, NEW w \in Walks
  PROVE  \/ Listing(w)' = Listing(w)
         \/ i \in Listing(w) /\ Listing(w)' = Listing(w) \ {i}
         \/ i \notin Listing(w) /\ Listing(w)' = Listing(w) \cup {i}
  <1>1. \A j \in Ids \ {i} : items'[j] = items[j]
    BY DEF WalkTypes
  <1>2. \A j \in Ids \ {i} : j \in Listing(w)' <=> j \in Listing(w)
    BY <1>1 DEF Listing
  <1>3. Listing(w) \subseteq Ids /\ Listing(w)' \subseteq Ids
    BY DEF Listing
  <1> QED BY <1>2, <1>3

\* A row leaves or joins the listing of a walk, or neither.
LEMMA WatchKeepsWalk ==
  ASSUME WInv, NEW i \in Ids, NEW new, items' = [items EXCEPT ![i] = new], Watch,
         NEW w \in Walks
  PROVE  (SkipsCounted(w) /\ RepeatsCounted(w))'
  <1> SUFFICES ASSUME NEW L, L = Listing(w), NEW M, M = Listing(w)'
               PROVE  (SkipsCounted(w) /\ RepeatsCounted(w))'
    OBVIOUS
  <1> DEFINE K == stayed[w] \cap Unserved(w)
             p == cursor[w]
             V == Seen(w)
             D == Again(w)
  <1>1. /\ WalkTypes /\ SkipsCounted(w) /\ RepeatsCounted(w)
        /\ left[w] \in Nat /\ joined[w] \in Nat /\ p \in Nat
    BY DEF WInv, WalkTypes
  <1>2. /\ at'[w] = at[w] /\ cursor'[w] = cursor[w] /\ served'[w] = served[w] /\ list' = list
        /\ Unserved(w)' = Unserved(w) /\ V' = V /\ D' = D /\ Limit(w)' = Limit(w)
    BY DEF Watch, Unserved, Seen, Again, Limit
  <1>3. /\ stayed'[w] = stayed[w] \cap M
        /\ left'[w] = left[w] + IF at[w] = "next" THEN Cardinality(L \ M) ELSE 0
        /\ joined'[w] = joined[w] + IF at[w] = "next" THEN Cardinality(M \ L) ELSE 0
    BY DEF Watch, WInv, WalkTypes
  <1>4. Rows(L) /\ Rows(M) /\ i \in Nat /\ L \in SUBSET Ids /\ M \in SUBSET Ids
    BY ListingIsRows, ListingIsRowsNext, ItemAssumption
  <1>5. \A A : Cardinality({}) = 0 /\ Cardinality({i}) = 1
    BY FS_EmptySet, FS_Singleton
  <1>6. \/ M = L
        \/ i \in L /\ M = L \ {i}
        \/ i \notin L /\ M = L \cup {i}
    <2>1. \/ Listing(w)' = Listing(w)
          \/ i \in Listing(w) /\ Listing(w)' = Listing(w) \ {i}
          \/ i \notin Listing(w) /\ Listing(w)' = Listing(w) \cup {i}
      BY <1>1, <1>2, OneRowChanges
    <2> QED BY <2>1, Zenon
  <1>7. /\ IsFiniteSet(K) /\ IsFiniteSet(D)
        /\ \A A \in SUBSET Ids : /\ IsFiniteSet(Past(K, A, p))
                                 /\ IsFiniteSet(D \cup Coming(V, A, p))
    BY <1>1, CountsAreFinite
  <1> SUFFICES
        /\ at[w] = "next" =>
             /\ stayed[w] \cap M \subseteq M
             /\ Cardinality(Past(K \cap M, M, p)) <= left'[w]
             /\ p >= 1
             /\ Cardinality(D \cup Coming(V, M, p)) <= joined'[w]
             /\ \A j \in Coming(V, M, p) : served[w][j] <= joined'[w]
        /\ at[w] = "done" /\ Limit(w) < Cap => Cardinality(K \cap M) <= left'[w]
        /\ at[w] = "first" => V = {}
        /\ \A j \in Ids : served[w][j] <= 1 + joined'[w]
        /\ Cardinality(D) <= joined'[w]
    <2>1. stayed'[w] \cap Unserved(w)' = K \cap M
      BY <1>2, <1>3
    <2>2. /\ Past(stayed'[w] \cap Unserved(w)', Listing(w)', cursor'[w]) = Past(K \cap M, M, p)
          /\ Cardinality(stayed'[w] \cap Unserved(w)') = Cardinality(K \cap M)
          /\ Coming(Seen(w)', Listing(w)', cursor'[w]) = Coming(V, M, p)
      BY <1>2, <2>1, Zenon
    <2>3. SkipsCounted(w)'
      BY <1>2, <1>3, <2>2 DEF SkipsCounted
    <2>4. Again(w)' \cup Coming(Seen(w)', Listing(w)', cursor'[w]) = D \cup Coming(V, M, p)
      BY <1>2, <2>2, Zenon
    <2>5. RepeatsCounted(w)'
      BY <1>2, <2>2, <2>4 DEF RepeatsCounted
    <2> QED BY <2>3, <2>5
  <1>8. CASE at[w] # "next"
    <2>1. left'[w] = left[w] /\ joined'[w] = joined[w]
      BY <1>1, <1>3, <1>8
    <2>2. K \cap M \in SUBSET K
      OBVIOUS
    <2>3. Cardinality(K \cap M) \in Nat /\ Cardinality(K) \in Nat
          /\ Cardinality(K \cap M) <= Cardinality(K)
      <3> HIDE DEF K
      <3> QED BY <1>7, <2>2, FS_Subset, FS_CardinalityType
    <2> QED BY <1>1, <1>8, <2>1, <2>3 DEF SkipsCounted, RepeatsCounted
  <1>9. CASE at[w] = "next"
    <2> DEFINE P == Past(K, L, p)
               R == D \cup Coming(V, L, p)
    <2>1. /\ stayed[w] \subseteq L /\ Cardinality(P) <= left[w] /\ p >= 1
          /\ Cardinality(R) <= joined[w] /\ K \in SUBSET L
          /\ \A j \in Coming(V, L, p) : served[w][j] <= joined[w]
          /\ \A j \in Ids : served[w][j] \in Nat /\ served[w][j] <= 1 + joined[w]
          /\ Cardinality(D) <= joined[w]
      BY <1>1, <1>9 DEF SkipsCounted, RepeatsCounted, WalkTypes
    <2>2. /\ IsFiniteSet(P) /\ IsFiniteSet(R)
          /\ Cardinality(P) \in Nat /\ Cardinality(R) \in Nat /\ Cardinality(D) \in Nat
      BY <1>4, <1>7, FS_CardinalityType
    <2>3. Coming(V, M, p) \subseteq Ids
      BY <1>4 DEF Coming
    <2> HIDE DEF K, p, V, D, P, R
    <2>4. CASE M = L
      <3>1. left'[w] = left[w] /\ joined'[w] = joined[w]
        BY <1>1, <1>3, <1>5, <2>4
      <3> QED BY <1>9, <2>1, <2>4, <3>1 DEF P, R
    <2>5. CASE i \in L /\ M = L \ {i}
      <3>1. left'[w] = left[w] + 1 /\ joined'[w] = joined[w]
        <4>1. L \ M = {i} /\ M \ L = {}
          BY <2>5
        <4>2. Cardinality(L \ M) = 1 /\ Cardinality(M \ L) = 0
          BY <1>5, <4>1, Zenon
        <4> QED BY <1>1, <1>3, <1>9, <4>2
      <3>2. K \cap M = K \ {i}
        BY <2>1, <2>5
      <3>3. Cardinality(Past(K \ {i}, L \ {i}, p)) <= Cardinality(P) + 1
        BY <1>1, <1>4, <2>1, <2>5, LeavingSkipsOne DEF P
      <3>4. Cardinality(Past(K \cap M, M, p)) <= left'[w]
        <4>1. Past(K \ {i}, L \ {i}, p) \in SUBSET (P \cup Past(K, M, p))
          BY <2>5 DEF Past
        <4>2. IsFiniteSet(P \cup Past(K, M, p))
          BY <1>4, <1>7, FS_Union DEF P
        <4>3. Cardinality(Past(K \ {i}, L \ {i}, p)) \in Nat
          BY <4>1, <4>2, FS_Subset, FS_CardinalityType
        <4>4. Past(K \cap M, M, p) = Past(K \ {i}, L \ {i}, p)
          BY <2>5, <3>2, Zenon
        <4> QED BY <1>1, <2>1, <2>2, <3>1, <3>3, <4>3, <4>4
      <3>5. Coming(V, M, p) \subseteq Coming(V, L, p)
        BY <1>1, <1>4, <2>5, LeavingRepeatsNone
      <3>6. D \cup Coming(V, M, p) \in SUBSET R
        BY <3>5 DEF R
      <3>7. Cardinality(D \cup Coming(V, M, p)) <= joined'[w]
        <4>1. /\ Cardinality(D \cup Coming(V, M, p)) \in Nat
              /\ Cardinality(D \cup Coming(V, M, p)) <= Cardinality(R)
          BY <2>2, <3>6, FS_Subset, FS_CardinalityType
        <4> QED BY <1>1, <2>1, <2>2, <3>1, <4>1
      <3> QED BY <1>9, <2>1, <3>1, <3>4, <3>5, <3>7
    <2>6. CASE i \notin L /\ M = L \cup {i}
      <3>1. left'[w] = left[w] /\ joined'[w] = joined[w] + 1
        <4>1. L \ M = {} /\ M \ L = {i}
          BY <2>6
        <4>2. Cardinality(L \ M) = 0 /\ Cardinality(M \ L) = 1
          BY <1>5, <4>1, Zenon
        <4> QED BY <1>1, <1>3, <1>9, <4>2
      <3>2. K \cap M = K
        BY <2>1, <2>6
      <3>3. Past(K, M, p) \in SUBSET P
        BY <1>1, <1>4, <2>1, <2>6, JoiningSkipsNone DEF P
      <3>4. Cardinality(Past(K \cap M, M, p)) <= left'[w]
        <4>1. Cardinality(Past(K, M, p)) \in Nat /\ Cardinality(Past(K, M, p)) <= Cardinality(P)
          BY <2>2, <3>3, FS_Subset, FS_CardinalityType
        <4>2. Past(K \cap M, M, p) = Past(K, M, p)
          BY <3>2, Zenon
        <4> QED BY <1>1, <2>1, <2>2, <3>1, <4>1, <4>2
      <3>5. \A j, k \in (D \cup Coming(V, M, p)) \ R : j = k
        <4>1. \A j, k \in Coming(V, M, p) \ Coming(V, L, p) : j = k
          BY <1>1, <1>4, <2>6, JoiningRepeatsOne
        <4> QED BY <4>1 DEF R
      <3>6. Cardinality(D \cup Coming(V, M, p)) <= joined'[w]
        <4>1. /\ Cardinality(D \cup Coming(V, M, p)) \in Nat
              /\ Cardinality(D \cup Coming(V, M, p)) <= Cardinality(R) + 1
          BY <2>2, <3>5, AtMostOneMore
        <4> QED BY <1>1, <2>1, <2>2, <3>1, <4>1
      <3>7. \A j \in Ids : served[w][j] <= joined'[w]
        BY <1>1, <2>1, <3>1
      <3> QED BY <1>1, <1>9, <2>1, <2>2, <2>3, <3>1, <3>4, <3>6, <3>7
    <2> QED BY <1>6, <2>4, <2>5, <2>6
  <1> QED BY <1>8, <1>9

\* A page that has more after it is full, and a row follows it.
LEMMA FollowedPage ==
  ASSUME WalkTypes, NEW w \in Walks, cursor[w] >= 1, HasMore(w)
  PROVE  /\ Cardinality(Page(w)) = Limit(w)
         /\ \E r \in Listing(w) : Position(r, Listing(w)) >= cursor[w] + Limit(w)
  <1> DEFINE L == Listing(w)
             p == cursor[w]
             n == Limit(w)
             F == Fetched(w)
  <1>1. Rows(L) /\ p \in Nat \ {0} /\ n \in Nat /\ FetchSize(w) \in Nat
    BY ListingIsRows, WalkAssumption DEF WalkTypes, FetchSize
  <1>2. /\ IsFiniteSet(Page(w)) /\ Cardinality(Page(w)) \in Nat /\ Cardinality(Page(w)) <= n
        /\ Cardinality(F) \in Nat /\ Cardinality(F) > n
    BY <1>1, FewAtPositions DEF Page, Fetched, HasMore
  <1>3. \A r \in L : Position(r, L) \in Nat
    BY <1>1, PositionType
  <1>4. \E r \in L : Position(r, L) >= p + n
    <2>1. SUFFICES ASSUME \A r \in L : ~(Position(r, L) >= p + n) PROVE FALSE
      OBVIOUS
    <2>2. F \in SUBSET Page(w)
      BY <1>1, <1>3, <2>1 DEF Page, Fetched, Query
    <2>3. Cardinality(F) <= Cardinality(Page(w))
      BY <1>2, <2>2, FS_Subset
    <2> QED BY <1>1, <1>2, <2>3
  <1>5. Cardinality(Query(L, p, n)) = n
    BY <1>1, <1>4, FullPage
  <1> QED BY <1>4, <1>5 DEF Page

\* Below the cap, no row follows a page that has no more after it.
LEMMA LastPage ==
  ASSUME WalkTypes, NEW w \in Walks, cursor[w] >= 1, ~HasMore(w), Limit(w) < Cap
  PROVE  \A r \in Listing(w) : Position(r, Listing(w)) < cursor[w] + Limit(w)
  <1> DEFINE L == Listing(w)
             p == cursor[w]
             n == Limit(w)
             P == Query(L, p, n)
             F == Query(L, p, n + 1)
  <1>1. Rows(L) /\ p \in Nat \ {0} /\ n \in Nat /\ n + 1 \in Nat
    BY ListingIsRows DEF WalkTypes
  <1>2. FetchSize(w) = n + 1
    BY <1>1, WalkAssumption DEF FetchSize
  <1>3. \A r \in L : Position(r, L) \in Nat
    BY <1>1, PositionType
  <1>4. SUFFICES ASSUME NEW r \in L, Position(r, L) >= p + n PROVE FALSE
    BY <1>1, <1>3
  <1>5. PICK m \in L : Position(m, L) = p + n
    <2>1. p + n \in Nat \ {0}
      BY <1>1
    <2> QED BY <1>1, <1>4, <2>1, NoGap
  <1>6. Cardinality(P) = n
    BY <1>1, <1>4, FullPage
  <1>7. m \notin P /\ P \cup {m} \in SUBSET F
    BY <1>1, <1>3, <1>5 DEF Query
  <1>8. IsFiniteSet(P) /\ IsFiniteSet(F) /\ Cardinality(F) \in Nat
    BY <1>1, FewAtPositions
  <1>9. ~(Cardinality(F) > n)
    BY <1>2 DEF HasMore, Fetched
  <1> HIDE DEF P, F
  <1>10. Cardinality(P \cup {m}) = n + 1 /\ Cardinality(P \cup {m}) <= Cardinality(F)
    BY <1>6, <1>7, <1>8, FS_AddElement, FS_Subset
  <1> QED BY <1>1, <1>8, <1>9, <1>10

\* A page serves what is at its positions, and nothing else of a walk's past.
LEMMA PageKeepsWalk ==
  ASSUME WInv, NEW w \in Walks, ServePage(w)
  PROVE  (SkipsCounted(w) /\ RepeatsCounted(w))'
  <1> SUFFICES ASSUME NEW L, L = Listing(w)
               PROVE  (SkipsCounted(w) /\ RepeatsCounted(w))'
    OBVIOUS
  <1> DEFINE p == cursor[w]
             n == Limit(w)
             K == stayed[w] \cap Unserved(w)
             P == Page(w)
             R == Again(w) \cup Coming(Seen(w), L, p)
             B == IF at[w] = "next" THEN Past(K, L, p) ELSE {}
  <1>1. /\ WalkTypes /\ SkipsCounted(w) /\ RepeatsCounted(w)
        /\ p \in Nat /\ p >= 1 /\ n \in 1 .. Cap /\ n \in Nat
        /\ left[w] \in Nat /\ joined[w] \in Nat /\ DOMAIN served[w] = Ids
        /\ \A i \in Ids : served[w][i] \in Nat
        /\ at[w] \in {"first", "next"}
    BY WalkAssumption DEF WInv, WalkTypes, ServePage
  <1>2. Rows(L) /\ L \in SUBSET Ids
    BY ListingIsRows
  <1>3. \A i \in L : Position(i, L) \in Nat
    BY <1>2, PositionType
  <1>4. P = {i \in L : Position(i, L) \in p .. p + n - 1}
    BY DEF Page, Query
  <1>5. \A i \in L : i \in P <=> Position(i, L) >= p /\ Position(i, L) < p + n
    BY <1>1, <1>3, <1>4
  <1>6. /\ UNCHANGED <<items, list, left, joined>>
        /\ DOMAIN served' = Walks /\ DOMAIN stayed' = Walks
        /\ \A i \in Ids : served'[w][i] = served[w][i] + IF i \in P THEN 1 ELSE 0
        /\ stayed'[w] = IF at[w] = "next" THEN stayed[w] ELSE {i \in L : Position(i, L) >= p}
        /\ HasMore(w) => at'[w] = "next" /\ cursor'[w] = p + Cardinality(P)
        /\ ~HasMore(w) => at'[w] = "done"
    BY DEF ServePage, WInv, WalkTypes, NextCursor
  <1>7. Listing(w)' = L /\ n' = n
    BY <1>6 DEF Listing, Limit
  <1>8. HasMore(w) => cursor'[w] = p + n
    BY <1>1, <1>6, FollowedPage
  <1>9. /\ IsFiniteSet(R) /\ Cardinality(R) \in Nat /\ Cardinality(R) <= joined[w]
        /\ \A i \in Coming(Seen(w), L, p) : served[w][i] <= joined[w]
    <2>1. IsFiniteSet(R) /\ Cardinality(R) \in Nat
      BY <1>1, <1>2, CountsAreFinite, FS_CardinalityType
    <2>2. CASE at[w] = "next"
      BY <1>1, <2>1, <2>2 DEF RepeatsCounted
    <2>3. CASE at[w] = "first"
      <3>1. Seen(w) = {} /\ Again(w) \subseteq Seen(w)
        BY <1>1, <2>3 DEF RepeatsCounted, Again, Seen
      <3>2. Coming(Seen(w), L, p) = {} /\ R = {}
        BY <3>1 DEF Coming
      <3>3. Cardinality(R) = 0
        BY <3>2, FS_EmptySet, Zenon
      <3> QED BY <1>1, <2>1, <3>2, <3>3
    <2> QED BY <1>1, <2>2, <2>3
  <1>10. /\ IsFiniteSet(B) /\ Cardinality(B) \in Nat /\ Cardinality(B) <= left[w]
    <2>1. CASE at[w] = "next"
      BY <1>1, <1>2, <2>1, CountsAreFinite, FS_CardinalityType DEF SkipsCounted
    <2>2. CASE at[w] # "next"
      <3>1. B = {} /\ IsFiniteSet({}) /\ Cardinality({}) = 0
        BY <2>2, FS_EmptySet
      <3>2. IsFiniteSet(B) /\ Cardinality(B) = 0
        BY <3>1, Zenon
      <3> QED BY <1>1, <3>2
    <2> QED BY <2>1, <2>2
  <1>11. ASSUME NEW i \in stayed'[w], served'[w][i] = 0
         PROVE  i \in L /\ (Position(i, L) < p + n => i \in B)
    <2>1. i \in L
      BY <1>1, <1>6 DEF SkipsCounted
    <2>2. i \in Ids /\ i \notin P /\ served[w][i] = 0
      BY <1>1, <1>2, <1>6, <1>11, <2>1
    <2>3. Position(i, L) < p + n => Position(i, L) < p
      BY <1>1, <1>3, <1>5, <2>1, <2>2
    <2>4. CASE at[w] = "next"
      BY <1>6, <2>1, <2>2, <2>3, <2>4 DEF Past, Unserved
    <2>5. CASE at[w] # "next"
      BY <1>1, <1>3, <1>6, <2>1, <2>3, <2>5
    <2> QED BY <2>1, <2>4, <2>5
  <1>12. \A i \in Ids : served'[w][i] > 1 => i \in R
    BY <1>1, <1>3, <1>4, <1>5, <1>6 DEF Again, Seen, Coming
  <1>13. \A i \in Ids : served'[w][i] <= 1 + joined[w]
    <2>1. ASSUME NEW i \in Ids PROVE served'[w][i] <= 1 + joined[w]
      <3>1. CASE i \in P /\ served[w][i] >= 1
        BY <1>1, <1>3, <1>4, <1>5, <1>6, <1>9, <3>1 DEF Seen, Coming
      <3>2. CASE ~(i \in P /\ served[w][i] >= 1)
        BY <1>1, <1>6, <3>2 DEF RepeatsCounted
      <3> QED BY <3>1, <3>2
    <2> QED BY <2>1
  <1>14. HasMore(w) => Coming(Seen(w)', L, p + n) \subseteq Coming(Seen(w), L, p)
                       /\ \A i \in Coming(Seen(w)', L, p + n) : served'[w][i] = served[w][i]
    BY <1>1, <1>2, <1>3, <1>5, <1>6 DEF Seen, Coming
  <1> HIDE DEF p, n, K, P, R, B
  <1>15. SkipsCounted(w)'
    <2>1. ASSUME HasMore(w)
          PROVE  /\ stayed'[w] \subseteq L
                 /\ Cardinality(Past(stayed'[w] \cap Unserved(w)', L, p + n)) <= left[w]
      <3>1. Past(stayed'[w] \cap Unserved(w)', L, p + n) \in SUBSET B
        BY <1>11 DEF Past, Unserved
      <3>2. /\ Cardinality(Past(stayed'[w] \cap Unserved(w)', L, p + n)) \in Nat
            /\ Cardinality(Past(stayed'[w] \cap Unserved(w)', L, p + n)) <= Cardinality(B)
        BY <3>1, <1>10, FS_Subset, FS_CardinalityType
      <3>3. stayed'[w] \subseteq L
        BY <1>1, <1>6 DEF SkipsCounted
      <3> QED BY <1>1, <1>10, <3>2, <3>3
    <2>2. ASSUME ~HasMore(w), n < Cap
          PROVE  Cardinality(stayed'[w] \cap Unserved(w)') <= left[w]
      <3>1. \A r \in L : Position(r, L) < p + n
        BY <1>1, <2>2, LastPage DEF p, n
      <3>2. stayed'[w] \cap Unserved(w)' \in SUBSET B
        BY <1>11, <3>1 DEF Unserved
      <3>3. /\ Cardinality(stayed'[w] \cap Unserved(w)') \in Nat
            /\ Cardinality(stayed'[w] \cap Unserved(w)') <= Cardinality(B)
        BY <3>2, <1>10, FS_Subset, FS_CardinalityType
      <3> QED BY <1>1, <1>10, <3>3
    <2>3. CASE HasMore(w)
      <3>1. Past(stayed'[w] \cap Unserved(w)', Listing(w)', cursor'[w])
              = Past(stayed'[w] \cap Unserved(w)', L, p + n)
        BY <1>7, <1>8, <2>3, Zenon
      <3> QED BY <1>6, <1>7, <2>1, <2>3, <3>1 DEF SkipsCounted
    <2>4. CASE ~HasMore(w)
      <3>1. Limit(w)' = n
        BY <1>7 DEF n
      <3> QED BY <1>6, <2>2, <2>4, <3>1 DEF SkipsCounted
    <2> QED BY <2>3, <2>4
  <1>16. RepeatsCounted(w)'
    <2>1. Again(w)' \in SUBSET R
      BY <1>12 DEF Again
    <2>2. Cardinality(Again(w)') \in Nat /\ Cardinality(Again(w)') <= Cardinality(R)
      BY <2>1, <1>9, FS_Subset, FS_CardinalityType
    <2>3. ASSUME HasMore(w)
          PROVE  /\ Cardinality(Again(w)' \cup Coming(Seen(w)', L, p + n)) <= joined[w]
                 /\ \A i \in Coming(Seen(w)', L, p + n) : served'[w][i] <= joined[w]
      <3>1. Again(w)' \cup Coming(Seen(w)', L, p + n) \in SUBSET R
        BY <1>14, <2>1, <2>3 DEF R
      <3>2. /\ Cardinality(Again(w)' \cup Coming(Seen(w)', L, p + n)) \in Nat
            /\ Cardinality(Again(w)' \cup Coming(Seen(w)', L, p + n)) <= Cardinality(R)
        BY <3>1, <1>9, FS_Subset, FS_CardinalityType
      <3> QED BY <1>1, <1>9, <1>14, <2>3, <3>2
    <2>4. at'[w] # "first"
      BY <1>6
    <2>5. CASE HasMore(w)
      <3>1. /\ Again(w)' \cup Coming(Seen(w)', Listing(w)', cursor'[w])
                 = Again(w)' \cup Coming(Seen(w)', L, p + n)
            /\ Coming(Seen(w)', Listing(w)', cursor'[w]) = Coming(Seen(w)', L, p + n)
        BY <1>7, <1>8, <2>5, Zenon
      <3>2. cursor'[w] >= 1
        BY <1>1, <1>8, <2>5
      <3> QED BY <1>1, <1>6, <1>9, <1>13, <2>2, <2>3, <2>4, <2>5, <3>1, <3>2
          DEF RepeatsCounted
    <2>6. CASE ~HasMore(w)
      BY <1>1, <1>6, <1>9, <1>13, <2>2, <2>4, <2>6 DEF RepeatsCounted
    <2> QED BY <2>5, <2>6
  <1> QED BY <1>15, <1>16
---------------------------------------------------------------------------
(* The types of the calls, and the steps of the walks *)

CallTypes ==
    /\ items \in [Ids -> Items]
    /\ \A c \in Calls : ask[c] \in Asks[c]
    /\ pc \in [Calls -> {"load", "post", "done"}]
    /\ read \in [Calls -> Items]
    /\ body \in [Calls -> [kind : {"none", "create", "update", "deactivate"},
                           sync : Nat, name : Names \cup {NoName}]]
    /\ result \in [Calls -> Results]
    /\ applied \in [Calls -> Nat]
    /\ edits \in 0 .. MaxEdits

\* A walk that goes on has a row behind it to go on from.
Bounded ==
    \A w \in Walks :
        /\ list[w].clauses \in Filters
        /\ at[w] = "next" => cursor[w] \in 1 .. Cardinality({i \in Ids : items[i].exists})

LEMMA AskIsRequest ==
  ASSUME CallTypes, NEW c \in Calls
  PROVE  /\ ask[c] \in Requests /\ Op(c) \in Ops /\ ask[c].name \in Names \cup {NoName}
         /\ Item(c) # Malformed => Item(c) \in Ids
  <1>1. ask[c] \in Requests
    BY ItemAssumption DEF CallTypes
  <1> QED BY <1>1 DEF Requests, Op, Item

\* A write is the change of one item that exists afterwards.
LEMMA AcceptWritesOne ==
  ASSUME CallTypes, IInv, NEW c \in Calls, Accept(c)
  PROVE  \E i \in Ids, new \in Items : new.exists /\ items' = [items EXCEPT ![i] = new]
  <1>1. PICK i \in Ids : items' = [items EXCEPT ![i] = Written(body[c], c, @)]
    <2>1. CASE AcceptCreate(c)
      BY <2>1 DEF AcceptCreate
    <2>2. CASE AcceptSparse(c)
      <3>1. Item(c) \in Ids
        BY <2>2 DEF AcceptSparse, Accept, IInv, BodyFits
      <3> QED BY <2>2, <3>1 DEF AcceptSparse
    <2> QED BY <2>1, <2>2 DEF Accept
  <1>2. items[i] \in Items /\ body[c].name \in Names \cup {NoName}
    BY DEF CallTypes
  <1>3. Written(body[c], c, items[i]) \in Items /\ Written(body[c], c, items[i]).exists
    BY <1>2 DEF Written, Items
  <1> QED BY <1>1, <1>3

LEMMA EditWritesOne ==
  ASSUME CallTypes, NEW i \in Ids, EditOutside(i)
  PROVE  \E new \in Items : new.exists /\ items' = [items EXCEPT ![i] = new]
  <1>1. items[i] \in Items
    BY DEF CallTypes
  <1>2. Written(NoBody, QBO, items[i]) \in Items /\ Written(NoBody, QBO, items[i]).exists
    BY <1>1 DEF Written, Items, NoBody
  <1> DEFINE new == [Written(NoBody, QBO, items[i]) EXCEPT !.active = ~items[i].active]
  <1>3. new \in Items /\ new.exists
    BY <1>1, <1>2 DEF Items
  <1>4. items' = [items EXCEPT ![i] = new]
    BY DEF EditOutside
  <1> QED BY <1>3, <1>4

\* A step of a call keeps every type of the calls.
LEMMA StepKeepsTypes ==
  ASSUME CallTypes, IInv, NEW c \in Calls, Step(c)
  PROVE  CallTypes'
  <1>0. /\ Absent \in Items
        /\ NoBody \in [kind : {"none", "create", "update", "deactivate"},
                       sync : Nat, name : Names \cup {NoName}]
    BY DEF Absent, NoBody, Items
  <1>1. ASSUME NEW r \in Results, Finish(c, r)
        PROVE  /\ pc' \in [Calls -> {"load", "post", "done"}]
               /\ read' \in [Calls -> Items]
               /\ body' \in [Calls -> [kind : {"none", "create", "update", "deactivate"},
                                       sync : Nat, name : Names \cup {NoName}]]
               /\ result' \in [Calls -> Results]
    BY <1>0, <1>1 DEF Finish, CallTypes
  <1>2. ASSUME UNCHANGED <<items, ask, applied, edits>>, NEW r \in Results, Finish(c, r)
        PROVE  CallTypes'
    BY <1>1, <1>2 DEF CallTypes
  <1>3. ASSUME NEW r \in Results, Accept(c), Finish(c, r) PROVE CallTypes'
    <2>1. items' \in [Ids -> Items]
      BY <1>3, AcceptWritesOne DEF CallTypes
    <2>2. applied' \in [Calls -> Nat] /\ UNCHANGED <<ask, edits>>
      BY <1>3 DEF Accept, CallTypes
    <2> QED BY <1>1, <1>3, <2>1, <2>2 DEF CallTypes
  <1>4. /\ \A r \in {"none", "ok", "invalid_param", "not_found", "stale", "duplicate",
                     "unavailable", "qbo_error", "error"} : r \in Results
    BY DEF Results
  <1>5. CASE RejectId(c)
    BY <1>2, <1>4, <1>5 DEF RejectId, Reading
  <1>6. CASE LoadNotFound(c)
    BY <1>2, <1>4, <1>6 DEF LoadNotFound, Reading
  <1>7. CASE LoadFails(c)
    BY <1>2, <1>4, <1>7 DEF LoadFails, Reading
  <1>8. CASE Get(c)
    BY <1>2, <1>4, <1>8 DEF Get, Loaded, Reading
  <1>9. CASE Prepare(c)
    <2>1. Item(c) \in Ids /\ UNCHANGED <<items, ask, applied, edits, result>>
      BY <1>9, AskIsRequest DEF Prepare, Loaded, Reading
    <2>2. items[Item(c)] \in Items /\ items[Item(c)].sync \in Nat
      BY <2>1 DEF CallTypes, Items
    <2>3. NameAsked(c) \in Names \cup {NoName}
      BY AskIsRequest DEF NameAsked
    <2>4. [kind |-> Op(c), sync |-> items[Item(c)].sync, name |-> NameAsked(c)]
            \in [kind : {"none", "create", "update", "deactivate"},
                 sync : Nat, name : Names \cup {NoName}]
      BY <1>9, <2>2, <2>3 DEF Prepare
    <2>5. /\ read' = [read EXCEPT ![c] = items[Item(c)]]
          /\ body' = [body EXCEPT ![c] = [kind |-> Op(c), sync |-> items[Item(c)].sync,
                                          name |-> NameAsked(c)]]
          /\ pc' = [pc EXCEPT ![c] = "post"]
      BY <1>9 DEF Prepare
    <2> QED BY <2>1, <2>2, <2>4, <2>5 DEF CallTypes
  <1>10. CASE Write(c)
    BY <1>3, <1>4, <1>10 DEF Write
  <1>11. CASE WriteAnsweredMalformed(c)
    BY <1>3, <1>4, <1>11 DEF WriteAnsweredMalformed
  <1>12. CASE WriteAnswerLost(c)
    BY <1>3, <1>4, <1>12 DEF WriteAnswerLost
  <1>13. CASE WriteStale(c)
    BY <1>2, <1>4, <1>13 DEF WriteStale, Refused
  <1>14. CASE WriteDuplicate(c)
    BY <1>2, <1>4, <1>14 DEF WriteDuplicate, Refused
  <1>15. CASE WriteFails(c)
    BY <1>2, <1>4, <1>15 DEF WriteFails, Refused
  <1>16. CASE Retry(c)
    BY <1>4, <1>16 DEF Retry, CallTypes
  <1> QED BY <1>5, <1>6, <1>7, <1>8, <1>9, <1>10, <1>11, <1>12, <1>13, <1>14, <1>15, <1>16
      DEF Step

LEMMA NextKeepsTypes ==
  ASSUME CallTypes, IInv, [Next]_vars
  PROVE  CallTypes'
  <1>1. ASSUME NEW c \in Calls, Step(c) PROVE CallTypes'
    BY <1>1, StepKeepsTypes
  <1>2. ASSUME NEW w \in Walks, WalkStep(w) PROVE CallTypes'
    BY <1>2 DEF WalkStep, RejectCursor, ServePage, PageFails, calls, CallTypes
  <1>3. ASSUME NEW i \in Ids, EditOutside(i) PROVE CallTypes'
    <2>1. items' \in [Ids -> Items]
      BY <1>3, EditWritesOne DEF CallTypes
    <2>2. edits' \in 0 .. MaxEdits
      BY <1>3, ItemAssumption DEF EditOutside, CallTypes
    <2> QED BY <1>3, <2>1, <2>2 DEF EditOutside, calls, CallTypes
  <1>4. CASE UNCHANGED vars
    BY <1>4 DEF vars, calls, CallTypes
  <1> QED BY <1>1, <1>2, <1>3, <1>4 DEF Next, AllDone
---------------------------------------------------------------------------
LEMMA WriteKeepsWalks ==
  ASSUME CallTypes, WInv, Bounded, NEW i \in Ids, NEW new \in Items, new.exists,
         items' = [items EXCEPT ![i] = new], Watch
  PROVE  WInv' /\ Bounded'
  <1>1. \A w \in Walks : (SkipsCounted(w) /\ RepeatsCounted(w))'
    BY WatchKeepsWalk
  <1>2. WalkTypes'
    <2>1. \A w \in Walks : /\ Cardinality(Listing(w) \ Listing(w)') \in Nat
                           /\ Cardinality(Listing(w)' \ Listing(w)) \in Nat
      <3> SUFFICES ASSUME NEW w \in Walks
                   PROVE  /\ Cardinality(Listing(w) \ Listing(w)') \in Nat
                          /\ Cardinality(Listing(w)' \ Listing(w)) \in Nat
        OBVIOUS
      <3>1. /\ Listing(w) \ Listing(w)' \in SUBSET Ids
            /\ Listing(w)' \ Listing(w) \in SUBSET Ids
        BY ListingIsRows, ListingIsRowsNext
      <3> QED BY <3>1, ItemAssumption, FS_Subset, FS_CardinalityType
    <2>2. WalkTypes /\ DOMAIN items' = Ids
      BY DEF WInv, WalkTypes
    <2>3. left' \in [Walks -> Nat] /\ joined' \in [Walks -> Nat]
      <3> DEFINE out == [w \in Walks |-> Cardinality(Listing(w) \ Listing(w)')]
                 in == [w \in Walks |-> Cardinality(Listing(w)' \ Listing(w))]
      <3>1. out \in [Walks -> Nat] /\ in \in [Walks -> Nat]
        BY <2>1, Zenon
      <3>2. /\ left' = [w \in Walks |-> left[w] + IF at[w] = "next" THEN out[w] ELSE 0]
            /\ joined' = [w \in Walks |-> joined[w] + IF at[w] = "next" THEN in[w] ELSE 0]
        BY Zenon DEF Watch
      <3> HIDE DEF out, in
      <3> QED BY <2>2, <3>1, <3>2 DEF WalkTypes
    <2>4. stayed' \in [Walks -> SUBSET Ids]
      BY <2>2 DEF WalkTypes, Watch
    <2> QED BY <2>2, <2>3, <2>4 DEF WalkTypes, Watch, Limit
  <1>3. Bounded'
    <2> DEFINE E == {j \in Ids : items[j].exists}
               F == {j \in Ids : items'[j].exists}
    <2>1. E \in SUBSET F /\ F \in SUBSET Ids
      BY DEF WInv, WalkTypes
    <2>2. Cardinality(E) <= Cardinality(F) /\ Cardinality(E) \in Nat /\ Cardinality(F) \in Nat
      <3>1. IsFiniteSet(F)
        BY <2>1, ItemAssumption, FS_Subset
      <3> HIDE DEF E, F
      <3> QED BY <2>1, <3>1, FS_Subset, FS_CardinalityType
    <2>3. ASSUME NEW w \in Walks, at'[w] = "next" PROVE cursor'[w] \in 1 .. Cardinality(F)
      <3>1. cursor'[w] = cursor[w] /\ cursor[w] \in 1 .. Cardinality(E)
        BY <2>3 DEF Bounded, Watch
      <3> HIDE DEF E, F
      <3> QED BY <2>2, <3>1
    <2> QED BY <2>3 DEF Bounded, Watch
  <1> QED BY <1>1, <1>2, <1>3 DEF WInv

\* What changes neither the items nor the walks.
LEMMA QuietKeepsWalks ==
  ASSUME WInv, Bounded, UNCHANGED <<items, walks>>
  PROVE  WInv' /\ Bounded'
  <1>1. /\ UNCHANGED <<items, list, at, cursor, served, stayed, left, joined>>
    BY DEF walks
  <1>2. WalkTypes' /\ Bounded'
    BY <1>1 DEF WInv, WalkTypes, Bounded, Limit
  <1>3. ASSUME NEW w \in Walks PROVE SkipsCounted(w)' /\ RepeatsCounted(w)'
    <2>1. /\ Listing(w)' = Listing(w) /\ Unserved(w)' = Unserved(w) /\ Seen(w)' = Seen(w)
          /\ Again(w)' = Again(w) /\ Limit(w)' = Limit(w)
      BY <1>1 DEF Listing, Unserved, Seen, Again, Limit
    <2>2. SkipsCounted(w) /\ RepeatsCounted(w)
      BY DEF WInv
    <2> QED BY <1>1, <2>1, <2>2 DEF SkipsCounted, RepeatsCounted
  <1> QED BY <1>2, <1>3 DEF WInv

\* A walk that ends with an error leaves nothing to count.
LEMMA EndKeepsWalks ==
  ASSUME WInv, Bounded, NEW w \in Walks, NEW a \in {"rejected", "gave_up"},
         at' = [at EXCEPT ![w] = a],
         UNCHANGED <<items, list, cursor, served, stayed, left, joined>>
  PROVE  WInv' /\ Bounded'
  <1>1. WalkTypes' /\ Bounded'
    BY DEF WInv, WalkTypes, Bounded, Limit
  <1>2. ASSUME NEW v \in Walks PROVE SkipsCounted(v)' /\ RepeatsCounted(v)'
    <2>1. /\ Listing(v)' = Listing(v) /\ Unserved(v)' = Unserved(v) /\ Seen(v)' = Seen(v)
          /\ Again(v)' = Again(v) /\ Limit(v)' = Limit(v)
          /\ at'[v] = at[v] \/ at'[v] = a
      BY DEF Listing, Unserved, Seen, Again, Limit, WInv, WalkTypes
    <2>2. SkipsCounted(v) /\ RepeatsCounted(v)
      BY DEF WInv
    <2> QED BY <2>1, <2>2 DEF SkipsCounted, RepeatsCounted
  <1> QED BY <1>1, <1>2 DEF WInv

LEMMA PageKeepsWalks ==
  ASSUME WInv, Bounded, NEW w \in Walks, ServePage(w)
  PROVE  WInv' /\ Bounded'
  <1>1. WalkTypes /\ UNCHANGED <<items, list, left, joined>>
    BY DEF ServePage, WInv
  <1>2. \A v \in Walks : Listing(v)' = Listing(v) /\ Limit(v)' = Limit(v)
    BY <1>1 DEF Listing, Limit
  <1>3. ASSUME NEW v \in Walks PROVE SkipsCounted(v)' /\ RepeatsCounted(v)'
    <2>1. CASE v = w
      BY <2>1, PageKeepsWalk
    <2>2. CASE v # w
      <3>1. /\ at'[v] = at[v] /\ cursor'[v] = cursor[v]
            /\ served'[v] = served[v] /\ stayed'[v] = stayed[v]
        BY <1>1, <2>2 DEF ServePage, WalkTypes
      <3>2. Unserved(v)' = Unserved(v) /\ Seen(v)' = Seen(v) /\ Again(v)' = Again(v)
        BY <3>1 DEF Unserved, Seen, Again
      <3>3. SkipsCounted(v) /\ RepeatsCounted(v)
        BY DEF WInv
      <3> QED BY <1>1, <1>2, <3>1, <3>2, <3>3 DEF SkipsCounted, RepeatsCounted
    <2> QED BY <2>1, <2>2
  <1>4. /\ HasMore(w) => /\ cursor'[w] = cursor[w] + Limit(w)
                         /\ \E r \in Listing(w) :
                              Position(r, Listing(w)) >= cursor[w] + Limit(w)
        /\ ~HasMore(w) => at'[w] = "done" /\ cursor' = cursor
    BY <1>1, FollowedPage DEF ServePage, WalkTypes, NextCursor
  <1>5. Limit(w) \in Nat /\ cursor[w] \in Nat
    BY <1>1, WalkAssumption DEF WalkTypes
  <1>6. WalkTypes'
    <2>1. served' \in [Walks -> [Ids -> Nat]]
      BY <1>1 DEF ServePage, WalkTypes
    <2>2. stayed' \in [Walks -> SUBSET Ids]
      BY <1>1, ListingIsRows DEF ServePage, WalkTypes
    <2>3. at' \in [Walks -> {"first", "next", "done", "rejected", "gave_up"}]
      BY <1>1 DEF ServePage, WalkTypes
    <2>4. cursor' \in [Walks -> Nat]
      BY <1>1, <1>4, <1>5 DEF ServePage, WalkTypes
    <2> QED BY <1>1, <1>2, <2>1, <2>2, <2>3, <2>4 DEF WalkTypes
  <1>7. Bounded'
    <2> DEFINE E == {i \in Ids : items[i].exists}
    <2>1. ASSUME HasMore(w) PROVE cursor'[w] \in 1 .. Cardinality(E)
      <3>1. PICK r \in Listing(w) : Position(r, Listing(w)) >= cursor'[w]
        BY <1>4, <2>1
      <3>2. /\ Position(r, Listing(w)) \in Nat
            /\ Position(r, Listing(w)) <= Cardinality(Listing(w))
        BY ListingIsRows, PositionType
      <3>3. Listing(w) \in SUBSET E /\ E \in SUBSET Ids
        BY DEF Listing, Matches
      <3>4. /\ Cardinality(Listing(w)) <= Cardinality(E)
            /\ Cardinality(Listing(w)) \in Nat /\ Cardinality(E) \in Nat
        <4>1. IsFiniteSet(E)
          BY <3>3, ItemAssumption, FS_Subset
        <4> HIDE DEF E
        <4> QED BY <3>3, <4>1, FS_Subset, FS_CardinalityType
      <3>5. cursor'[w] \in Nat /\ cursor'[w] >= 1
        BY <1>4, <1>5, <2>1 DEF ServePage
      <3> HIDE DEF E
      <3> QED BY <3>1, <3>2, <3>4, <3>5
    <2>2. ASSUME NEW v \in Walks, at'[v] = "next" PROVE cursor'[v] \in 1 .. Cardinality(E)
      <3>1. CASE v = w
        BY <1>4, <2>1, <2>2, <3>1
      <3>2. CASE v # w
        BY <1>1, <2>2, <3>2 DEF ServePage, WalkTypes, Bounded
      <3> QED BY <3>1, <3>2
    <2> QED BY <1>1, <2>2 DEF Bounded
  <1> QED BY <1>3, <1>6, <1>7 DEF WInv

LEMMA NextKeepsWalks ==
  ASSUME CallTypes, IInv, WInv, Bounded, [Next]_vars
  PROVE  WInv' /\ Bounded'
  <1>1. ASSUME NEW c \in Calls, Step(c) PROVE WInv' /\ Bounded'
    <2>1. CASE Accept(c)
      <3>1. Watch
        BY <2>1 DEF Accept
      <3> QED BY <2>1, <3>1, AcceptWritesOne, WriteKeepsWalks
    <2>2. CASE ~Accept(c)
      <3>1. UNCHANGED <<items, walks>>
        BY <1>1, <2>2 DEF Step, RejectId, LoadNotFound, LoadFails, Get, Prepare, Loaded,
           Reading, Write, WriteAnsweredMalformed, WriteAnswerLost, WriteStale,
           WriteDuplicate, WriteFails, Refused, Retry
      <3> QED BY <3>1, QuietKeepsWalks
    <2> QED BY <2>1, <2>2
  <1>2. ASSUME NEW w \in Walks, WalkStep(w) PROVE WInv' /\ Bounded'
    <2>1. CASE RejectCursor(w)
      BY <2>1, EndKeepsWalks DEF RejectCursor
    <2>2. CASE ServePage(w)
      BY <2>2, PageKeepsWalks
    <2>3. CASE PageFails(w)
      BY <2>3, EndKeepsWalks DEF PageFails
    <2> QED BY <1>2, <2>1, <2>2, <2>3 DEF WalkStep
  <1>3. ASSUME NEW i \in Ids, EditOutside(i) PROVE WInv' /\ Bounded'
    <2>1. Watch
      BY <1>3 DEF EditOutside
    <2> QED BY <1>3, <2>1, EditWritesOne, WriteKeepsWalks
  <1>4. CASE UNCHANGED vars
    BY <1>4, QuietKeepsWalks DEF vars
  <1> QED BY <1>1, <1>2, <1>3, <1>4 DEF Next, AllDone

LEMMA InitWalks == Init => CallTypes /\ WInv /\ Bounded
  <1> SUFFICES ASSUME Init PROVE CallTypes /\ WInv /\ Bounded
    OBVIOUS
  <1>1. CallTypes
    <2>1. Absent \in Items
      BY DEF Absent, Items
    <2>2. items \in [Ids -> Items]
      BY <2>1, ItemAssumption DEF Init, Items
    <2>3. ASSUME NEW c \in Calls
          PROVE  FirstBody(c) \in [kind : {"none", "create", "update", "deactivate"},
                                   sync : Nat, name : Names \cup {NoName}]
      <3>1. ask[c] \in Requests
        BY ItemAssumption DEF Init
      <3> QED BY <3>1 DEF FirstBody, NoBody, Requests
    <2> QED BY <2>1, <2>2, <2>3, ItemAssumption DEF Init, CallTypes, Results
  <1>2. WalkTypes
    BY WalkAssumption DEF Init, WalkTypes, Limit
  <1>3. ASSUME NEW w \in Walks PROVE SkipsCounted(w) /\ RepeatsCounted(w)
    <2>1. /\ at[w] = "first" /\ joined[w] = 0 /\ \A i \in Ids : served[w][i] = 0
      BY DEF Init
    <2>2. Seen(w) = {} /\ Again(w) = {}
      BY <2>1 DEF Seen, Again
    <2>3. Cardinality(Again(w)) = 0
      BY <2>2, FS_EmptySet, Zenon
    <2> QED BY <2>1, <2>2, <2>3 DEF SkipsCounted, RepeatsCounted
  <1>4. Bounded
    BY DEF Init, Bounded
  <1> QED BY <1>1, <1>2, <1>3, <1>4 DEF WInv

LEMMA WalksInductive == Spec => [](CallTypes /\ WInv /\ Bounded)
  <1>1. CallTypes /\ WInv /\ Bounded /\ IInv /\ [Next]_vars => (CallTypes /\ WInv /\ Bounded)'
    BY NextKeepsTypes, NextKeepsWalks
  <1> QED BY <1>1, InitWalks, IInvInductive, PTL DEF Spec

\* Every variable keeps its type, and no walk is sent past the last row there
\* could be: see TypeOK.
THEOREM ItemTypesAreKept == Spec => []TypeOK
  <1>1. CallTypes /\ WInv /\ Bounded => TypeOK
    BY DEF CallTypes, WInv, WalkTypes, Bounded, TypeOK
  <1> QED BY <1>1, WalksInductive, PTL

\* Whatever is written while a client pages through a list, it misses no more of
\* the rows that were there all along than rows left: see SkipsAreDepartures.
THEOREM SkipsAreOnlyDepartures == Spec => []SkipsAreDepartures
  <1>1. WInv => SkipsAreDepartures
    <2> SUFFICES ASSUME WInv, NEW w \in Walks, at[w] = "done", Limit(w) < Cap
                 PROVE  Cardinality({i \in stayed[w] : served[w][i] = 0}) <= left[w]
      BY DEF SkipsAreDepartures
    <2>1. {i \in stayed[w] : served[w][i] = 0} = stayed[w] \cap Unserved(w)
      BY DEF WInv, WalkTypes, Unserved
    <2>2. Cardinality(stayed[w] \cap Unserved(w)) <= left[w]
      BY DEF WInv, SkipsCounted
    <2>3. Cardinality({i \in stayed[w] : served[w][i] = 0})
            = Cardinality(stayed[w] \cap Unserved(w))
      BY <2>1, Zenon
    <2> QED BY <2>2, <2>3
  <1> QED BY <1>1, WalksInductive, PTL

\* It is served a row again only for a row that joined the list: see
\* RepeatsAreArrivals.
THEOREM RepeatsAreOnlyArrivals == Spec => []RepeatsAreArrivals
  <1>1. WInv => RepeatsAreArrivals
    BY DEF WInv, RepeatsCounted, RepeatsAreArrivals, Again
  <1> QED BY <1>1, WalksInductive, PTL
=============================================================================
