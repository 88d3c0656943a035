------------------------- MODULE InvoiceWritesProofs -------------------------
(* Why the SyncToken makes the read-modify-write routes atomic, and the    *)
(* DocNumber a create that is retried; why an invoice keeps a line; and,   *)
(* from what each route computes of the lines it read, that every route    *)
(* implements an atomic change of its invoice.                             *)
EXTENDS InvoiceWrites, FiniteSetTheorems, TLAPS

\* The parts of the state's type the argument needs.
Shape ==
    /\ DOMAIN invoices = Ids
    /\ DOMAIN pc = Calls /\ DOMAIN read = Calls /\ DOMAIN body = Calls
    /\ DOMAIN result = Calls /\ DOMAIN applied = Calls
    /\ \A i \in Ids : invoices[i].sync \in Nat

\* The body a call is about to POST fits the operation and carries the
\* SyncToken of the invoice it was computed from.
BodyFitsRead(c) ==
    IF Op(c) = "create" THEN body[c].kind = "create"
    ELSE /\ Inv(c) \in Ids
         /\ body[c].kind # "create"
         /\ body[c].sync = read[c].sync
         /\ read[c].sync \in Nat

\* A SyncToken identifies what the invoice said: as long as the token QBO has is
\* the one that was read, the invoice is the one that was read.
TokenIdentifies(c) ==
    Op(c) # "create" =>
        /\ invoices[Inv(c)].status # "absent"
        /\ read[c].sync <= invoices[Inv(c)].sync
        /\ read[c].sync = invoices[Inv(c)].sync => read[c] = invoices[Inv(c)]

IInv ==
    /\ Shape
    /\ \A c \in Calls : pc[c] = "post" => BodyFitsRead(c) /\ TokenIdentifies(c)

\* A call that is answered has no POST to make any more.
LEMMA FinishKeeps ==
  ASSUME IInv, NEW c \in Calls, NEW r, Finish(c, r), UNCHANGED invoices,
         DOMAIN applied' = Calls
  PROVE  IInv'
  <1>1. Shape'
    BY DEF IInv, Shape, Finish
  <1>2. ASSUME NEW d \in Calls, pc'[d] = "post"
        PROVE  BodyFitsRead(d)' /\ TokenIdentifies(d)'
    <2>1. d # c /\ pc[d] = "post" /\ read'[d] = read[d] /\ body'[d] = body[d]
      BY <1>2 DEF IInv, Shape, Finish
    <2>2. QED
      BY <2>1 DEF IInv, BodyFitsRead, TokenIdentifies
  <1>3. QED
    BY <1>1, <1>2 DEF IInv

\* A call that has read an invoice carries its token to the POST.
LEMMA PrepareKeeps ==
  ASSUME IInv, NEW c \in Calls, NEW kind, NEW lines, Loaded(c), Op(c) # "create",
         kind # "create", Prepare(c, kind, lines)
  PROVE  IInv'
  <1>1. Inv(c) \in Ids
    BY RequestAssumption DEF Loaded, WellFormedIds, Requests, Inv
  <1>2. Shape'
    BY DEF IInv, Shape, Prepare
  <1>3. ASSUME NEW d \in Calls, pc'[d] = "post"
        PROVE  BodyFitsRead(d)' /\ TokenIdentifies(d)'
    <2>1. CASE d = c
      <3>1. /\ read'[c] = invoices[Inv(c)] /\ body'[c].kind = kind
            /\ body'[c].sync = invoices[Inv(c)].sync
            /\ invoices' = invoices
        BY DEF IInv, Shape, Prepare
      <3>2. invoices[Inv(c)].status # "absent" /\ invoices[Inv(c)].sync \in Nat
        BY <1>1 DEF Loaded, Standing, IInv, Shape
      <3>3. QED
        BY <1>1, <2>1, <3>1, <3>2 DEF BodyFitsRead, TokenIdentifies
    <2>2. CASE d # c
      <3>1. pc[d] = "post" /\ read'[d] = read[d] /\ body'[d] = body[d]
        BY <1>3, <2>2 DEF IInv, Shape, Prepare
      <3>2. QED
        BY <3>1 DEF IInv, BodyFitsRead, TokenIdentifies, Prepare
    <2>3. QED
      BY <2>1, <2>2
  <1>4. QED
    BY <1>2, <1>3 DEF IInv

\* A write of one invoice moves its SyncToken on, so whoever read it before now
\* holds an older token.
LEMMA WriteKeepsOthers ==
  ASSUME IInv, NEW i \in Ids, NEW b, NEW w,
         invoices' = [invoices EXCEPT ![i] = Written(b, w, @)],
         b.kind = "create" \/ invoices[i].status # "absent",
         NEW d \in Calls, pc[d] = "post",
         read'[d] = read[d], body'[d] = body[d]
  PROVE  BodyFitsRead(d)' /\ TokenIdentifies(d)'
  <1>1. BodyFitsRead(d) /\ TokenIdentifies(d)
    BY DEF IInv
  <1>2. CASE Op(d) = "create"
    BY <1>1, <1>2 DEF BodyFitsRead, TokenIdentifies
  <1>3. CASE Op(d) # "create" /\ Inv(d) # i
    <2>1. invoices'[Inv(d)] = invoices[Inv(d)]
      BY <1>1, <1>3 DEF BodyFitsRead, IInv, Shape
    <2>2. QED
      BY <1>1, <2>1 DEF BodyFitsRead, TokenIdentifies
  <1>4. CASE Op(d) # "create" /\ Inv(d) = i
    <2>1. invoices'[i] = Written(b, w, invoices[i])
      BY DEF IInv, Shape
    <2>2. invoices'[i].sync = invoices[i].sync + 1 /\ invoices[i].sync \in Nat
      BY <2>1 DEF Written, IInv, Shape
    <2>3. invoices'[i].status # "absent"
      <3>1. invoices[i].status # "absent"
        BY <1>1, <1>4 DEF TokenIdentifies
      <3>2. QED
        BY <2>1, <3>1 DEF Written
    <2>4. QED
      BY <1>1, <1>4, <2>2, <2>3 DEF BodyFitsRead, TokenIdentifies
  <1>5. QED
    BY <1>2, <1>3, <1>4

\* QBO applies a call's write.
LEMMA AcceptKeeps ==
  ASSUME IInv, NEW c \in Calls, NEW r, Accept(c), Finish(c, r)
  PROVE  IInv'
  <1>1. PICK i \in Ids : /\ invoices' = [invoices EXCEPT ![i] = Written(body[c], c, @)]
                         /\ body[c].kind = "create" \/ invoices[i].status # "absent"
    <2>1. CASE AcceptCreate(c)
      BY <2>1 DEF AcceptCreate
    <2>2. CASE AcceptUpdate(c)
      <3>1. Op(c) # "create"
        BY <2>2 DEF AcceptUpdate, Accept, IInv, BodyFitsRead
      <3>2. Inv(c) \in Ids
        BY <3>1 DEF Accept, IInv, BodyFitsRead
      <3>3. QED
        BY <2>2, <3>2 DEF AcceptUpdate, Standing
    <2>3. QED
      BY <2>1, <2>2 DEF Accept
  <1>2. Shape'
    <2>1. \A j \in Ids : invoices'[j].sync \in Nat
      <3> SUFFICES ASSUME NEW j \in Ids PROVE invoices'[j].sync \in Nat
        OBVIOUS
      <3>1. CASE j = i
        BY <1>1, <3>1 DEF IInv, Shape, Written
      <3>2. CASE j # i
        BY <1>1, <3>2 DEF IInv, Shape
      <3>3. QED
        BY <3>1, <3>2
    <2>2. QED
      BY <1>1, <2>1 DEF IInv, Shape, Finish, Accept
  <1>3. ASSUME NEW d \in Calls, pc'[d] = "post"
        PROVE  BodyFitsRead(d)' /\ TokenIdentifies(d)'
    <2>1. pc[d] = "post" /\ read'[d] = read[d] /\ body'[d] = body[d]
      BY <1>3 DEF IInv, Shape, Finish
    <2>2. QED
      BY <1>1, <2>1, WriteKeepsOthers
  <1>4. QED
    BY <1>2, <1>3 DEF IInv

LEMMA EditKeeps ==
  ASSUME IInv, NEW i \in Ids, EditOutside(i)
  PROVE  IInv'
  <1>1. PICK lines :
          invoices' = [invoices EXCEPT ![i] = Written([kind |-> "lines", lines |-> lines], QBO, @)]
    BY DEF EditOutside
  <1>2. Shape'
    <2>1. \A j \in Ids : invoices'[j].sync \in Nat
      <3> SUFFICES ASSUME NEW j \in Ids PROVE invoices'[j].sync \in Nat
        OBVIOUS
      <3>1. CASE j = i
        BY <1>1, <3>1 DEF IInv, Shape, Written
      <3>2. CASE j # i
        BY <1>1, <3>2 DEF IInv, Shape
      <3>3. QED
        BY <3>1, <3>2
    <2>2. QED
      BY <1>1, <2>1 DEF IInv, Shape, EditOutside
  <1>3. ASSUME NEW d \in Calls, pc'[d] = "post"
        PROVE  BodyFitsRead(d)' /\ TokenIdentifies(d)'
    <2>1. pc[d] = "post" /\ read'[d] = read[d] /\ body'[d] = body[d]
      BY <1>3 DEF EditOutside
    <2>2. invoices[i].status # "absent"
      BY DEF EditOutside
    <2>3. QED
      BY <1>1, <2>1, <2>2, WriteKeepsOthers
  <1>4. QED
    BY <1>2, <1>3 DEF IInv

LEMMA RetryKeeps ==
  ASSUME IInv, NEW c \in Calls, Retry(c)
  PROVE  IInv'
  <1>1. Shape'
    BY DEF IInv, Shape, Retry
  <1>2. ASSUME NEW d \in Calls, pc'[d] = "post"
        PROVE  BodyFitsRead(d)' /\ TokenIdentifies(d)'
    <2>1. CASE d = c
      <3>1. Op(c) = "create" /\ body'[c] = CreateBody(c)
        BY <1>2, <2>1 DEF IInv, Shape, Retry, Entry, FirstBody
      <3>2. QED
        BY <2>1, <3>1 DEF BodyFitsRead, TokenIdentifies, CreateBody, Op
    <2>2. CASE d # c
      <3>1. pc[d] = "post" /\ read'[d] = read[d] /\ body'[d] = body[d]
        BY <1>2, <2>2 DEF IInv, Shape, Retry
      <3>2. QED
        BY <3>1 DEF IInv, BodyFitsRead, TokenIdentifies, Retry
    <2>3. QED
      BY <2>1, <2>2
  <1>3. QED
    BY <1>1, <1>2 DEF IInv

LEMMA ReadStepKeeps ==
  ASSUME IInv, NEW c \in Calls, ReadStep(c)
  PROVE  IInv'
  <1>1. CASE RejectIds(c)
    BY <1>1, FinishKeeps DEF RejectIds, IInv, Shape
  <1>2. CASE LoadNotFound(c)
    BY <1>2, FinishKeeps DEF LoadNotFound, IInv, Shape
  <1>3. CASE LoadFails(c)
    BY <1>3, FinishKeeps DEF LoadFails, IInv, Shape
  <1>4. CASE AppendLine(c)
    BY <1>4, PrepareKeeps DEF AppendLine
  <1>5. CASE Replace(c)
    BY <1>5, PrepareKeeps DEF Replace
  <1>6. CASE UpdateCustomFields(c)
    BY <1>6, PrepareKeeps DEF UpdateCustomFields
  <1>7. CASE Delete(c)
    BY <1>7, PrepareKeeps DEF Delete
  <1>8. CASE Void(c)
    BY <1>8, PrepareKeeps DEF Void
  <1>9. CASE LineNotFound(c)
    BY <1>9, FinishKeeps DEF LineNotFound, IInv, Shape
  <1>10. CASE UpdateLine(c)
    BY <1>10, PrepareKeeps DEF UpdateLine
  <1>11. CASE CannotDeleteLastLine(c)
    BY <1>11, FinishKeeps DEF CannotDeleteLastLine, IInv, Shape
  <1>12. CASE DeleteLine(c)
    BY <1>12, PrepareKeeps DEF DeleteLine
  <1>13. QED
    BY <1>1, <1>2, <1>3, <1>4, <1>5, <1>6, <1>7, <1>8, <1>9, <1>10, <1>11, <1>12
    DEF ReadStep

LEMMA RefuseKeeps ==
  ASSUME IInv, NEW c \in Calls, NEW r, Refuse(c, r)
  PROVE  IInv'
  BY FinishKeeps DEF Refuse, IInv, Shape

LEMMA WriteStepKeeps ==
  ASSUME IInv, NEW c \in Calls, WriteStep(c)
  PROVE  IInv'
  <1>1. CASE Write(c)
    BY <1>1, AcceptKeeps DEF Write
  <1>2. CASE WriteAnsweredMalformed(c)
    BY <1>2, AcceptKeeps DEF WriteAnsweredMalformed
  <1>3. CASE WriteAnswerLost(c)
    BY <1>3, AcceptKeeps DEF WriteAnswerLost
  <1>4. CASE WriteStale(c)
    BY <1>4, RefuseKeeps DEF WriteStale
  <1>5. CASE WriteNotFound(c)
    BY <1>5, RefuseKeeps DEF WriteNotFound
  <1>6. CASE WriteDuplicate(c)
    BY <1>6, RefuseKeeps DEF WriteDuplicate
  <1>7. CASE WriteFails(c)
    BY <1>7, RefuseKeeps DEF WriteFails
  <1>8. QED
    BY <1>1, <1>2, <1>3, <1>4, <1>5, <1>6, <1>7 DEF WriteStep

LEMMA IInvInductive == Spec => []IInv
  <1>1. Init => IInv
    <2> SUFFICES ASSUME Init PROVE IInv
      OBVIOUS
    <2>1. Shape
      BY DEF Init, Shape, Absent
    <2>2. ASSUME NEW c \in Calls, pc[c] = "post"
          PROVE  BodyFitsRead(c) /\ TokenIdentifies(c)
      <3>1. Op(c) = "create" /\ body[c] = CreateBody(c)
        BY <2>2 DEF Init, Entry, FirstBody
      <3>2. QED
        BY <3>1 DEF BodyFitsRead, TokenIdentifies, CreateBody
    <2>3. QED
      BY <2>1, <2>2 DEF IInv
  <1>2. IInv /\ [Next]_vars => IInv'
    <2> SUFFICES ASSUME IInv, [Next]_vars PROVE IInv'
      OBVIOUS
    <2>1. ASSUME NEW c \in Calls, Step(c) PROVE IInv'
      BY <2>1, ReadStepKeeps, WriteStepKeeps, RetryKeeps DEF Step
    <2>2. ASSUME NEW i \in Ids, EditOutside(i) PROVE IInv'
      BY <2>2, EditKeeps
    <2>3. CASE UNCHANGED vars
      BY <2>3 DEF vars, IInv, Shape, BodyFitsRead, TokenIdentifies
    <2>4. QED
      BY <2>1, <2>2, <2>3 DEF Next, AllDone
  <1>3. QED
    BY <1>1, <1>2, PTL DEF Spec

\* Whatever the other calls and the people in QuickBooks do, a write takes
\* effect on exactly the invoice it was computed from: see NoLostUpdate.
THEOREM SyncTokenPreventsLostUpdates == Spec => NoLostUpdate
  <1>1. ASSUME IInv, [Next]_vars, NEW c \in Calls, applied'[c] # applied[c],
               Op(c) # "create"
        PROVE  invoices[Inv(c)] = read[c]
    <2>1. ASSUME NEW d \in Calls, Step(d) PROVE Accept(d) /\ d = c
      <3>1. applied' # applied
        BY <1>1
      <3>2. ~ReadStep(d)
        BY <3>1 DEF ReadStep, RejectIds, LoadNotFound, LoadFails, AppendLine, Replace,
           UpdateCustomFields, Delete, Void, LineNotFound, UpdateLine,
           CannotDeleteLastLine, DeleteLine, Prepare
      <3>3. ~Retry(d)
        BY <3>1 DEF Retry
      <3>4. Accept(d)
        BY <2>1, <3>1, <3>2, <3>3 DEF Step, WriteStep, Write, WriteAnsweredMalformed,
           WriteAnswerLost, WriteStale, WriteNotFound, WriteDuplicate, WriteFails, Refuse
      <3>5. d = c
        BY <1>1, <3>4 DEF Accept, IInv, Shape
      <3>6. QED
        BY <3>4, <3>5
    <2>2. Accept(c)
      BY <1>1, <2>1 DEF Next, EditOutside, AllDone, vars
    <2>3. BodyFitsRead(c) /\ TokenIdentifies(c) /\ pc[c] = "post"
      BY <1>1, <2>2 DEF IInv, Accept
    <2>4. body[c].sync = invoices[Inv(c)].sync
      BY <1>1, <2>2, <2>3 DEF Accept, AcceptCreate, AcceptUpdate, BodyFitsRead
    <2>5. QED
      BY <1>1, <2>3, <2>4 DEF BodyFitsRead, TokenIdentifies
  <1>2. IInv /\ [Next]_vars =>
          [\A c \in Calls : applied'[c] # applied[c] /\ Op(c) # "create"
                             => invoices[Inv(c)] = read[c]]_vars
    BY <1>1
  <1>3. QED
    BY <1>2, IInvInductive, PTL DEF Spec, NoLostUpdate

\* A call that is not answered has changed nothing, whatever it went through
\* on earlier attempts; an answered one has changed what its answer says.
Truthful(c) ==
    Op(c) \notin RetriesLost =>
        /\ pc[c] \in {"load", "post"} => applied[c] = 0 /\ result[c] = "none"
        /\ result[c] = "ok" => applied[c] = 1
        /\ result[c] \in Refusals => applied[c] = 0

AInv ==
    /\ DOMAIN pc = Calls /\ DOMAIN result = Calls /\ DOMAIN applied = Calls
    /\ \A c \in Calls : Truthful(c)

\* A step of one call leaves the others as they were.
LEMMA OthersStayTruthful ==
  ASSUME AInv, NEW c \in Calls, Truthful(c)',
         DOMAIN pc' = Calls, DOMAIN result' = Calls, DOMAIN applied' = Calls,
         \A d \in Calls \ {c} : /\ pc'[d] = pc[d] /\ result'[d] = result[d]
                               /\ applied'[d] = applied[d]
  PROVE  AInv'
  <1>1. ASSUME NEW d \in Calls PROVE Truthful(d)'
    <2>1. CASE d = c
      BY <2>1
    <2>2. CASE d # c
      BY <2>2 DEF AInv, Truthful
    <2>3. QED
      BY <2>1, <2>2
  <1>2. QED
    BY <1>1 DEF AInv

LEMMA RefusalTruthful ==
  ASSUME AInv, NEW c \in Calls, NEW r, Finish(c, r), applied' = applied,
         pc[c] \in {"load", "post"}, r # "ok"
  PROVE  AInv'
  <1>1. pc'[c] = "done" /\ result'[c] = r /\ applied'[c] = applied[c]
    BY DEF Finish, AInv
  <1>2. Truthful(c)'
    BY <1>1 DEF AInv, Truthful
  <1>3. QED
    BY <1>2, OthersStayTruthful DEF Finish, AInv

LEMMA AcceptTruthful ==
  ASSUME AInv, NEW c \in Calls, NEW r, Accept(c), Finish(c, r), r \notin Refusals
  PROVE  AInv'
  <1>1. /\ pc[c] = "post" /\ pc'[c] = "done" /\ result'[c] = r
        /\ applied'[c] = applied[c] + 1
    BY DEF Finish, Accept, AInv
  <1>2. Truthful(c)'
    BY <1>1 DEF AInv, Truthful
  <1>3. QED
    BY <1>2, OthersStayTruthful DEF Finish, Accept, AInv

LEMMA PrepareTruthful ==
  ASSUME AInv, NEW c \in Calls, NEW kind, NEW lines, Loaded(c), Prepare(c, kind, lines)
  PROVE  AInv'
  <1>1. /\ pc[c] = "load" /\ pc'[c] = "post" /\ result'[c] = result[c]
        /\ applied'[c] = applied[c]
    BY DEF Prepare, Loaded, AInv
  <1>2. Truthful(c)'
    BY <1>1 DEF AInv, Truthful
  <1>3. QED
    BY <1>2, OthersStayTruthful DEF Prepare, AInv

LEMMA RetryTruthful ==
  ASSUME AInv, NEW c \in Calls, Retry(c)
  PROVE  AInv'
  <1>1. /\ result'[c] = "none" /\ applied'[c] = applied[c]
        /\ result[c] = "stale" \/ Op(c) \in RetriesLost
    BY DEF Retry, AInv
  <1>2. Truthful(c)'
    BY <1>1 DEF AInv, Truthful, Refusals
  <1>3. QED
    BY <1>2, OthersStayTruthful DEF Retry, AInv

LEMMA StepTruthful ==
  ASSUME AInv, NEW c \in Calls, Step(c)
  PROVE  AInv'
  <1>1. CASE ReadStep(c)
    <2>1. CASE RejectIds(c) \/ LoadNotFound(c) \/ LoadFails(c)
      BY <2>1, RefusalTruthful DEF RejectIds, LoadNotFound, LoadFails
    <2>2. CASE LineNotFound(c) \/ CannotDeleteLastLine(c)
      BY <2>2, RefusalTruthful DEF LineNotFound, CannotDeleteLastLine, Loaded
    <2>3. CASE AppendLine(c) \/ Replace(c) \/ UpdateCustomFields(c) \/ Delete(c) \/ Void(c)
      BY <2>3, PrepareTruthful DEF AppendLine, Replace, UpdateCustomFields, Delete, Void
    <2>4. CASE UpdateLine(c) \/ DeleteLine(c)
      BY <2>4, PrepareTruthful DEF UpdateLine, DeleteLine
    <2>5. QED
      BY <1>1, <2>1, <2>2, <2>3, <2>4 DEF ReadStep
  <1>2. CASE WriteStep(c)
    <2>1. CASE Write(c) \/ WriteAnsweredMalformed(c) \/ WriteAnswerLost(c)
      BY <2>1, AcceptTruthful DEF Write, WriteAnsweredMalformed, WriteAnswerLost, Refusals
    <2>2. ASSUME NEW r, Refuse(c, r), r # "ok" PROVE AInv'
      BY <2>2, RefusalTruthful DEF Refuse
    <2>3. CASE WriteStale(c) \/ WriteNotFound(c) \/ WriteDuplicate(c) \/ WriteFails(c)
      BY <2>2, <2>3 DEF WriteStale, WriteNotFound, WriteDuplicate, WriteFails
    <2>4. QED
      BY <1>2, <2>1, <2>3 DEF WriteStep
  <1>3. CASE Retry(c)
    BY <1>3, RetryTruthful
  <1>4. QED
    BY <1>1, <1>2, <1>3 DEF Step

LEMMA AInvHolds == Spec => []AInv
  <1>1. Init => AInv
    BY DEF Init, AInv, Truthful, Refusals
  <1>2. AInv /\ [Next]_vars => AInv'
    <2> SUFFICES ASSUME AInv, [Next]_vars PROVE AInv'
      OBVIOUS
    <2>1. CASE UNCHANGED <<pc, result, applied>>
      BY <2>1 DEF AInv, Truthful
    <2>2. QED
      BY <2>1, StepTruthful DEF Next, EditOutside, AllDone, vars
  <1>3. QED
    BY <1>1, <1>2, PTL DEF Spec

\* For a caller that only retries its 409s, a 200 means one change and a 4xx or
\* 503 none, over all its attempts: see AnswersAreTrue.
THEOREM AnswersCanBeTrusted == Spec => []AnswersAreTrue
  <1>1. AInv => AnswersAreTrue
    BY DEF AInv, Truthful, AnswersAreTrue
  <1>2. QED
    BY <1>1, AInvHolds, PTL
---------------------------------------------------------------------------
(* Why a create may be retried blindly: its DocNumber is the idempotency key *)

\* An invoice that is not one of the first has the DocNumber that call c wants.
Claimed(c) ==
    \E i \in Ids \ Existing : Standing(invoices[i]) /\ invoices[i].doc = Request[c].doc

CreateOnce(c) ==
    Op(c) = "create" =>
        /\ pc[c] # "load"
        /\ pc[c] = "post" => body[c] = CreateBody(c)
        /\ applied[c] = 1 => Claimed(c)

OInv ==
    /\ \A i \in Existing : invoices[i].status # "absent"
    /\ \A c \in Calls : CreateOnce(c) /\ applied[c] \in {0, 1}

\* Only the first invoices are written to, but for lines that people edit.
OnlyFirstWritten == \A c \in Calls : Op(c) # "create" => Inv(c) \in Existing \cup {Malformed}

\* A write of a first invoice, and any write of lines, frees no DocNumber that
\* a create claimed.
LEMMA ClaimsStay ==
  ASSUME Shape, OInv, NEW i \in Ids, NEW b, NEW w,
         invoices' = [invoices EXCEPT ![i] = Written(b, w, @)],
         \/ i \in Existing /\ b.kind # "create"
         \/ b.kind = "create" /\ invoices[i].status = "absent"
         \/ b.kind = "lines"
  PROVE  /\ \A j \in Existing : invoices'[j].status # "absent"
         /\ \A d \in Calls : Claimed(d) => Claimed(d)'
  <1>1. invoices'[i] = Written(b, w, invoices[i])
        /\ \A j \in Ids : j # i => invoices'[j] = invoices[j]
    BY DEF Shape
  <1>2. ASSUME NEW j \in Existing PROVE invoices'[j].status # "absent"
    <2>1. j \in Ids /\ invoices[j].status # "absent"
      BY RequestAssumption DEF OInv
    <2>2. QED
      BY <1>1, <2>1 DEF Written
  <1>3. ASSUME NEW d \in Calls, Claimed(d) PROVE Claimed(d)'
    <2>1. PICK j \in Ids \ Existing : Standing(invoices[j]) /\ invoices[j].doc = Request[d].doc
      BY <1>3 DEF Claimed
    <2>2. CASE j # i
      BY <1>1, <2>1, <2>2 DEF Claimed, Standing
    <2>3. CASE j = i
      <3>1. b.kind = "lines"
        BY <2>1, <2>3 DEF Standing
      <3>2. /\ invoices'[j].status = invoices[j].status
            /\ invoices'[j].doc = invoices[j].doc
        BY <1>1, <2>3, <3>1 DEF Written, Replaces
      <3>3. QED
        BY <2>1, <3>2 DEF Claimed, Standing
    <2>4. QED
      BY <2>2, <2>3
  <1>4. QED
    BY <1>2, <1>3

\* A step that changes nothing at QBO.
LEMMA QuietKeepsOnce ==
  ASSUME OInv, UNCHANGED <<invoices, applied>>,
         \A d \in Calls : Op(d) = "create" =>
            \/ pc'[d] = pc[d] /\ body'[d] = body[d]
            \/ pc'[d] = "done"
            \/ pc'[d] = "post" /\ body'[d] = CreateBody(d)
  PROVE  OInv'
  BY DEF OInv, CreateOnce, Claimed

LEMMA AcceptOnce ==
  ASSUME OnlyFirstWritten, RetriesLost \subseteq {"create"},
         IInv, AInv, OInv, NEW c \in Calls, NEW r, Accept(c), Finish(c, r)
  PROVE  OInv'
  <1>1. /\ pc[c] = "post" /\ BodyFitsRead(c) /\ applied'[c] = applied[c] + 1
        /\ \A d \in Calls : d # c => applied'[d] = applied[d]
    BY DEF Accept, IInv, Shape
  <1>2. /\ pc'[c] = "done"
        /\ \A d \in Calls : d # c => pc'[d] = pc[d] /\ body'[d] = body[d]
    BY DEF Finish, IInv, Shape
  <1>3. CASE AcceptCreate(c)
    <2>1. Op(c) = "create" /\ body[c] = CreateBody(c)
      BY <1>1, <1>3 DEF AcceptCreate, BodyFitsRead, OInv, CreateOnce
    <2>2. body[c].doc = Request[c].doc /\ Request[c].doc # NoDoc
      BY <2>1, RequestAssumption DEF CreateBody, Requests
    <2>3. ~Claimed(c)
      BY <1>3, <2>2, RequestAssumption DEF AcceptCreate, DocTaken, Claimed
    <2>4. applied'[c] = 1
      BY <1>1, <2>1, <2>3 DEF OInv, CreateOnce
    <2>5. PICK i \in Ids : /\ invoices[i].status = "absent"
                          /\ invoices' = [invoices EXCEPT ![i] = Written(body[c], c, @)]
      BY <1>3 DEF AcceptCreate
    <2>6. /\ \A j \in Existing : invoices'[j].status # "absent"
          /\ \A d \in Calls : Claimed(d) => Claimed(d)'
      BY <1>3, <2>5, ClaimsStay DEF AcceptCreate, IInv
    <2>7. Claimed(c)'
      <3>1. i \in Ids \ Existing
        BY <2>5 DEF OInv
      <3>2. invoices'[i].status = "open" /\ invoices'[i].doc = Request[c].doc
        BY <1>3, <2>2, <2>5 DEF AcceptCreate, IInv, Shape, Written, Replaces
      <3>3. QED
        BY <3>1, <3>2 DEF Claimed, Standing
    <2>8. QED
      BY <1>1, <1>2, <2>4, <2>6, <2>7 DEF OInv, CreateOnce
  <1>4. CASE AcceptUpdate(c)
    <2>1. Op(c) # "create" /\ body[c].kind # "create" /\ Inv(c) \in Ids
      BY <1>1, <1>4 DEF AcceptUpdate, BodyFitsRead
    <2>2. Inv(c) \in Existing
      BY <2>1, RequestAssumption DEF OnlyFirstWritten
    <2>3. /\ \A j \in Existing : invoices'[j].status # "absent"
          /\ \A d \in Calls : Claimed(d) => Claimed(d)'
      BY <1>4, <2>1, <2>2, ClaimsStay DEF AcceptUpdate, IInv
    <2>4. applied[c] = 0
      BY <1>1, <2>1 DEF AInv, Truthful
    <2>5. QED
      BY <1>1, <1>2, <2>1, <2>3, <2>4 DEF OInv, CreateOnce
  <1>5. QED
    BY <1>3, <1>4 DEF Accept

LEMMA StepOnce ==
  ASSUME OnlyFirstWritten, RetriesLost \subseteq {"create"},
         IInv, AInv, OInv, NEW c \in Calls, Step(c)
  PROVE  OInv'
  <1>1. ASSUME NEW r, Finish(c, r), UNCHANGED <<invoices, applied>> PROVE OInv'
    <2>1. \A d \in Calls : pc'[d] = "done" \/ (pc'[d] = pc[d] /\ body'[d] = body[d])
      BY <1>1 DEF Finish, IInv, Shape
    <2>2. QED
      BY <1>1, <2>1, QuietKeepsOnce
  <1>2. ASSUME NEW kind, NEW lines, Loaded(c), Prepare(c, kind, lines) PROVE OInv'
    <2>1. Op(c) # "create"
      BY <1>2 DEF Loaded, OInv, CreateOnce
    <2>2. \A d \in Calls : d # c => pc'[d] = pc[d] /\ body'[d] = body[d]
      BY <1>2 DEF Prepare, IInv, Shape
    <2>3. QED
      BY <1>2, <2>1, <2>2, QuietKeepsOnce DEF Prepare
  <1>3. CASE ReadStep(c)
    <2>1. CASE RejectIds(c) \/ LoadNotFound(c) \/ LoadFails(c)
      BY <2>1, <1>1 DEF RejectIds, LoadNotFound, LoadFails
    <2>2. CASE LineNotFound(c) \/ CannotDeleteLastLine(c)
      BY <2>2, <1>1 DEF LineNotFound, CannotDeleteLastLine
    <2>3. CASE AppendLine(c) \/ Replace(c) \/ UpdateCustomFields(c) \/ Delete(c) \/ Void(c)
      BY <2>3, <1>2 DEF AppendLine, Replace, UpdateCustomFields, Delete, Void
    <2>4. CASE UpdateLine(c) \/ DeleteLine(c)
      BY <2>4, <1>2 DEF UpdateLine, DeleteLine
    <2>5. QED
      BY <1>3, <2>1, <2>2, <2>3, <2>4 DEF ReadStep
  <1>4. CASE WriteStep(c)
    <2>1. CASE Write(c) \/ WriteAnsweredMalformed(c) \/ WriteAnswerLost(c)
      BY <2>1, AcceptOnce DEF Write, WriteAnsweredMalformed, WriteAnswerLost
    <2>2. CASE WriteStale(c) \/ WriteNotFound(c) \/ WriteDuplicate(c) \/ WriteFails(c)
      BY <2>2, <1>1 DEF WriteStale, WriteNotFound, WriteDuplicate, WriteFails, Refuse
    <2>3. QED
      BY <1>4, <2>1, <2>2 DEF WriteStep
  <1>5. CASE Retry(c)
    <2>1. \A d \in Calls : d # c => pc'[d] = pc[d] /\ body'[d] = body[d]
      BY <1>5 DEF Retry, IInv, Shape
    <2>2. Op(c) = "create" => pc'[c] = "post" /\ body'[c] = CreateBody(c)
      BY <1>5 DEF Retry, Entry, FirstBody, IInv, Shape
    <2>3. QED
      BY <1>5, <2>1, <2>2, QuietKeepsOnce DEF Retry
  <1>6. QED
    BY <1>3, <1>4, <1>5 DEF Step

\* "Web app retries are safe": as long as nobody deletes or renumbers what a
\* create made, a create whose caller repeats it after every lost answer takes
\* effect once, and so does every other call, whose caller repeats only 409s.
THEOREM RetriedCreatesAreOnce ==
  ASSUME OnlyFirstWritten, RetriesLost \subseteq {"create"}
  PROVE  Spec => []AppliedAtMostOnce
  <1>1. Init => OInv
    <2> SUFFICES ASSUME Init PROVE OInv
      OBVIOUS
    <2>1. ASSUME NEW i \in Existing PROVE invoices[i].status # "absent"
      BY RequestAssumption DEF Init
    <2>2. ASSUME NEW c \in Calls PROVE CreateOnce(c) /\ applied[c] \in {0, 1}
      BY DEF Init, CreateOnce, Entry, FirstBody
    <2>3. QED
      BY <2>1, <2>2 DEF OInv
  <1>2. IInv /\ AInv /\ OInv /\ [Next]_vars => OInv'
    <2> SUFFICES ASSUME IInv, AInv, OInv, [Next]_vars PROVE OInv'
      OBVIOUS
    <2>1. ASSUME NEW i \in Ids, EditOutside(i) PROVE OInv'
      <3>1. PICK lines :
              invoices' = [invoices EXCEPT ![i] = Written([kind |-> "lines", lines |-> lines], QBO, @)]
        BY <2>1 DEF EditOutside
      <3>2. /\ \A j \in Existing : invoices'[j].status # "absent"
            /\ \A d \in Calls : Claimed(d) => Claimed(d)'
        BY <3>1, ClaimsStay DEF IInv
      <3>3. QED
        BY <2>1, <3>2 DEF EditOutside, OInv, CreateOnce
    <2>2. CASE UNCHANGED vars
      BY <2>2, QuietKeepsOnce DEF vars
    <2>3. QED
      BY <2>1, <2>2, StepOnce DEF Next, AllDone
  <1>3. OInv => AppliedAtMostOnce
    BY DEF OInv, AppliedAtMostOnce
  <1>4. QED
    BY <1>1, <1>2, <1>3, IInvInductive, AInvHolds, PTL DEF Spec
---------------------------------------------------------------------------
(* What becomes of the lines *)

\* The lines without one of them.
LEMMA PickedButOne ==
  ASSUME NEW s, NEW N \in Nat, NEW k \in 1 .. N
  PROVE  Picked(s, (1 .. N) \ {k}) =
           [n \in 1 .. N - 1 |-> IF n < k THEN s[n] ELSE s[n + 1]]
  <1> DEFINE S == (1 .. N) \ {k}
  <1>1. Cardinality(S) = N - 1
    <2>1. IsFiniteSet(1 .. N) /\ Cardinality(1 .. N) = N /\ k \in 1 .. N
      BY FS_Interval
    <2> QED BY <2>1, FS_RemoveElement
  <1>2. ASSUME NEW m \in S
        PROVE  Cardinality({j \in S : j <= m}) = IF m < k THEN m ELSE m - 1
    <2>1. m \in Nat /\ m >= 1
      OBVIOUS
    <2>2. IsFiniteSet(1 .. m) /\ Cardinality(1 .. m) = m
      BY <2>1, FS_Interval
    <2>3. CASE m < k
      <3>1. {j \in S : j <= m} = 1 .. m
        BY <2>3
      <3>2. Cardinality({j \in S : j <= m}) = Cardinality(1 .. m)
        BY <3>1, Zenon
      <3> QED BY <2>2, <2>3, <3>2
    <2>4. CASE ~(m < k)
      <3>1. {j \in S : j <= m} = (1 .. m) \ {k} /\ k \in 1 .. m
        BY <2>4
      <3>2. Cardinality((1 .. m) \ {k}) = m - 1
        BY <2>2, <3>1, FS_RemoveElement
      <3>3. Cardinality({j \in S : j <= m}) = Cardinality((1 .. m) \ {k})
        BY <3>1, Zenon
      <3> QED BY <2>4, <3>2, <3>3
    <2> QED BY <2>3, <2>4
  <1>3. ASSUME NEW n \in 1 .. N - 1
        PROVE  Nth(S, n) = IF n < k THEN n ELSE n + 1
    <2> DEFINE m == IF n < k THEN n ELSE n + 1
    <2>1. m \in S /\ Cardinality({j \in S : j <= m}) = n
      BY <1>2
    <2>2. ASSUME NEW j \in S, Cardinality({i \in S : i <= j}) = n PROVE j = m
      BY <1>2, <2>2
    <2> HIDE DEF m, S
    <2>3. Nth(S, n) = m
      BY <2>1, <2>2 DEF Nth
    <2> QED BY <2>3 DEF m
  <1> HIDE DEF S
  <1>4. Picked(s, S) = [n \in 1 .. N - 1 |-> s[Nth(S, n)]]
    BY <1>1 DEF Picked
  <1> QED BY <1>3, <1>4 DEF S

\* All of them.
LEMMA PickedAll ==
  ASSUME NEW s, NEW N \in Nat
  PROVE  Picked(s, 1 .. N) = [n \in 1 .. N |-> s[n]]
  <1>1. Cardinality(1 .. N) = N
    BY FS_Interval
  <1>2. ASSUME NEW n \in 1 .. N PROVE Nth(1 .. N, n) = n
    <2>1. ASSUME NEW m \in 1 .. N PROVE Cardinality({j \in 1 .. N : j <= m}) = m
      <3>1. {j \in 1 .. N : j <= m} = 1 .. m
        OBVIOUS
      <3>2. Cardinality(1 .. m) = m
        BY FS_Interval
      <3> QED BY <3>1, <3>2, Zenon
    <2> DEFINE S == 1 .. N
    <2>2. \A m \in S : Cardinality({j \in S : j <= m}) = m
      BY <2>1
    <2> HIDE DEF S
    <2>3. n \in S => Nth(S, n) = n
      BY <2>2 DEF Nth
    <2> QED BY <2>3 DEF S
  <1>3. Picked(s, 1 .. N) = [n \in 1 .. N |-> s[Nth(1 .. N, n)]]
    BY <1>1, Zenon DEF Picked
  <1> QED BY <1>2, <1>3

\* The lines QBO holds: each has an id it gave, and no two have one.
Lines == [id : Nat, by : Calls \cup {QBO}]
LinesFit(inv) ==
    /\ inv.minted \in Nat
    /\ inv.lines \in Seq(Lines)
    /\ \A k \in DOMAIN inv.lines : inv.lines[k].id \in 1 .. inv.minted
    /\ \A j, k \in DOMAIN inv.lines : inv.lines[j].id = inv.lines[k].id => j = k
    /\ inv.status = "absent" => inv.lines = <<>>

\* A handler strips the subtotal row and nothing else.
LEMMA ExistingLinesAreLines ==
  ASSUME NEW c, LinesFit(invoices[Inv(c)])
  PROVE  ExistingLines(c) = invoices[Inv(c)].lines
  <1> DEFINE s == invoices[Inv(c)].lines
             t == Append(s, SubTotal)
  <1>1. s \in Seq(Lines) /\ Len(s) \in Nat /\ DOMAIN s = 1 .. Len(s)
        /\ \A k \in 1 .. Len(s) : s[k].id >= 1 /\ s[k].id \in Nat
    BY DEF LinesFit
  <1>2. SubTotal.id = 0
    BY DEF SubTotal, Line, NoId
  <1> HIDE DEF s
  <1>3. CASE s = <<>>
    <2>1. Returned(invoices[Inv(c)]) = <<>>
      BY <1>3 DEF Returned, s
    <2>2. {k \in DOMAIN <<>> : IsItemLine(<<>>[k])} = 1 .. 0 /\ 0 \in Nat
      OBVIOUS
    <2>3. Picked(<<>>, 1 .. 0) = [n \in 1 .. 0 |-> <<>>[n]]
      BY PickedAll, <2>2
    <2>4. ExistingLines(c) = Picked(<<>>, 1 .. 0)
      BY <2>1, <2>2, Zenon DEF ExistingLines, StripSubtotals
    <2>5. [n \in 1 .. 0 |-> <<>>[n]] = <<>>
      OBVIOUS
    <2> QED BY <1>3, <2>3, <2>4, <2>5 DEF s
  <1>4. CASE s # <<>>
    <2>1. Returned(invoices[Inv(c)]) = t
      BY <1>4 DEF Returned, s
    <2>2. /\ DOMAIN t = 1 .. Len(s) + 1
          /\ t[Len(s) + 1] = SubTotal /\ \A k \in 1 .. Len(s) : t[k] = s[k]
      BY <1>1
    <2>3. {k \in DOMAIN t : IsItemLine(t[k])} = 1 .. Len(s)
      BY <1>1, <1>2, <2>2 DEF IsItemLine
    <2>4. ExistingLines(c) = Picked(t, 1 .. Len(s))
      BY <2>1, <2>3, Zenon DEF ExistingLines, StripSubtotals
    <2>5. ExistingLines(c) = [n \in 1 .. Len(s) |-> t[n]]
      BY <1>1, <2>4, PickedAll
    <2> QED BY <1>1, <2>2, <2>5 DEF s
  <1> QED BY <1>3, <1>4

\* What QBO makes of lines that carry ids, of new ones, and of a new one after
\* lines that do.
LEMMA NumberedKept ==
  ASSUME NEW s, NEW m, \A k \in DOMAIN s : s[k].id # NoId,
         s = [k \in DOMAIN s |-> s[k]]
  PROVE  Numbered(s, m) = s /\ NewIds(s) = 0
  <1>1. Numbered(s, m) = s
    BY DEF Numbered
  <1>2. {k \in DOMAIN s : s[k].id = NoId} = {}
    OBVIOUS
  <1>3. NewIds(s) = 0
    BY <1>2, FS_EmptySet, Zenon DEF NewIds
  <1> QED BY <1>1, <1>3

LEMMA NumberedFresh ==
  ASSUME NEW n \in Nat, NEW w, NEW m \in Nat
  PROVE  /\ Numbered([k \in 1 .. n |-> Line(NoId, w)], m) = [k \in 1 .. n |-> Line(m + k, w)]
         /\ NewIds([k \in 1 .. n |-> Line(NoId, w)]) = n
  <1> DEFINE s == [k \in 1 .. n |-> Line(NoId, w)]
  <1>1. /\ DOMAIN s = 1 .. n
        /\ \A k \in 1 .. n : s[k].id = NoId /\ s[k].by = w
    BY DEF Line
  <1> HIDE DEF s
  <1>2. ASSUME NEW k \in 1 .. n
        PROVE  Cardinality({j \in 1 .. k : s[j].id = NoId}) = k
    <2>1. {j \in 1 .. k : s[j].id = NoId} = 1 .. k
      BY <1>1
    <2>2. Cardinality(1 .. k) = k
      BY FS_Interval
    <2> QED BY <2>1, <2>2, Zenon
  <1>3. {k \in DOMAIN s : s[k].id = NoId} = 1 .. n
    BY <1>1
  <1>4. NewIds(s) = n
    <2>1. Cardinality(1 .. n) = n
      BY FS_Interval
    <2> QED BY <1>3, <2>1, Zenon DEF NewIds
  <1>5. Numbered(s, m) = [k \in 1 .. n |-> Line(m + k, w)]
    BY <1>1, <1>2 DEF Numbered
  <1> QED BY <1>4, <1>5 DEF s

LEMMA NumberedAppended ==
  ASSUME NEW s \in Seq(Lines), NEW w, NEW m \in Nat, \A k \in DOMAIN s : s[k].id # NoId
  PROVE  /\ Numbered(Append(s, Line(NoId, w)), m) = Append(s, Line(m + 1, w))
         /\ NewIds(Append(s, Line(NoId, w))) = 1
  <1> DEFINE t == Append(s, Line(NoId, w))
             n == Len(s) + 1
  <1>1. /\ n \in Nat /\ n \in 1 .. n /\ DOMAIN s = 1 .. n - 1 /\ DOMAIN t = 1 .. n
        /\ \A k \in 1 .. n - 1 : t[k] = s[k] /\ t[k].id # NoId
        /\ t[n] = Line(NoId, w)
    OBVIOUS
  <1>2. t[n].id = NoId /\ t[n].by = w
    BY <1>1 DEF Line
  <1> HIDE DEF t
  <1>3. {j \in 1 .. n : t[j].id = NoId} = {n}
    BY <1>1, <1>2
  <1>4. Cardinality({j \in 1 .. n : t[j].id = NoId}) = 1
    BY <1>3, FS_Singleton, Zenon
  <1>5. NewIds(t) = 1
    BY <1>1, <1>4 DEF NewIds
  <1>6. Numbered(t, m) = Append(s, Line(m + 1, w))
    <2>1. DOMAIN Numbered(t, m) = 1 .. n
      BY <1>1 DEF Numbered
    <2>2. Numbered(t, m)[n] = Line(m + 1, w)
      BY <1>1, <1>2, <1>4 DEF Numbered
    <2>3. \A k \in 1 .. n - 1 : Numbered(t, m)[k] = s[k]
      BY <1>1 DEF Numbered
    <2>4. Numbered(t, m) = [k \in 1 .. n |-> Numbered(t, m)[k]]
      BY <1>1 DEF Numbered
    <2>5. Append(s, Line(m + 1, w)) = [k \in 1 .. n |-> IF k = n THEN Line(m + 1, w) ELSE s[k]]
      OBVIOUS
    <2> QED BY <1>1, <2>2, <2>3, <2>4, <2>5
  <1> QED BY <1>5, <1>6 DEF t
---------------------------------------------------------------------------
(* What a call posts, computed from what it read *)

\* The lines of a request that names lines of its own.
PostsLines(c, lines) ==
    /\ body[c].kind = "lines" /\ body[c].doc = NoDoc /\ body[c].lines = lines

BodyComputed(c) ==
    LET old == read[c].lines
    IN  CASE Op(c) = "create"        -> body[c] = CreateBody(c)
          [] Op(c) = "append"        -> PostsLines(c, Append(old, NewLine(c)))
          [] Op(c) = "replace"       -> /\ body[c].kind = "full"
                                        /\ body[c].doc = Request[c].doc
                                        /\ body[c].lines = NewLines(c)
          [] Op(c) = "custom_fields" -> body[c].kind = "fields" /\ body[c].doc = NoDoc
          [] Op(c) = "delete"        -> body[c].kind = "delete" /\ body[c].doc = NoDoc
          [] Op(c) = "void"          -> body[c].kind = "void" /\ body[c].doc = NoDoc
          [] Op(c) = "update_line"   ->
                \E k \in DOMAIN old :
                    /\ old[k].id = Request[c].line
                    /\ PostsLines(c, [old EXCEPT ![k] = Line(Request[c].line, c)])
          [] Op(c) = "delete_line"   ->
                \E k \in DOMAIN old :
                    /\ Len(old) > 1 /\ old[k].id = Request[c].line
                    /\ PostsLines(c, Without(old, k))

\* No DocNumber stands twice.
DocsFit ==
    /\ \A i \in Ids : Standing(invoices[i]) => invoices[i].doc \in Docs
    /\ \A i, j \in Ids : i # j /\ Standing(invoices[i]) /\ Standing(invoices[j])
                           => invoices[i].doc # invoices[j].doc

LInv ==
    /\ \A i \in Ids : LinesFit(invoices[i])
    /\ \A c \in Calls : pc[c] = "post" => BodyComputed(c)
    /\ DocsFit
    /\ applied \in [Calls -> Nat]

\* A call whose invoice is as it was read is about to do what its route says.
Ready(c, i) ==
    IF Op(c) = "create" THEN invoices[i].status = "absent"
    ELSE i = Inv(c) /\ Standing(invoices[i]) /\ read[c] = invoices[i]

New(c, i) == Written(body[c], c, invoices[i])

LEMMA Constants ==
  ASSUME NEW c \in Calls
  PROVE  /\ Op(c) \in Ops /\ Request[c].count \in Nat /\ Request[c].doc \in Docs
         /\ Request[c].line \in Nat /\ NoDoc \notin Docs
  <1>1. Request[c] \in Requests
    BY RequestAssumption
  <1> QED BY <1>1, RequestAssumption DEF Requests, Op

\* What an invoice says with other lines, and with all of it new.
LEMMA LinesChanged ==
  ASSUME NEW a, NEW b, b.status = a.status, b.doc = a.doc, b.fields = a.fields
  PROVE  Content(b) = [Content(a) EXCEPT !.lines = b.lines, !.minted = b.minted]
  <1> DEFINE r == [status |-> a.status, lines |-> b.lines, doc |-> a.doc,
                   fields |-> a.fields, minted |-> a.minted]
  <1>1. r = [Content(a) EXCEPT !.lines = b.lines]
    BY DEF Content
  <1>2. Content(b) = [r EXCEPT !.minted = b.minted]
    BY DEF Content
  <1>3. [Content(a) EXCEPT !.lines = b.lines, !.minted = b.minted]
          = [[Content(a) EXCEPT !.lines = b.lines] EXCEPT !.minted = b.minted]
    OBVIOUS
  <1> QED BY <1>1, <1>2, <1>3, Zenon

LEMMA AllChanged ==
  ASSUME NEW a, NEW b, b.status = a.status
  PROVE  Content(b) = [Content(a) EXCEPT !.lines = b.lines, !.minted = b.minted,
                                         !.doc = b.doc, !.fields = b.fields]
  <1> DEFINE r == [status |-> a.status, lines |-> b.lines, doc |-> a.doc,
                   fields |-> a.fields, minted |-> b.minted]
             q == [status |-> a.status, lines |-> b.lines, doc |-> b.doc,
                   fields |-> a.fields, minted |-> b.minted]
  <1>1. r = [Content(a) EXCEPT !.lines = b.lines, !.minted = b.minted]
    <2>1. r = Content(r)
      BY DEF Content
    <2>2. Content(r) = [Content(a) EXCEPT !.lines = r.lines, !.minted = r.minted]
      BY LinesChanged
    <2>3. r.lines = b.lines /\ r.minted = b.minted
      OBVIOUS
    <2> QED BY <2>1, <2>2, <2>3, Zenon
  <1>2. q = [r EXCEPT !.doc = b.doc]
    OBVIOUS
  <1>3. Content(b) = [q EXCEPT !.fields = b.fields]
    BY DEF Content
  <1>4. [Content(a) EXCEPT !.lines = b.lines, !.minted = b.minted,
                           !.doc = b.doc, !.fields = b.fields]
          = [[[Content(a) EXCEPT !.lines = b.lines, !.minted = b.minted]
                EXCEPT !.doc = b.doc] EXCEPT !.fields = b.fields]
    OBVIOUS
  <1> QED BY <1>1, <1>2, <1>3, <1>4, Zenon

LEMMA MoreIds ==
  ASSUME NEW m \in Nat, NEW n \in Nat
  PROVE  /\ \A x \in 1 .. m : x \in 1 .. m + 1
         /\ \A k \in 1 .. n : m + k \in 1 .. m + n
  OBVIOUS

\* Lines that fit, and one more.
LEMMA AppendedFits ==
  ASSUME NEW s \in Seq(Lines), NEW t, NEW x \in Lines, NEW m \in Nat, x.id = m + 1,
         \A k \in DOMAIN s : s[k].id \in 1 .. m,
         \A j, k \in DOMAIN s : s[j].id = s[k].id => j = k, t = Append(s, x)
  PROVE  /\ t \in Seq(Lines) /\ \A k \in DOMAIN t : t[k].id \in 1 .. m + 1
         /\ \A j, k \in DOMAIN t : t[j].id = t[k].id => j = k
  <1> DEFINE n == Len(s) + 1
  <1>1. /\ n \in Nat /\ n \in 1 .. n /\ DOMAIN s = 1 .. n - 1 /\ DOMAIN t = 1 .. n
        /\ t \in Seq(Lines)
    OBVIOUS
  <1>2. t[n] = x /\ \A k \in 1 .. n - 1 : t[k] = s[k]
    OBVIOUS
  <1> HIDE DEF n
  <1>3. t[n].id = m + 1 /\ m + 1 \in 1 .. m + 1
    BY <1>2
  <1>4. \A k \in 1 .. n : k # n => k \in 1 .. n - 1
    BY <1>1
  <1>5. \A k \in 1 .. n - 1 : t[k].id \in 1 .. m
    BY <1>1, <1>2
  <1>6. ASSUME NEW j \in 1 .. n, NEW k \in 1 .. n, t[j].id = t[k].id PROVE j = k
    <2>1. CASE j = n \/ k = n
      BY <1>3, <1>4, <1>5, <1>6, <2>1
    <2>2. CASE j # n /\ k # n
      BY <1>1, <1>2, <1>4, <1>6, <2>2
    <2> QED BY <2>1, <2>2
  <1>7. ASSUME NEW k \in 1 .. n PROVE t[k].id \in 1 .. m + 1
    <2>1. CASE k = n
      BY <1>3, <2>1
    <2>2. CASE k # n
      <3>1. t[k].id \in 1 .. m
        BY <1>4, <1>5, <2>2
      <3> QED BY <3>1, MoreIds
    <2> QED BY <2>1, <2>2
  <1> QED BY <1>1, <1>6, <1>7

\* A write that names no lines leaves them alone.
LEMMA OtherEffects ==
  ASSUME NEW c \in Calls, NEW i \in Ids, LinesFit(invoices[i]), BodyComputed(c),
         Op(c) \in {"custom_fields", "delete", "void"}
  PROVE  /\ LinesFit(New(c, i)) \/ invoices[i].status = "absent"
         /\ Atomic!Effect(c, Content(invoices[i]), Content(New(c, i)))
         /\ New(c, i).lines = invoices[i].lines
  <1> DEFINE inv == invoices[i]
             new == New(c, i)
  <1>1. /\ body[c].kind = CASE Op(c) = "custom_fields" -> "fields"
                            [] Op(c) = "delete" -> "delete" [] Op(c) = "void" -> "void"
    BY DEF BodyComputed
  <1>2. /\ new.lines = inv.lines /\ new.minted = inv.minted /\ new.doc = inv.doc
        /\ new.fields = IF Op(c) = "custom_fields" THEN c ELSE inv.fields
        /\ new.status = CASE Op(c) = "custom_fields" -> inv.status
                          [] Op(c) = "delete" -> "deleted" [] Op(c) = "void" -> "void"
    BY <1>1 DEF New, Written, Renews, Replaces
  <1>3. LinesFit(new) \/ inv.status = "absent"
    BY <1>2 DEF LinesFit
  <1>4. Atomic!Effect(c, Content(inv), Content(new))
    <2>1. CASE Op(c) = "custom_fields"
      <3>1. Content(new) = [Content(inv) EXCEPT !.fields = c]
        BY <1>2, <2>1 DEF Content
      <3> QED BY <2>1, <3>1 DEF Atomic!Effect, Op
    <2>2. CASE Op(c) = "delete"
      <3>1. Content(new) = [Content(inv) EXCEPT !.status = "deleted"]
        BY <1>2, <2>2 DEF Content
      <3> QED BY <2>2, <3>1 DEF Atomic!Effect, Op
    <2>3. CASE Op(c) = "void"
      <3>1. Content(new) = [Content(inv) EXCEPT !.status = "void"]
        BY <1>2, <2>3 DEF Content
      <3> QED BY <2>3, <3>1 DEF Atomic!Effect, Op
    <2> QED BY <2>1, <2>2, <2>3
  <1> QED BY <1>2, <1>3, <1>4

\* One line more, of writer w.
LEMMA AppendedLine ==
  ASSUME NEW w \in Calls \cup {QBO}, NEW inv, NEW new, LinesFit(inv), Standing(inv),
         new.lines = Append(inv.lines, Line(inv.minted + 1, w)),
         new.minted = inv.minted + 1,
         new.doc = inv.doc, new.fields = inv.fields, new.status = inv.status
  PROVE  /\ LinesFit(new) /\ new.lines # <<>>
         /\ Atomic!Appends(w, Content(inv), Content(new))
  <1> DEFINE m == inv.minted
  <1>1. m \in Nat /\ inv.lines \in Seq(Lines)
    BY DEF LinesFit
  <1>2. LinesFit(new) /\ new.lines # <<>>
    <2>1. PICK x \in Lines : x = Line(m + 1, w) /\ x.id = m + 1
      BY <1>1 DEF Line, Lines
    <2>2. new.status # "absent" /\ new.lines = Append(inv.lines, x)
      BY <2>1 DEF Standing
    <2>3. /\ \A k \in DOMAIN inv.lines : inv.lines[k].id \in 1 .. m
          /\ \A j, k \in DOMAIN inv.lines : inv.lines[j].id = inv.lines[k].id => j = k
      BY DEF LinesFit
    <2>4. /\ new.lines \in Seq(Lines) /\ \A k \in DOMAIN new.lines : new.lines[k].id \in 1 .. m + 1
          /\ \A j, k \in DOMAIN new.lines : new.lines[j].id = new.lines[k].id => j = k
      <3> SUFFICES ASSUME NEW old, NEW t, old = inv.lines, t = new.lines
                   PROVE  /\ t \in Seq(Lines) /\ \A k \in DOMAIN t : t[k].id \in 1 .. m + 1
                          /\ \A j, k \in DOMAIN t : t[j].id = t[k].id => j = k
        OBVIOUS
      <3>1. /\ m \in Nat /\ old \in Seq(Lines) /\ t = Append(old, x) /\ x.id = m + 1
            /\ \A k \in DOMAIN old : old[k].id \in 1 .. m
            /\ \A j, k \in DOMAIN old : old[j].id = old[k].id => j = k
        BY <1>1, <2>1, <2>2, <2>3
      <3> HIDE DEF m
      <3> QED BY <3>1, AppendedFits
    <2>5. new.lines # <<>>
      BY <1>1
    <2> QED BY <1>1, <2>2, <2>4, <2>5 DEF LinesFit
  <1>3. Atomic!Appends(w, Content(inv), Content(new))
    <2>1. Atomic!Fresh(Content(inv), 1, w) = <<Line(m + 1, w)>>
      BY <1>1 DEF Atomic!Fresh, Content, Line, Atomic!Line
    <2>2. Append(inv.lines, Line(m + 1, w)) = inv.lines \o <<Line(m + 1, w)>>
      BY <1>1
    <2>3. Content(new) = [Content(inv) EXCEPT !.lines = inv.lines \o <<Line(m + 1, w)>>,
                                              !.minted = m + 1]
      <3>1. Content(new) = [Content(inv) EXCEPT !.lines = new.lines, !.minted = new.minted]
        BY LinesChanged
      <3> QED BY <2>2, <3>1, Zenon
    <2>4. Content(inv).lines = inv.lines /\ Content(inv).minted = m
      BY DEF Content
    <2> QED BY <2>1, <2>3, <2>4, Zenon DEF Atomic!Appends
  <1> QED BY <1>2, <1>3

LEMMA AppendEffect ==
  ASSUME NEW c \in Calls, NEW i \in Ids, LinesFit(invoices[i]), BodyComputed(c),
         Op(c) = "append", Ready(c, i)
  PROVE  /\ LinesFit(New(c, i))
         /\ Atomic!Effect(c, Content(invoices[i]), Content(New(c, i)))
         /\ New(c, i).lines # <<>>
  <1> DEFINE inv == invoices[i]
             new == New(c, i)
             m == inv.minted
  <1>1. /\ body[c].kind = "lines" /\ body[c].lines = Append(inv.lines, Line(NoId, c))
    BY DEF BodyComputed, PostsLines, Ready, NewLine
  <1>2. /\ m \in Nat /\ inv.lines \in Seq(Lines)
        /\ \A k \in DOMAIN inv.lines : inv.lines[k].id # NoId
    BY DEF LinesFit, NoId
  <1>3. /\ Numbered(body[c].lines, m) = Append(inv.lines, Line(m + 1, c))
        /\ NewIds(body[c].lines) = 1
    BY <1>1, <1>2, NumberedAppended
  <1>4. /\ new.lines = Append(inv.lines, Line(m + 1, c)) /\ new.minted = m + 1
        /\ new.doc = inv.doc /\ new.fields = inv.fields /\ new.status = inv.status
    BY <1>1, <1>3 DEF New, Written, Renews, Replaces
  <1>5. Standing(inv)
    BY DEF Ready
  <1> HIDE DEF new
  <1>6. /\ LinesFit(new) /\ new.lines # <<>>
        /\ Atomic!Appends(c, Content(inv), Content(new))
    BY <1>4, <1>5, AppendedLine
  <1>7. Atomic!Effect(c, Content(inv), Content(new))
    BY <1>6 DEF Atomic!Effect, Op
  <1> QED BY <1>6, <1>7 DEF new

FreshLines(m, n, w) == [k \in 1 .. n |-> Line(m + k, w)]

LEMMA FreshLinesFit ==
  ASSUME NEW n \in Nat, NEW m \in Nat, NEW w \in Calls \cup {QBO}
  PROVE  LET s == FreshLines(m, n, w)
         IN  /\ s \in Seq(Lines)
             /\ \A k \in DOMAIN s : s[k].id \in 1 .. m + n
             /\ \A j, k \in DOMAIN s : s[j].id = s[k].id => j = k
             /\ s = <<>> => n = 0
  <1> SUFFICES ASSUME NEW s, s = [k \in 1 .. n |-> Line(m + k, w)]
               PROVE  /\ s \in Seq(Lines)
                      /\ \A k \in DOMAIN s : s[k].id \in 1 .. m + n
                      /\ \A j, k \in DOMAIN s : s[j].id = s[k].id => j = k
                      /\ s = <<>> => n = 0
    BY Zenon DEF FreshLines
  <1>1. ASSUME NEW k \in 1 .. n PROVE Line(m + k, w) \in Lines /\ Line(m + k, w).id = m + k
    BY DEF Line, Lines
  <1>2. \A k \in 1 .. n : s[k].id = m + k
    BY <1>1
  <1>3. s \in Seq(Lines) /\ DOMAIN s = 1 .. n
    <2>1. s \in [1 .. n -> Lines]
      BY <1>1
    <2> QED BY <2>1
  <1>4. s = <<>> => n = 0
    <2>1. s = <<>> => DOMAIN s = {}
      OBVIOUS
    <2> QED BY <1>3, <2>1
  <1>5. \A k \in 1 .. n : s[k].id \in 1 .. m + n
    BY <1>2, MoreIds
  <1>6. ASSUME NEW j \in 1 .. n, NEW k \in 1 .. n, s[j].id = s[k].id PROVE j = k
    <2>1. m + j = m + k
      BY <1>2, <1>6
    <2> QED BY <2>1
  <1> QED BY <1>3, <1>4, <1>5, <1>6, Zenon

LEMMA ReplaceEffect ==
  ASSUME NEW c \in Calls, NEW i \in Ids, LinesFit(invoices[i]), BodyComputed(c),
         Op(c) \in {"replace", "create"}, Ready(c, i)
  PROVE  /\ LinesFit(New(c, i))
         /\ Atomic!Effect(c, Content(invoices[i]), Content(New(c, i)))
         /\ New(c, i).lines = <<>> => Request[c].count = 0
  <1> DEFINE inv == invoices[i]
             new == New(c, i)
             m == inv.minted
             n == Request[c].count
             s == FreshLines(m, n, c)
  <1>1. /\ body[c].kind = IF Op(c) = "create" THEN "create" ELSE "full"
        /\ body[c].doc = Request[c].doc
        /\ body[c].lines = [k \in 1 .. n |-> Line(NoId, c)]
    <2>1. CASE Op(c) = "create"
      <3>1. body[c] = CreateBody(c)
        BY <2>1 DEF BodyComputed
      <3> QED BY <2>1, <3>1 DEF CreateBody, NewLines, NewLine
    <2>2. CASE Op(c) = "replace"
      <3>1. /\ body[c].kind = "full" /\ body[c].doc = Request[c].doc
            /\ body[c].lines = NewLines(c)
        BY <2>2 DEF BodyComputed
      <3> QED BY <2>2, <3>1 DEF NewLines, NewLine
    <2> QED BY <2>1, <2>2
  <1>2. m \in Nat /\ n \in Nat
    BY Constants DEF LinesFit
  <1>3. Numbered(body[c].lines, m) = s /\ NewIds(body[c].lines) = n
    <2> DEFINE t == [k \in 1 .. n |-> Line(NoId, c)]
    <2>1. Numbered(t, m) = s /\ NewIds(t) = n
      BY <1>2, NumberedFresh DEF FreshLines
    <2>2. body[c].lines = t
      BY <1>1
    <2> HIDE DEF t, s
    <2> QED BY <2>1, <2>2
  <1>4. /\ new.lines = s /\ new.minted = m + n /\ new.doc = Request[c].doc /\ new.fields = c
        /\ new.status = IF Op(c) = "create" THEN "open" ELSE inv.status
    BY <1>1, <1>3 DEF New, Written, Renews, Replaces
  <1>5. /\ s \in Seq(Lines)
        /\ \A k \in DOMAIN s : s[k].id \in 1 .. m + n
        /\ \A j, k \in DOMAIN s : s[j].id = s[k].id => j = k
        /\ s = <<>> => n = 0
    BY <1>2, FreshLinesFit
  <1>6. Atomic!Fresh(Content(inv), n, c) = s
    BY DEF Atomic!Fresh, FreshLines, Content, Line, Atomic!Line
  <1> HIDE DEF s
  <1>7. LinesFit(new)
    <2>1. new.status # "absent"
      BY <1>4 DEF Ready, Standing
    <2> QED BY <1>2, <1>4, <1>5, <2>1 DEF LinesFit
  <1>8. Atomic!Effect(c, Content(inv), Content(new))
    <2>1. CASE Op(c) = "replace"
      <3>1. Content(new) = [Content(inv) EXCEPT
                !.lines = s, !.minted = m + n, !.doc = Request[c].doc, !.fields = c]
        <4>1. new.status = inv.status
          BY <1>4, <2>1
        <4>2. Content(new) = [Content(inv) EXCEPT !.lines = new.lines, !.minted = new.minted,
                                                  !.doc = new.doc, !.fields = new.fields]
          BY <4>1, AllChanged
        <4> QED BY <1>4, <4>2, Zenon
      <3>2. Content(inv).minted = m
        BY DEF Content
      <3>3. Atomic!Replaces(c, Content(inv), Content(new))
        BY <1>6, <3>1, <3>2, Zenon DEF Atomic!Replaces
      <3> QED BY <2>1, <3>3 DEF Atomic!Effect, Op
    <2>2. CASE Op(c) = "create"
      BY <1>4, <1>6, <2>2 DEF Atomic!Effect, Atomic!Creates, Content, Op, Ready
    <2> QED BY <2>1, <2>2
  <1> QED BY <1>4, <1>5, <1>7, <1>8

LEMMA UpdateLineEffect ==
  ASSUME NEW c \in Calls, NEW i \in Ids, LinesFit(invoices[i]), BodyComputed(c),
         Op(c) = "update_line", Ready(c, i)
  PROVE  /\ LinesFit(New(c, i))
         /\ Atomic!Effect(c, Content(invoices[i]), Content(New(c, i)))
         /\ New(c, i).lines # <<>>
  <1> DEFINE inv == invoices[i]
             new == New(c, i)
             id == Request[c].line
  <1>1. PICK k \in DOMAIN inv.lines :
          /\ inv.lines[k].id = id
          /\ body[c].kind = "lines" /\ body[c].lines = [inv.lines EXCEPT ![k] = Line(id, c)]
    BY DEF BodyComputed, PostsLines, Ready
  <1> DEFINE s == [inv.lines EXCEPT ![k] = Line(id, c)]
  <1>2. /\ inv.minted \in Nat /\ inv.lines \in Seq(Lines)
        /\ \A j \in DOMAIN inv.lines : inv.lines[j].id \in 1 .. inv.minted
        /\ \A j \in DOMAIN inv.lines : inv.lines[j].id = id => j = k
    BY <1>1 DEF LinesFit
  <1>3. /\ Line(id, c).id = id /\ Line(id, c) \in Lines /\ id # NoId
    BY <1>1, <1>2, Constants DEF Line, Lines, NoId
  <1>4. /\ s \in Seq(Lines) /\ DOMAIN s = DOMAIN inv.lines
        /\ s = [j \in DOMAIN s |-> s[j]]
    BY <1>2, <1>3
  <1>5. s[k] = Line(id, c) /\ \A j \in DOMAIN inv.lines : j # k => s[j] = inv.lines[j]
    BY <1>2
  <1> HIDE DEF s
  <1>6. \A j \in DOMAIN s : s[j].id = inv.lines[j].id
    BY <1>1, <1>3, <1>4, <1>5
  <1>7. Numbered(s, inv.minted) = s /\ NewIds(s) = 0
    <2>1. \A j \in DOMAIN s : s[j].id # NoId
      BY <1>2, <1>4, <1>6 DEF NoId
    <2> QED BY <1>4, <2>1, NumberedKept
  <1>8. /\ new.lines = s /\ new.minted = inv.minted
        /\ new.doc = inv.doc /\ new.fields = inv.fields /\ new.status = inv.status
    BY <1>1, <1>2, <1>7 DEF New, Written, Renews, Replaces, s
  <1>9. LinesFit(new)
    <2>1. inv.status # "absent"
      BY DEF Ready, Standing
    <2>2. \A j, l \in DOMAIN inv.lines : inv.lines[j].id = inv.lines[l].id => j = l
      BY DEF LinesFit
    <2> QED BY <1>2, <1>4, <1>6, <1>8, <2>1, <2>2 DEF LinesFit
  <1>10. Atomic!Effect(c, Content(inv), Content(new))
    <2> DEFINE t == Content(inv).lines
               u == [j \in DOMAIN t |-> IF t[j].id = id THEN Atomic!Line(id, c) ELSE t[j]]
    <2>1. t = inv.lines /\ \E j \in DOMAIN t : t[j].id = id
      BY <1>1 DEF Content
    <2>2. Atomic!Line(id, c) = Line(id, c)
      BY DEF Line, Atomic!Line
    <2>3. \A j \in DOMAIN t : s[j] = IF t[j].id = id THEN Atomic!Line(id, c) ELSE t[j]
      BY <1>1, <1>2, <1>5, <2>1, <2>2
    <2>4. s = u
      BY <1>4, <2>1, <2>3
    <2>5. Content(new) = [Content(inv) EXCEPT !.lines = s]
      BY <1>8 DEF Content
    <2>6. Atomic!UpdatesLine(c, Content(inv), Content(new))
      BY <2>1, <2>4, <2>5, Zenon DEF Atomic!UpdatesLine
    <2> QED BY <2>6 DEF Atomic!Effect, Op
  <1>11. new.lines # <<>>
    BY <1>1, <1>4, <1>8
  <1> QED BY <1>9, <1>10, <1>11

\* The lines without the k-th: what is left fits, and nothing of it is new.
LEMMA WithoutFits ==
  ASSUME NEW inv, LinesFit(inv), NEW k \in DOMAIN inv.lines
  PROVE  LET s == Without(inv.lines, k)
         IN  /\ s \in Seq(Lines) /\ Len(s) = Len(inv.lines) - 1
             /\ \A j \in DOMAIN s : s[j].id \in 1 .. inv.minted
             /\ \A j, l \in DOMAIN s : s[j].id = s[l].id => j = l
             /\ Numbered(s, inv.minted) = s /\ NewIds(s) = 0
  <1> DEFINE t == inv.lines
             N == Len(t)
             s == Without(t, k)
  <1>1. /\ N \in Nat /\ k \in 1 .. N /\ DOMAIN t = 1 .. N /\ t \in Seq(Lines)
        /\ \A j \in 1 .. N : t[j] \in Lines /\ t[j].id \in 1 .. inv.minted
        /\ \A j, l \in 1 .. N : t[j].id = t[l].id => j = l
        /\ inv.minted \in Nat
    BY DEF LinesFit
  <1> HIDE DEF t, N
  <1>2. s = [n \in 1 .. N - 1 |-> IF n < k THEN t[n] ELSE t[n + 1]]
    BY <1>1, PickedButOne DEF Without
  <1> HIDE DEF s
  <1>3. DOMAIN s = 1 .. N - 1 /\ N - 1 \in Nat
    BY <1>1, <1>2
  <1>4. \A j \in 1 .. N - 1 : s[j] \in Lines /\ s[j].id \in 1 .. inv.minted
    BY <1>1, <1>2
  <1>5. s \in Seq(Lines) /\ Len(s) = N - 1
    BY <1>2, <1>3, <1>4
  <1>6. ASSUME NEW j \in 1 .. N - 1, NEW l \in 1 .. N - 1, s[j].id = s[l].id PROVE j = l
    <2> DEFINE J == IF j < k THEN j ELSE j + 1
               L == IF l < k THEN l ELSE l + 1
    <2>1. J \in 1 .. N /\ L \in 1 .. N /\ s[j] = t[J] /\ s[l] = t[L]
      BY <1>1, <1>2
    <2>2. J = L
      BY <1>1, <1>6, <2>1
    <2> QED BY <1>1, <2>2
  <1>7. Numbered(s, inv.minted) = s /\ NewIds(s) = 0
    <2>1. \A j \in DOMAIN s : s[j].id # NoId
      BY <1>3, <1>4 DEF NoId
    <2>2. s = [j \in DOMAIN s |-> s[j]]
      BY <1>2
    <2> QED BY <2>1, <2>2, NumberedKept
  <1> QED BY <1>3, <1>4, <1>5, <1>6, <1>7 DEF s, N, t

LEMMA SamePicks == \A t, S : Atomic!Picked(t, S) = Picked(t, S)
  <1>1. \A S, n : Atomic!Nth(S, n) = Nth(S, n)
    BY Zenon DEF Atomic!Nth, Nth, Cardinality, Atomic!Cardinality
  <1>2. ASSUME NEW t, NEW S PROVE Atomic!Picked(t, S) = Picked(t, S)
    BY <1>1, Zenon DEF Atomic!Picked, Picked, Cardinality, Atomic!Cardinality
  <1> QED BY <1>2

LEMMA DeleteLineEffect ==
  ASSUME NEW c \in Calls, NEW i \in Ids, LinesFit(invoices[i]), BodyComputed(c),
         Op(c) = "delete_line", Ready(c, i)
  PROVE  /\ LinesFit(New(c, i))
         /\ Atomic!Effect(c, Content(invoices[i]), Content(New(c, i)))
         /\ New(c, i).lines # <<>>
  <1> DEFINE inv == invoices[i]
             new == New(c, i)
             id == Request[c].line
  <1>1. PICK k \in DOMAIN inv.lines :
          /\ Len(inv.lines) > 1 /\ inv.lines[k].id = id
          /\ body[c].kind = "lines" /\ body[c].lines = Without(inv.lines, k)
    BY DEF BodyComputed, PostsLines, Ready
  <1> DEFINE s == Without(inv.lines, k)
  <1>2. /\ s \in Seq(Lines) /\ Len(s) = Len(inv.lines) - 1
        /\ \A j \in DOMAIN s : s[j].id \in 1 .. inv.minted
        /\ \A j, l \in DOMAIN s : s[j].id = s[l].id => j = l
        /\ Numbered(s, inv.minted) = s /\ NewIds(s) = 0
    BY WithoutFits
  <1> HIDE DEF s
  <1>3. inv.minted \in Nat /\ inv.lines \in Seq(Lines)
        /\ \A j \in DOMAIN inv.lines : inv.lines[j].id = id => j = k
    BY <1>1 DEF LinesFit
  <1>4. /\ new.lines = s /\ new.minted = inv.minted
        /\ new.doc = inv.doc /\ new.fields = inv.fields /\ new.status = inv.status
    BY <1>1, <1>2, <1>3 DEF New, Written, Renews, Replaces, s
  <1>5. LinesFit(new)
    <2>1. inv.status # "absent"
      BY DEF Ready, Standing
    <2> QED BY <1>2, <1>3, <1>4, <2>1 DEF LinesFit
  <1>6. Atomic!Effect(c, Content(inv), Content(new))
    <2> DEFINE t == Content(inv).lines
               K == {j \in DOMAIN t : t[j].id # id}
    <2>1. t = inv.lines /\ Len(t) > 1 /\ \E j \in DOMAIN t : t[j].id = id
      BY <1>1 DEF Content
    <2>2. K = DOMAIN inv.lines \ {k}
      BY <1>1, <1>3, <2>1
    <2>3. Atomic!Picked(t, K) = s
      <3>1. s = Picked(t, K)
        BY <2>1, <2>2, Zenon DEF s, Without
      <3> QED BY <3>1, SamePicks
    <2> HIDE DEF K
    <2>4. Content(new) = [Content(inv) EXCEPT !.lines = s]
      BY <1>4 DEF Content
    <2>5. Content(new) = [Content(inv) EXCEPT !.lines = Atomic!Picked(@, K)]
      BY <2>3, <2>4, Zenon
    <2>6. Atomic!DeletesLine(c, Content(inv), Content(new))
      BY <2>1, <2>5, Zenon DEF Atomic!DeletesLine, K
    <2> QED BY <2>6 DEF Atomic!Effect, Op
  <1> QED BY <1>1, <1>2, <1>4, <1>5, <1>6

\* In one: what QBO applies when the invoice is as it was read.
LEMMA WriteHasEffect ==
  ASSUME NEW c \in Calls, NEW i \in Ids, LinesFit(invoices[i]), BodyComputed(c),
         Ready(c, i)
  PROVE  /\ LinesFit(New(c, i))
         /\ Atomic!Effect(c, Content(invoices[i]), Content(New(c, i)))
         /\ invoices[i].lines # <<>> /\ New(c, i).lines = <<>>
              => Op(c) = "replace" /\ Request[c].count = 0
  <1>1. Op(c) \in Ops
    BY Constants
  <1>2. CASE Op(c) \in {"custom_fields", "delete", "void"}
    <2>1. invoices[i].status # "absent"
      BY <1>2 DEF Ready, Standing
    <2> QED BY <1>2, <2>1, OtherEffects
  <1>3. CASE Op(c) = "append"
    BY <1>3, AppendEffect
  <1>4. CASE Op(c) = "replace"
    BY <1>4, ReplaceEffect
  <1>5. CASE Op(c) = "create"
    <2>1. invoices[i].lines = <<>>
      BY <1>5 DEF Ready, LinesFit
    <2> QED BY <1>5, <2>1, ReplaceEffect
  <1>6. CASE Op(c) = "update_line"
    BY <1>6, UpdateLineEffect
  <1>7. CASE Op(c) = "delete_line"
    BY <1>7, DeleteLineEffect
  <1> QED BY <1>1, <1>2, <1>3, <1>4, <1>5, <1>6, <1>7 DEF Ops, LineOps
---------------------------------------------------------------------------
(* The lines, the bodies and the DocNumbers fit in every state *)

LEMMA BodyKept ==
  ASSUME NEW d \in Calls, BodyComputed(d), body'[d] = body[d], read'[d] = read[d]
  PROVE  BodyComputed(d)'
  BY DEF BodyComputed, PostsLines, CreateBody, Op

LEMMA QuietKeepsLines ==
  ASSUME LInv, UNCHANGED <<invoices, applied>>,
         \A d \in Calls : pc'[d] = "post" =>
            \/ pc[d] = "post" /\ body'[d] = body[d] /\ read'[d] = read[d]
            \/ BodyComputed(d)'
  PROVE  LInv'
  <1>1. (\A i \in Ids : LinesFit(invoices[i]))' /\ DocsFit' /\ applied' \in [Calls -> Nat]
    BY DEF LInv, DocsFit
  <1>2. ASSUME NEW d \in Calls, pc'[d] = "post" PROVE BodyComputed(d)'
    BY <1>2, BodyKept DEF LInv
  <1> QED BY <1>1, <1>2 DEF LInv

LEMMA FinishKeepsLines ==
  ASSUME IInv, LInv, NEW c \in Calls, NEW r, Finish(c, r), UNCHANGED <<invoices, applied>>
  PROVE  LInv'
  <1>1. ASSUME NEW d \in Calls, pc'[d] = "post"
        PROVE  pc[d] = "post" /\ body'[d] = body[d] /\ read'[d] = read[d]
    BY <1>1 DEF Finish, IInv, Shape
  <1> QED BY <1>1, QuietKeepsLines

LEMMA PrepareKeepsLines ==
  ASSUME IInv, LInv, NEW c \in Calls, NEW kind, NEW lines, Loaded(c),
         Prepare(c, kind, lines), BodyComputed(c)'
  PROVE  LInv'
  <1>1. ASSUME NEW d \in Calls, pc'[d] = "post", d # c
        PROVE  pc[d] = "post" /\ body'[d] = body[d] /\ read'[d] = read[d]
    BY <1>1 DEF Prepare, IInv, Shape
  <1> QED BY <1>1, QuietKeepsLines DEF Prepare

\* What Prepare leaves for the POST.
LEMMA Prepared ==
  ASSUME IInv, LInv, NEW c \in Calls, NEW kind, NEW lines, Loaded(c),
         Prepare(c, kind, lines)
  PROVE  /\ Inv(c) \in Ids /\ LinesFit(invoices[Inv(c)])
         /\ read'[c] = invoices[Inv(c)]
         /\ body'[c].kind = kind /\ body'[c].lines = lines
         /\ body'[c].doc = IF kind = "full" THEN Request[c].doc ELSE NoDoc
  <1>1. Inv(c) \in Ids
    BY RequestAssumption DEF Loaded, WellFormedIds, Requests, Inv
  <1> QED BY <1>1 DEF LInv, Prepare, IInv, Shape

\* The line a line operation names is the one with its id.
LEMMA FoundLine ==
  ASSUME NEW inv, LinesFit(inv), NEW n, IndexesOf(inv.lines, n) # {}
  PROVE  /\ FindLine(inv.lines, n) \in DOMAIN inv.lines
         /\ inv.lines[FindLine(inv.lines, n)].id = n
  <1>1. PICK k \in IndexesOf(inv.lines, n) : TRUE
    OBVIOUS
  <1>2. k \in Nat /\ \A j \in IndexesOf(inv.lines, n) : j = k
    <2>1. \A j, l \in DOMAIN inv.lines : inv.lines[j].id = inv.lines[l].id => j = l
      BY DEF LinesFit
    <2>2. DOMAIN inv.lines \subseteq Nat
      BY DEF LinesFit
    <2> QED BY <1>1, <2>1, <2>2 DEF IndexesOf
  <1>3. \A j \in IndexesOf(inv.lines, n) : k <= j
    BY <1>2
  <1>4. FindLine(inv.lines, n) \in IndexesOf(inv.lines, n)
    BY <1>1, <1>3 DEF FindLine
  <1> QED BY <1>4 DEF IndexesOf

LEMMA ReadStepKeepsLines ==
  ASSUME IInv, LInv, NEW c \in Calls, ReadStep(c)
  PROVE  LInv'
  <1>0. ASSUME Loaded(c) PROVE ExistingLines(c) = invoices[Inv(c)].lines
    <2>1. Inv(c) \in Ids
      BY <1>0, RequestAssumption DEF Loaded, WellFormedIds, Requests, Inv
    <2> QED BY <2>1, ExistingLinesAreLines DEF LInv
  <1>1. CASE RejectIds(c) \/ LoadNotFound(c) \/ LoadFails(c)
    BY <1>1, FinishKeepsLines DEF RejectIds, LoadNotFound, LoadFails
  <1>2. CASE LineNotFound(c) \/ CannotDeleteLastLine(c)
    BY <1>2, FinishKeepsLines DEF LineNotFound, CannotDeleteLastLine
  <1>3. CASE AppendLine(c)
    <2>1. PICK lines : /\ lines = Append(invoices[Inv(c)].lines, NewLine(c))
                       /\ Loaded(c) /\ Op(c) = "append" /\ Prepare(c, "lines", lines)
      BY <1>0, <1>3 DEF AppendLine
    <2>2. Loaded(c) /\ Prepare(c, "lines", lines)
      BY <2>1
    <2>3. BodyComputed(c)'
      <3>1. PostsLines(c, Append(read[c].lines, NewLine(c)))'
        <4>1. /\ read'[c] = invoices[Inv(c)]
              /\ body'[c].kind = "lines" /\ body'[c].doc = NoDoc
              /\ body'[c].lines = lines
          BY <2>2, Prepared
        <4>2. NewLine(c)' = NewLine(c)
          BY DEF NewLine, Line
        <4> QED BY <2>1, <4>1, <4>2, Zenon DEF PostsLines
      <3> QED BY <2>1, <3>1 DEF BodyComputed, Op
    <2> QED BY <2>2, <2>3, PrepareKeepsLines
  <1>4. CASE Replace(c)
    <2>1. /\ Loaded(c) /\ Op(c) = "replace" /\ Prepare(c, "full", NewLines(c))
      BY <1>4 DEF Replace
    <2>2. /\ body'[c].kind = "full" /\ body'[c].doc = Request[c].doc
          /\ body'[c].lines = NewLines(c)
      BY <2>1, Prepared
    <2>3. BodyComputed(c)'
      BY <2>1, <2>2 DEF BodyComputed, Op
    <2> QED BY <2>1, <2>3, PrepareKeepsLines
  <1>5. CASE UpdateCustomFields(c)
    <2>1. /\ Loaded(c) /\ Op(c) = "custom_fields" /\ Prepare(c, "fields", <<>>)
      BY <1>5 DEF UpdateCustomFields
    <2>2. body'[c].kind = "fields" /\ body'[c].doc = NoDoc
      BY <2>1, Prepared
    <2>3. BodyComputed(c)'
      BY <2>1, <2>2 DEF BodyComputed, Op
    <2> QED BY <2>1, <2>3, PrepareKeepsLines
  <1>6. CASE Delete(c)
    <2>1. /\ Loaded(c) /\ Op(c) = "delete" /\ Prepare(c, "delete", <<>>)
      BY <1>6 DEF Delete
    <2>2. body'[c].kind = "delete" /\ body'[c].doc = NoDoc
      BY <2>1, Prepared
    <2>3. BodyComputed(c)'
      BY <2>1, <2>2 DEF BodyComputed, Op
    <2> QED BY <2>1, <2>3, PrepareKeepsLines
  <1>7. CASE Void(c)
    <2>1. /\ Loaded(c) /\ Op(c) = "void" /\ Prepare(c, "void", <<>>)
      BY <1>7 DEF Void
    <2>2. body'[c].kind = "void" /\ body'[c].doc = NoDoc
      BY <2>1, Prepared
    <2>3. BodyComputed(c)'
      BY <2>1, <2>2 DEF BodyComputed, Op
    <2> QED BY <2>1, <2>3, PrepareKeepsLines
  <1>8. CASE UpdateLine(c)
    <2> DEFINE old == invoices[Inv(c)].lines
               k == FindLine(old, Request[c].line)
    <2>1. /\ Loaded(c) /\ Op(c) = "update_line" /\ IndexesOf(old, Request[c].line) # {}
          /\ Prepare(c, "lines", [old EXCEPT ![k] = Line(Request[c].line, c)])
      BY <1>0, <1>8 DEF UpdateLine
    <2>2. /\ LinesFit(invoices[Inv(c)]) /\ read'[c].lines = old
          /\ body'[c].kind = "lines" /\ body'[c].doc = NoDoc
          /\ body'[c].lines = [old EXCEPT ![k] = Line(Request[c].line, c)]
      BY <2>1, Prepared
    <2>3. k \in DOMAIN old /\ old[k].id = Request[c].line
      BY <2>1, <2>2, FoundLine
    <2>4. \E j \in DOMAIN read'[c].lines :
              /\ read'[c].lines[j].id = Request[c].line
              /\ body'[c].kind = "lines" /\ body'[c].doc = NoDoc
              /\ body'[c].lines = [read'[c].lines EXCEPT ![j] = Line(Request[c].line, c)]
      BY <2>2, <2>3, Zenon
    <2>5. BodyComputed(c)'
      BY <2>1, <2>4 DEF BodyComputed, PostsLines, Op
    <2> QED BY <2>1, <2>5, PrepareKeepsLines
  <1>9. CASE DeleteLine(c)
    <2> DEFINE old == invoices[Inv(c)].lines
               k == FindLine(old, Request[c].line)
    <2>1. /\ Loaded(c) /\ Op(c) = "delete_line" /\ IndexesOf(old, Request[c].line) # {}
          /\ Len(old) > 1 /\ Prepare(c, "lines", Without(old, k))
      BY <1>0, <1>9 DEF DeleteLine
    <2>2. /\ LinesFit(invoices[Inv(c)]) /\ read'[c].lines = old
          /\ body'[c].kind = "lines" /\ body'[c].doc = NoDoc
          /\ body'[c].lines = Without(old, k)
      BY <2>1, Prepared
    <2>3. k \in DOMAIN old /\ old[k].id = Request[c].line
      BY <2>1, <2>2, FoundLine
    <2>4. \E j \in DOMAIN read'[c].lines :
              /\ Len(read'[c].lines) > 1 /\ read'[c].lines[j].id = Request[c].line
              /\ body'[c].kind = "lines" /\ body'[c].doc = NoDoc
              /\ body'[c].lines = Without(read'[c].lines, j)
      BY <2>1, <2>2, <2>3, Zenon
    <2>5. BodyComputed(c)'
      BY <2>1, <2>4 DEF BodyComputed, PostsLines, Op
    <2> QED BY <2>1, <2>5, PrepareKeepsLines
  <1> QED BY <1>1, <1>2, <1>3, <1>4, <1>5, <1>6, <1>7, <1>8, <1>9 DEF ReadStep

\* What QBO accepts is what its caller read and computed.
LEMMA AcceptedIsReady ==
  ASSUME IInv, LInv, NEW c \in Calls, Accept(c)
  PROVE  /\ BodyComputed(c) /\ applied'[c] = applied[c] + 1 /\ applied[c] \in Nat
         /\ \E i \in Ids : /\ Ready(c, i)
                           /\ invoices' = [invoices EXCEPT ![i] = New(c, i)]
                           /\ \A j \in Ids \ {i} : body[c].doc # NoDoc /\ Standing(invoices[j])
                                                     => invoices[j].doc # body[c].doc
  <1>1. BodyComputed(c) /\ BodyFitsRead(c) /\ TokenIdentifies(c)
        /\ applied'[c] = applied[c] + 1 /\ applied[c] \in Nat
    BY DEF Accept, IInv, LInv
  <1>2. CASE AcceptCreate(c)
    <2>1. Op(c) = "create" /\ Malformed \notin Ids
      BY <1>1, <1>2, RequestAssumption DEF AcceptCreate, BodyFitsRead
    <2>2. PICK i \in Ids : /\ invoices[i].status = "absent"
                           /\ invoices' = [invoices EXCEPT ![i] = New(c, i)]
      BY <1>2 DEF AcceptCreate, New
    <2>3. \A j \in Ids : body[c].doc # NoDoc /\ Standing(invoices[j])
                           => invoices[j].doc # body[c].doc
      BY <1>2, <2>1 DEF AcceptCreate, DocTaken
    <2> QED BY <1>1, <2>1, <2>2, <2>3 DEF Ready
  <1>3. CASE AcceptUpdate(c)
    <2>1. Op(c) # "create" /\ Inv(c) \in Ids
      BY <1>1, <1>3 DEF AcceptUpdate, BodyFitsRead
    <2>2. /\ Standing(invoices[Inv(c)]) /\ read[c] = invoices[Inv(c)]
          /\ invoices' = [invoices EXCEPT ![Inv(c)] = New(c, Inv(c))]
      BY <1>1, <1>3, <2>1 DEF AcceptUpdate, New, BodyFitsRead, TokenIdentifies
    <2>3. \A j \in Ids \ {Inv(c)} : body[c].doc # NoDoc /\ Standing(invoices[j])
                                      => invoices[j].doc # body[c].doc
      BY <1>3 DEF AcceptUpdate, DocTaken
    <2> QED BY <1>1, <2>1, <2>2, <2>3 DEF Ready
  <1> QED BY <1>2, <1>3 DEF Accept

\* The DocNumber and the standing of an invoice that is written to.
LEMMA WrittenDoc ==
  ASSUME NEW c \in Calls, NEW i \in Ids, BodyComputed(c), Ready(c, i)
  PROVE  \/ New(c, i).doc = body[c].doc /\ body[c].doc \in Docs /\ body[c].doc # NoDoc
         \/ New(c, i).doc = invoices[i].doc /\ Standing(invoices[i])
  <1>1. CASE Op(c) = "create"
    <2>1. body[c] = CreateBody(c)
      BY <1>1 DEF BodyComputed
    <2>2. body[c].kind = "create" /\ body[c].doc = Request[c].doc
      BY <2>1 DEF CreateBody
    <2> QED BY <2>2, Constants DEF New, Written, Replaces
  <1>2. CASE Op(c) = "replace"
    <2>1. body[c].kind = "full" /\ body[c].doc = Request[c].doc
      BY <1>2 DEF BodyComputed
    <2> QED BY <2>1, Constants DEF New, Written, Replaces
  <1>3. CASE Op(c) \notin {"create", "replace"}
    <2>1. Op(c) \in Ops /\ Standing(invoices[i])
      BY <1>3, Constants DEF Ready
    <2>2. body[c].kind \in {"lines", "fields", "delete", "void"}
      BY <1>3, <2>1 DEF BodyComputed, PostsLines, Ops, LineOps
    <2> QED BY <2>1, <2>2 DEF New, Written, Replaces
  <1> QED BY <1>1, <1>2, <1>3

LEMMA AcceptKeepsLines ==
  ASSUME IInv, LInv, NEW c \in Calls, NEW r, Accept(c), Finish(c, r)
  PROVE  LInv'
  <1>1. /\ BodyComputed(c) /\ applied'[c] = applied[c] + 1 /\ applied[c] \in Nat
    BY AcceptedIsReady
  <1>2. PICK i \in Ids : /\ Ready(c, i)
                         /\ invoices' = [invoices EXCEPT ![i] = New(c, i)]
                         /\ \A j \in Ids \ {i} : body[c].doc # NoDoc /\ Standing(invoices[j])
                                                   => invoices[j].doc # body[c].doc
    BY AcceptedIsReady
  <1>3. /\ invoices'[i] = New(c, i) /\ \A j \in Ids : j # i => invoices'[j] = invoices[j]
    BY <1>2 DEF IInv, Shape
  <1>4. \A j \in Ids : LinesFit(invoices'[j])
    BY <1>1, <1>2, <1>3, WriteHasEffect DEF LInv
  <1>5. DocsFit'
    <2>1. \/ New(c, i).doc = body[c].doc /\ body[c].doc \in Docs /\ body[c].doc # NoDoc
          \/ New(c, i).doc = invoices[i].doc /\ Standing(invoices[i])
      BY <1>1, <1>2, WrittenDoc
    <2>2. \A j \in Ids : j # i /\ Standing(invoices[j]) => invoices[j].doc # New(c, i).doc
      BY <1>2, <2>1 DEF LInv, DocsFit
    <2>3. New(c, i).doc \in Docs
      BY <2>1 DEF LInv, DocsFit
    <2> QED BY <1>3, <2>2, <2>3 DEF LInv, DocsFit, Standing
  <1>6. ASSUME NEW d \in Calls, pc'[d] = "post" PROVE BodyComputed(d)'
    <2>1. pc[d] = "post" /\ body'[d] = body[d] /\ read'[d] = read[d]
      BY <1>6 DEF Finish, IInv, Shape
    <2> QED BY <2>1, BodyKept DEF LInv
  <1>7. applied' \in [Calls -> Nat]
    BY <1>1 DEF Accept, LInv
  <1> QED BY <1>4, <1>5, <1>6, <1>7 DEF LInv
---------------------------------------------------------------------------
(* What people do in QuickBooks, and the steps *)

\* Someone adds a line or takes one away.
LEMMA EditHasEffect ==
  ASSUME LInv, NEW i \in Ids, EditOutside(i)
  PROVE  \E new : /\ invoices' = [invoices EXCEPT ![i] = new]
                  /\ LinesFit(new) /\ new.lines # <<>>
                  /\ new.doc = invoices[i].doc /\ new.status = invoices[i].status
                  /\ \/ Atomic!Appends(QBO, Content(invoices[i]), Content(new))
                     \/ \E k \in DOMAIN invoices[i].lines :
                          Content(new) = [Content(invoices[i]) EXCEPT !.lines =
                                            Without(invoices[i].lines, k)]
  <1> DEFINE inv == invoices[i]
             m == inv.minted
  <1>1. PICK lines :
          /\ \/ lines = Append(inv.lines, SubTotal)
             \/ \E k \in DOMAIN inv.lines : lines = Without(inv.lines, k)
          /\ lines # <<>>
          /\ invoices' = [invoices EXCEPT ![i] =
                            Written([kind |-> "lines", lines |-> lines], QBO, inv)]
    BY DEF EditOutside
  <1> DEFINE new == Written([kind |-> "lines", lines |-> lines], QBO, inv)
  <1>2. /\ inv.status = "open" /\ m \in Nat /\ inv.lines \in Seq(Lines) /\ LinesFit(inv)
        /\ \A k \in DOMAIN inv.lines : inv.lines[k].id \in 1 .. m
        /\ \A j, k \in DOMAIN inv.lines : inv.lines[j].id = inv.lines[k].id => j = k
    BY DEF EditOutside, LInv, LinesFit
  <1>3. /\ new.lines = Numbered(lines, m) /\ new.minted = m + NewIds(lines)
        /\ new.doc = inv.doc /\ new.status = inv.status /\ new.fields = inv.fields
    BY DEF Written, Renews, Replaces
  <1>4. CASE lines = Append(inv.lines, SubTotal)
    <2>1. Numbered(lines, m) = Append(inv.lines, Line(m + 1, QBO)) /\ NewIds(lines) = 1
      <3>1. \A k \in DOMAIN inv.lines : inv.lines[k].id # NoId
        BY <1>2 DEF NoId
      <3>2. /\ Numbered(Append(inv.lines, Line(NoId, QBO)), m) = Append(inv.lines, Line(m + 1, QBO))
            /\ NewIds(Append(inv.lines, Line(NoId, QBO))) = 1
        BY <1>2, <3>1, NumberedAppended
      <3>3. lines = Append(inv.lines, Line(NoId, QBO))
        BY <1>4 DEF SubTotal
      <3> QED BY <3>2, <3>3, Zenon
    <2> HIDE DEF new
    <2>2. new.lines = Append(inv.lines, Line(m + 1, QBO)) /\ new.minted = m + 1
      BY <1>3, <2>1
    <2>3. /\ LinesFit(new) /\ new.lines # <<>>
          /\ Atomic!Appends(QBO, Content(inv), Content(new))
      <3>1. Standing(inv)
        BY <1>2 DEF Standing
      <3> QED BY <1>2, <1>3, <2>2, <3>1, AppendedLine
    <2>4. invoices' = [invoices EXCEPT ![i] = new]
      BY <1>1 DEF new
    <2> QED BY <1>3, <2>3, <2>4
  <1>5. CASE \E k \in DOMAIN inv.lines : lines = Without(inv.lines, k)
    <2>1. PICK k \in DOMAIN inv.lines : lines = Without(inv.lines, k)
      BY <1>5
    <2>2. /\ lines \in Seq(Lines)
          /\ \A j \in DOMAIN lines : lines[j].id \in 1 .. m
          /\ \A j, l \in DOMAIN lines : lines[j].id = lines[l].id => j = l
          /\ Numbered(lines, m) = lines /\ NewIds(lines) = 0
      BY <1>2, <2>1, WithoutFits
    <2> HIDE DEF new
    <2>3. new.lines = lines /\ new.minted = m
      BY <1>2, <1>3, <2>2
    <2>4. LinesFit(new) /\ new.lines # <<>>
      BY <1>1, <1>2, <1>3, <2>2, <2>3 DEF LinesFit
    <2>5. Content(new) = [Content(inv) EXCEPT !.lines = lines]
      BY <1>3, <2>3 DEF Content
    <2>6. invoices' = [invoices EXCEPT ![i] = new]
      BY <1>1 DEF new
    <2> QED BY <1>3, <2>1, <2>4, <2>5, <2>6
  <1> QED BY <1>1, <1>4, <1>5

LEMMA EditKeepsLines ==
  ASSUME IInv, LInv, NEW i \in Ids, EditOutside(i)
  PROVE  LInv'
  <1>1. PICK new : /\ invoices' = [invoices EXCEPT ![i] = new]
                   /\ LinesFit(new) /\ new.doc = invoices[i].doc
                   /\ new.status = invoices[i].status
    BY EditHasEffect
  <1>2. /\ invoices'[i] = new /\ \A j \in Ids : j # i => invoices'[j] = invoices[j]
    BY <1>1 DEF IInv, Shape
  <1>3. (\A j \in Ids : LinesFit(invoices[j]))' /\ DocsFit'
    <2>1. \A j \in Ids : LinesFit(invoices'[j])
      BY <1>1, <1>2 DEF LInv
    <2>2. \A j \in Ids : /\ invoices'[j].doc = invoices[j].doc
                         /\ invoices'[j].status = invoices[j].status
      BY <1>1, <1>2
    <2> QED BY <2>1, <2>2 DEF LInv, DocsFit, Standing
  <1>4. UNCHANGED <<pc, read, body, applied>>
    BY DEF EditOutside
  <1> QED BY <1>3, <1>4, BodyKept DEF LInv

LEMMA RetryKeepsLines ==
  ASSUME IInv, LInv, NEW c \in Calls, Retry(c)
  PROVE  LInv'
  <1>1. ASSUME NEW d \in Calls, pc'[d] = "post"
        PROVE  \/ pc[d] = "post" /\ body'[d] = body[d] /\ read'[d] = read[d]
               \/ BodyComputed(d)'
    <2>1. CASE d = c
      <3>1. Op(c) = "create" /\ body'[c] = CreateBody(c)
        BY <1>1, <2>1 DEF IInv, Shape, Retry, Entry, FirstBody
      <3>2. BodyComputed(c)'
        BY <3>1 DEF BodyComputed, CreateBody, Op
      <3> QED BY <2>1, <3>2
    <2>2. CASE d # c
      BY <1>1, <2>2 DEF IInv, Shape, Retry
    <2> QED BY <2>1, <2>2
  <1> QED BY <1>1, QuietKeepsLines DEF Retry

LEMMA RefuseKeepsLines ==
  ASSUME IInv, LInv, NEW c \in Calls, NEW r, Refuse(c, r)
  PROVE  LInv'
  BY FinishKeepsLines DEF Refuse

LEMMA WriteStepKeepsLines ==
  ASSUME IInv, LInv, NEW c \in Calls, WriteStep(c)
  PROVE  LInv'
  <1>1. CASE Write(c) \/ WriteAnsweredMalformed(c) \/ WriteAnswerLost(c)
    BY <1>1, AcceptKeepsLines DEF Write, WriteAnsweredMalformed, WriteAnswerLost
  <1>2. CASE WriteStale(c) \/ WriteNotFound(c)
    BY <1>2, RefuseKeepsLines DEF WriteStale, WriteNotFound
  <1>3. CASE WriteDuplicate(c) \/ WriteFails(c)
    BY <1>3, RefuseKeepsLines DEF WriteDuplicate, WriteFails
  <1> QED BY <1>1, <1>2, <1>3 DEF WriteStep

LEMMA LInvInductive == Spec => []LInv
  <1>1. Init => LInv
    <2> SUFFICES ASSUME Init PROVE LInv
      OBVIOUS
    <2>1. ASSUME NEW i \in Ids PROVE LinesFit(invoices[i])
      <3>1. PICK n \in 1 .. 2 :
              invoices[i] = IF i \in Existing
                            THEN [status |-> "open", sync |-> 0,
                                  lines |-> [k \in 1 .. n |-> Line(k, QBO)],
                                  doc |-> DocOf[i], fields |-> QBO, minted |-> n]
                            ELSE Absent
        BY DEF Init
      <3>2. CASE i \in Existing
        <4>1. /\ n \in Nat /\ invoices[i].minted = n /\ invoices[i].status = "open"
              /\ invoices[i].lines = [k \in 1 .. n |-> Line(k, QBO)]
          BY <3>1, <3>2
        <4>2. [k \in 1 .. n |-> Line(k, QBO)] = FreshLines(0, n, QBO)
          <5>1. \A k \in 1 .. n : 0 + k = k
            OBVIOUS
          <5> QED BY <5>1, Zenon DEF FreshLines
        <4>3. LET s == FreshLines(0, n, QBO)
              IN  /\ s \in Seq(Lines)
                  /\ \A k \in DOMAIN s : s[k].id \in 1 .. 0 + n
                  /\ \A j, k \in DOMAIN s : s[j].id = s[k].id => j = k
          BY <4>1, FreshLinesFit
        <4>4. 0 + n = n
          BY <4>1
        <4> QED BY <4>1, <4>2, <4>3, <4>4 DEF LinesFit
      <3>3. CASE i \notin Existing
        BY <3>1, <3>3 DEF Absent, LinesFit
      <3> QED BY <3>2, <3>3
    <2>2. DocsFit
      BY RequestAssumption DEF Init, DocsFit, Standing, Absent
    <2>3. ASSUME NEW c \in Calls, pc[c] = "post" PROVE BodyComputed(c)
      <3>1. Op(c) = "create" /\ body[c] = CreateBody(c)
        BY <2>3 DEF Init, Entry, FirstBody
      <3> QED BY <3>1 DEF BodyComputed
    <2>4. applied \in [Calls -> Nat]
      BY DEF Init
    <2> QED BY <2>1, <2>2, <2>3, <2>4 DEF LInv
  <1>2. IInv /\ LInv /\ [Next]_vars => LInv'
    <2> SUFFICES ASSUME IInv, LInv, [Next]_vars PROVE LInv'
      OBVIOUS
    <2>1. ASSUME NEW c \in Calls, Step(c) PROVE LInv'
      BY <2>1, ReadStepKeepsLines, WriteStepKeepsLines, RetryKeepsLines DEF Step
    <2>2. ASSUME NEW i \in Ids, EditOutside(i) PROVE LInv'
      BY <2>2, EditKeepsLines
    <2>3. CASE UNCHANGED vars
      BY <2>3, QuietKeepsLines DEF vars
    <2> QED BY <2>1, <2>2, <2>3 DEF Next, AllDone
  <1> QED BY <1>1, <1>2, IInvInductive, PTL DEF Spec
---------------------------------------------------------------------------
\* A step of the routes or of QuickBooks that changes an invoice is a write that
\* QBO accepts, or an edit.
LEMMA ChangesAreWrites ==
  ASSUME [Next]_vars, invoices' # invoices \/ applied' # applied \/ edits' # edits
  PROVE  \/ \E c \in Calls : Accept(c)
         \/ \E i \in Ids : EditOutside(i)
  <1>1. ASSUME NEW c \in Calls, ReadStep(c) PROVE UNCHANGED <<invoices, applied, edits>>
    BY <1>1 DEF ReadStep, RejectIds, LoadNotFound, LoadFails, AppendLine, Replace,
       UpdateCustomFields, Delete, Void, LineNotFound, UpdateLine, CannotDeleteLastLine,
       DeleteLine, Prepare
  <1>2. ASSUME NEW c \in Calls, WriteStep(c)
        PROVE  Accept(c) \/ UNCHANGED <<invoices, applied, edits>>
    BY <1>2 DEF WriteStep, Write, WriteAnsweredMalformed, WriteAnswerLost, WriteStale,
       WriteNotFound, WriteDuplicate, WriteFails, Refuse
  <1>3. ASSUME NEW c \in Calls, Retry(c) PROVE UNCHANGED <<invoices, applied, edits>>
    BY <1>3 DEF Retry
  <1> QED BY <1>1, <1>2, <1>3 DEF Next, Step, AllDone, vars

\* However many calls delete lines, and whoever edits, an invoice that has lines
\* keeps one, but for a replace without lines: see KeepsALine.
THEOREM AnInvoiceKeepsALine == Spec => KeepsALine
  <1>1. ASSUME IInv, LInv, [Next]_vars, NEW i \in Ids,
               invoices[i].lines # <<>>, invoices'[i].lines = <<>>
        PROVE  \E c \in Calls : /\ applied'[c] # applied[c]
                                /\ Op(c) = "replace" /\ Request[c].count = 0
    <2>1. CASE \E c \in Calls : Accept(c)
      <3>1. PICK c \in Calls : Accept(c)
        BY <2>1
      <3>2. BodyComputed(c) /\ applied'[c] = applied[c] + 1 /\ applied[c] \in Nat
        BY <1>1, <3>1, AcceptedIsReady
      <3>3. PICK j \in Ids : Ready(c, j) /\ invoices' = [invoices EXCEPT ![j] = New(c, j)]
        BY <1>1, <3>1, AcceptedIsReady
      <3>4. j = i /\ New(c, i).lines = <<>>
        BY <1>1, <3>3 DEF IInv, Shape
      <3>5. Op(c) = "replace" /\ Request[c].count = 0
        BY <1>1, <3>2, <3>3, <3>4, WriteHasEffect DEF LInv
      <3> QED BY <3>2, <3>5
    <2>2. CASE \E j \in Ids : EditOutside(j)
      <3>1. PICK j \in Ids : EditOutside(j)
        BY <2>2
      <3>2. PICK new : invoices' = [invoices EXCEPT ![j] = new] /\ new.lines # <<>>
        BY <1>1, <3>1, EditHasEffect
      <3> QED BY <1>1, <3>2 DEF IInv, Shape
    <2> QED BY <1>1, <2>1, <2>2, ChangesAreWrites
  <1>2. IInv /\ LInv /\ [Next]_vars =>
          [\A i \in Ids :
             invoices[i].lines # <<>> /\ invoices'[i].lines = <<>>
               => \E c \in Calls : /\ applied'[c] # applied[c]
                                   /\ Op(c) = "replace" /\ Request[c].count = 0]_vars
    BY <1>1
  <1> QED BY <1>2, IInvInductive, LInvInductive, PTL DEF Spec, KeepsALine
---------------------------------------------------------------------------
(* The refinement: the routes implement atomic ones *)

Contents == [i \in Ids |-> Content(invoices[i])]

\* One invoice of all is changed.
LEMMA OneChanged ==
  ASSUME IInv, NEW i \in Ids, NEW new, invoices' = [invoices EXCEPT ![i] = new]
  PROVE  /\ Contents[i] = Content(invoices[i]) /\ Contents'[i] = Content(new)
         /\ Contents' = [Contents EXCEPT ![i] = Contents'[i]]
  <1>1. invoices'[i] = new /\ \A j \in Ids : j # i => invoices'[j] = invoices[j]
    BY DEF IInv, Shape
  <1>2. \A j \in Ids : Contents'[j] = Content(invoices'[j]) /\ Contents[j] = Content(invoices[j])
    BY DEF Contents, Content
  <1>3. \A j \in Ids : Contents'[j] = [Contents EXCEPT ![i] = Contents'[i]][j]
    BY <1>1, <1>2 DEF Contents
  <1>4. Contents' = [j \in Ids |-> Contents'[j]] /\ Contents = [j \in Ids |-> Contents[j]]
    BY DEF Contents
  <1> QED BY <1>1, <1>2, <1>3, <1>4

LEMMA DocsStayDistinct ==
  ASSUME LInv'
  PROVE  Atomic!DistinctDocs'
  <1>1. \A i \in Ids : /\ Contents'[i].status = invoices'[i].status
                       /\ Contents'[i].doc = invoices'[i].doc
    BY DEF Contents, Content
  <1> QED BY <1>1 DEF LInv, DocsFit, Standing, Atomic!DistinctDocs, Atomic!Standing, Contents

\* A write that QBO accepts is the effect its route promises.
LEMMA AcceptIsApply ==
  ASSUME IInv, LInv, LInv', NEW c \in Calls, Accept(c)
  PROVE  Atomic!Apply(c)
  <1>1. PICK i \in Ids : Ready(c, i) /\ invoices' = [invoices EXCEPT ![i] = New(c, i)]
    BY AcceptedIsReady
  <1>2. Atomic!Effect(c, Content(invoices[i]), Content(New(c, i)))
    BY <1>1, AcceptedIsReady, WriteHasEffect DEF LInv
  <1>3. /\ Contents[i] = Content(invoices[i]) /\ Contents'[i] = Content(New(c, i))
        /\ Contents' = [Contents EXCEPT ![i] = Contents'[i]]
    BY <1>1, OneChanged
  <1>4. Atomic!Effect(c, Contents[i], Contents'[i])
    BY <1>2, <1>3, Zenon
  <1>5. IF Request[c].op = "create" THEN Contents[i].status = "absent"
        ELSE i = Request[c].invoice /\ Contents[i].status \in {"open", "void"}
    BY <1>1, <1>3 DEF Ready, Op, Inv, Standing, Content
  <1>6. applied' = [applied EXCEPT ![c] = @ + 1] /\ UNCHANGED edits
    BY DEF Accept
  <1>7. IF Request[c].op = "create" THEN Contents[i].status = "absent"
        ELSE i = Request[c].invoice /\ Atomic!Standing(i)
    BY <1>5 DEF Atomic!Standing, Contents
  <1> QED BY <1>3, <1>4, <1>6, <1>7, DocsStayDistinct, Zenon DEF Atomic!Apply, Contents

\* An edit in QuickBooks is one line more or one less.
LEMMA EditIsOutside ==
  ASSUME IInv, LInv, NEW i \in Ids, EditOutside(i)
  PROVE  Atomic!Outside(i)
  <1> DEFINE inv == invoices[i]
             old == Contents[i]
             new == Contents'[i]
  <1>1. PICK n : /\ invoices' = [invoices EXCEPT ![i] = n]
                 /\ \/ Atomic!Appends(QBO, Content(inv), Content(n))
                    \/ \E k \in DOMAIN inv.lines :
                         Content(n) = [Content(inv) EXCEPT !.lines = Without(inv.lines, k)]
    BY EditHasEffect
  <1>2. /\ old = Content(inv) /\ new = Content(n)
        /\ Contents' = [Contents EXCEPT ![i] = new]
    BY <1>1, OneChanged
  <1>3. old.lines = inv.lines /\ old.status = "open"
    BY <1>2 DEF Content, EditOutside
  <1>4. \/ Atomic!Appends(QBO, old, new)
        \/ \E l \in {old.lines[k] : k \in DOMAIN old.lines} :
             new = [old EXCEPT !.lines =
                 Atomic!Picked(@, {k \in DOMAIN @ : @[k] # l})]
    <2>1. CASE \E k \in DOMAIN inv.lines :
                 new = [old EXCEPT !.lines = Without(inv.lines, k)]
      <3>1. PICK k \in DOMAIN inv.lines :
                 new = [old EXCEPT !.lines = Without(inv.lines, k)]
        BY <2>1, Zenon
      <3> DEFINE l == old.lines[k]
                 K == {j \in DOMAIN old.lines : old.lines[j] # l}
      <3>2. K = DOMAIN inv.lines \ {k}
        <4>1. \A j \in DOMAIN inv.lines : inv.lines[j].id = inv.lines[k].id => j = k
          BY DEF LInv, LinesFit
        <4>2. \A j \in DOMAIN inv.lines : inv.lines[j] = inv.lines[k] => j = k
          BY <4>1
        <4> QED BY <1>3, <4>2
      <3>3. Without(inv.lines, k) = Atomic!Picked(old.lines, K)
        <4>1. Without(inv.lines, k) = Picked(old.lines, K)
          BY <1>3, <3>2, Zenon DEF Without
        <4> QED BY <4>1, SamePicks
      <3>4. new = [old EXCEPT !.lines = Atomic!Picked(@, K)]
        BY <3>1, <3>3, Zenon
      <3>5. l \in {old.lines[j] : j \in DOMAIN old.lines}
        BY <1>3
      <3> QED BY <3>4, <3>5, Zenon DEF K
    <2> QED BY <1>1, <1>2, <2>1, Zenon
  <1>5. edits' = edits + 1 /\ UNCHANGED applied
    BY DEF EditOutside
  <1> QED BY <1>2, <1>3, <1>4, <1>5, Zenon DEF Atomic!Outside, Contents

\* Every write route implements one atomic change of its invoice:
\* see ImplementsAtomic.
THEOREM RoutesAreAtomic == Spec => ImplementsAtomic
  <1>1. Init => Atomic!Init
    <2> SUFFICES ASSUME Init PROVE Atomic!Init
      OBVIOUS
    <2>1. ASSUME NEW i \in Ids
          PROVE  IF i \in Existing
                 THEN /\ Contents[i].status = "open" /\ Contents[i].doc = DocOf[i]
                      /\ Contents[i].lines = [k \in 1 .. Contents[i].minted |->
                                                 Atomic!Line(k, QBO)]
                 ELSE Contents[i].status = "absent"
      <3>1. PICK n \in 1 .. 2 :
              invoices[i] = IF i \in Existing
                            THEN [status |-> "open", sync |-> 0,
                                  lines |-> [k \in 1 .. n |-> Line(k, QBO)],
                                  doc |-> DocOf[i], fields |-> QBO, minted |-> n]
                            ELSE Absent
        BY DEF Init
      <3>2. Contents[i] = Content(invoices[i])
        BY DEF Contents
      <3>3. CASE i \in Existing
        BY <3>1, <3>2, <3>3 DEF Content, Line, Atomic!Line
      <3>4. CASE i \notin Existing
        BY <3>1, <3>2, <3>4 DEF Content, Absent
      <3> QED BY <3>3, <3>4
    <2>2. applied = [c \in Calls |-> 0] /\ edits = 0
      BY DEF Init
    <2> QED BY <2>1, <2>2, Zenon DEF Atomic!Init, Contents
  <1>2. ASSUME IInv, LInv, LInv', [Next]_vars PROVE [Atomic!Next]_(Atomic!vars)
    <2>1. CASE \E c \in Calls : Accept(c)
      BY <1>2, <2>1, AcceptIsApply DEF Atomic!Next
    <2>2. CASE \E i \in Ids : EditOutside(i)
      BY <1>2, <2>2, EditIsOutside DEF Atomic!Next
    <2>3. CASE UNCHANGED <<invoices, applied, edits>>
      BY <2>3 DEF Atomic!vars, Content
    <2> QED BY <1>2, <2>1, <2>2, <2>3, ChangesAreWrites
  <1> QED BY <1>1, <1>2, IInvInductive, LInvInductive, PTL
          DEF Spec, ImplementsAtomic, Atomic!Spec
=============================================================================
