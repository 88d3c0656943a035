---------------------------- MODULE InvoiceWrites ----------------------------
(***************************************************************************)
(* The invoice write routes (routes/invoices.py).                          *)
(*                                                                         *)
(* QBO has no per-line API and replaces the Line array wholesale, so every *)
(* write but create is two calls to QBO: a GET that reads the invoice and  *)
(* its SyncToken, and a POST computed from what was read.  Other calls,    *)
(* and people working in QuickBooks itself, write between the two.         *)
(*                                                                         *)
(* A call is one HTTP request.  `pc` says which of its two QBO calls it    *)
(* makes next.  The resends of QBClient._request repeat a POST that QBO    *)
(* rejected (429, 401) and send the same body, so they only lengthen the   *)
(* wait at "post"; QBRequest has them.                                     *)
(*                                                                         *)
(* QBO is external: it bumps SyncToken on every write, refuses a write     *)
(* whose SyncToken is stale, gives ids to new lines, appends a subtotal    *)
(* row to every invoice it returns, and enforces DocNumber uniqueness.     *)
(***************************************************************************)
EXTENDS InvoiceLines, Naturals, Sequences, FiniteSets

CONSTANTS
    Calls,      \* the HTTP requests
    Arrivals,   \* the sets of calls that may arrive together
    Request,    \* Request[c]: what call c asks for
    Ids,        \* the invoice ids QBO may give
    Existing,   \* the invoices there are at the start
    Docs,       \* the DocNumbers
    DocOf,      \* DocOf[i]: the DocNumber of existing invoice i
    NoDoc,      \* the DocNumber of a body that carries none
    QBO,        \* whoever writes outside this service
    MaxEdits,   \* bound on the writes made outside this service
    Faults,     \* the faults that may happen in a run
    RetriesLost \* the operations whose callers retry after a lost answer

LineOps == {"update_line", "delete_line"}
Ops == {"create", "append", "replace", "custom_fields", "delete", "void"} \cup LineOps

\* "refusal": QBO or the auth path refuses a call.  "network": a POST or its
\* answer is lost.  "malformed": a 200 whose body holds no Invoice, or a 5xx
\* after the effect.
FaultKinds == {"refusal", "network", "malformed"}

\* An id or line id that does not match the numeric pattern.
Malformed == 0

\* line: the line a line operation names; count: how many lines a create or a
\* replace carries.
Requests == [op : Ops, invoice : Ids \cup {Malformed}, line : Nat,
             doc : Docs, count : Nat]

ASSUME RequestAssumption ==
    /\ Arrivals \subseteq SUBSET Calls
    /\ Ids \subseteq Nat \ {Malformed}
    /\ Existing \subseteq Ids
    /\ Request \in [Calls -> Requests]
    /\ DocOf \in [Existing -> Docs]
    /\ \A i, j \in Existing : DocOf[i] = DocOf[j] => i = j
    /\ QBO \notin Calls
    /\ NoDoc \notin Docs
ASSUME BoundsAssumption ==
    /\ MaxEdits \in Nat
    /\ Faults \subseteq FaultKinds
    /\ RetriesLost \subseteq Ops

VARIABLES
    invoices,   \* QBO's record of each invoice
    pc,         \* where each call is
    read,       \* the handler's local `invoice`
    body,       \* the JSON body of the call's POST
    result,     \* the answer of each call
    applied,    \* ghost: how often each call's write took effect
    edits       \* the number of writes made outside this service

vars == <<invoices, pc, read, body, result, applied, edits>>

Op(c) == Request[c].op
Inv(c) == Request[c].invoice

\* A line of a request has no id.
NoId == 0
NewLine(c) == Line(NoId, c)
SubTotal == Line(NoId, QBO)

Absent == [status |-> "absent", sync |-> 0, lines |-> <<>>,
           doc |-> NoDoc, fields |-> QBO, minted |-> 0]
NoBody == [kind |-> "none", sync |-> 0, lines |-> <<>>, doc |-> NoDoc]

Standing(inv) == inv.status \in {"open", "void"}

\* Another invoice than i has DocNumber d.
DocTaken(d, i) ==
    d # NoDoc /\ \E j \in Ids \ {i} : Standing(invoices[j]) /\ invoices[j].doc = d

\* The call is answered; the handler's locals are gone.
Finish(c, r) == /\ pc' = [pc EXCEPT ![c] = "done"]
                /\ result' = [result EXCEPT ![c] = r]
                /\ read' = [read EXCEPT ![c] = Absent]
                /\ body' = [body EXCEPT ![c] = NoBody]

NewLines(c) == [k \in 1 .. Request[c].count |-> NewLine(c)]

\* Seeded bug: the create body leaves the DocNumber out.
CreateBodyMutantNoDoc(c) ==
    [kind |-> "create", sync |-> 0, lines |-> NewLines(c), doc |-> NoDoc]

\* create has no read phase: its body, without a SyncToken, is ready at once.
CreateBody(c) ==
    [kind |-> "create", sync |-> 0, lines |-> NewLines(c), doc |-> Request[c].doc]
Entry(c) == IF Op(c) = "create" THEN "post" ELSE "load"
FirstBody(c) == IF Op(c) = "create" THEN CreateBody(c) ELSE NoBody

Init ==
    /\ \E n \in 1 .. 2 :
         invoices = [i \in Ids |->
             IF i \in Existing
             THEN [status |-> "open", sync |-> 0,
                   lines |-> [k \in 1 .. n |-> Line(k, QBO)],
                   doc |-> DocOf[i], fields |-> QBO, minted |-> n]
             ELSE Absent]
    /\ \E arriving \in Arrivals :
         /\ pc = [c \in Calls |-> IF c \in arriving THEN Entry(c) ELSE "done"]
         /\ body = [c \in Calls |-> IF c \in arriving THEN FirstBody(c) ELSE NoBody]
    /\ read = [c \in Calls |-> Absent]
    /\ result = [c \in Calls |-> "none"]
    /\ applied = [c \in Calls |-> 0]
    /\ edits = 0

---------------------------------------------------------------------------
(* The read phase, _load_invoice_for_write, and what each handler makes of it *)

WellFormedIds(c) ==
    /\ Inv(c) # Malformed
    /\ Op(c) \in LineOps => Request[c].line # Malformed

RejectIds(c) ==
    /\ pc[c] = "load"
    /\ ~WellFormedIds(c)
    /\ Finish(c, "invalid_param")
    /\ UNCHANGED <<invoices, applied, edits>>

LoadNotFound(c) ==
    /\ pc[c] = "load"
    /\ WellFormedIds(c)
    /\ ~Standing(invoices[Inv(c)])
    /\ Finish(c, "not_found")
    /\ UNCHANGED <<invoices, applied, edits>>

\* AuthError and TokenStoreError give 503, RateLimitError 429, any other fault
\* and a malformed body 502; an httpx error is nobody's to map and gives 500.
LoadFails(c) ==
    /\ pc[c] = "load"
    /\ WellFormedIds(c)
    /\ \/ "refusal" \in Faults /\ Finish(c, "unavailable")
       \/ Faults \cap {"refusal", "malformed"} # {} /\ Finish(c, "qbo_error")
       \/ "network" \in Faults /\ Finish(c, "error")
    /\ UNCHANGED <<invoices, applied, edits>>

\* The invoice as the GET returns it, with its subtotal row.
Returned(inv) == IF inv.lines = <<>> THEN <<>> ELSE Append(inv.lines, SubTotal)

IsItemLine(l) == l # SubTotal
StripSubtotals(lines) == Picked(lines, {k \in DOMAIN lines : IsItemLine(lines[k])})

ExistingLines(c) == StripSubtotals(Returned(invoices[Inv(c)]))

IndexesOf(lines, n) == {k \in DOMAIN lines : lines[k].id = n}
FindLine(lines, n) == CHOOSE k \in IndexesOf(lines, n) : \A j \in IndexesOf(lines, n) : k <= j

\* The GET succeeded; the handler goes on to POST a body with the SyncToken read.
Loaded(c) ==
    /\ pc[c] = "load"
    /\ WellFormedIds(c)
    /\ Standing(invoices[Inv(c)])

\* Seeded bug: every body carries the SyncToken of a new invoice.
PrepareMutantTokenZero(c, kind, lines) ==
    /\ read' = [read EXCEPT ![c] = invoices[Inv(c)]]
    /\ body' = [body EXCEPT ![c] =
          [kind |-> kind, sync |-> 0, lines |-> lines,
           doc |-> IF kind = "full" THEN Request[c].doc ELSE NoDoc]]
    /\ pc' = [pc EXCEPT ![c] = "post"]
    /\ UNCHANGED <<invoices, result, applied, edits>>

Prepare(c, kind, lines) ==
    /\ read' = [read EXCEPT ![c] = invoices[Inv(c)]]
    /\ body' = [body EXCEPT ![c] =
          [kind |-> kind, sync |-> invoices[Inv(c)].sync, lines |-> lines,
           doc |-> IF kind = "full" THEN Request[c].doc ELSE NoDoc]]
    /\ pc' = [pc EXCEPT ![c] = "post"]
    /\ UNCHANGED <<invoices, result, applied, edits>>

AppendLine(c) ==
    /\ Loaded(c)
    /\ Op(c) = "append"
    /\ Prepare(c, "lines", Append(ExistingLines(c), NewLine(c)))

Replace(c) ==
    /\ Loaded(c)
    /\ Op(c) = "replace"
    /\ Prepare(c, "full", NewLines(c))

UpdateCustomFields(c) ==
    /\ Loaded(c)
    /\ Op(c) = "custom_fields"
    /\ Prepare(c, "fields", <<>>)

Delete(c) ==
    /\ Loaded(c)
    /\ Op(c) = "delete"
    /\ Prepare(c, "delete", <<>>)

Void(c) ==
    /\ Loaded(c)
    /\ Op(c) = "void"
    /\ Prepare(c, "void", <<>>)

LineNotFound(c) ==
    /\ Loaded(c)
    /\ Op(c) \in LineOps
    /\ IndexesOf(ExistingLines(c), Request[c].line) = {}
    /\ Finish(c, "line_not_found")
    /\ UNCHANGED <<invoices, applied, edits>>

\* Seeded bug: the replaced line loses its Line.Id.
UpdateLineMutantNoId(c) ==
    LET lines == ExistingLines(c)
    IN  /\ Loaded(c)
        /\ Op(c) = "update_line"
        /\ IndexesOf(lines, Request[c].line) # {}
        /\ Prepare(c, "lines", [lines EXCEPT ![FindLine(lines, Request[c].line)] = NewLine(c)])

\* The new content keeps the Line.Id, so QBO updates the row in place.
UpdateLine(c) ==
    LET lines == ExistingLines(c)
    IN  /\ Loaded(c)
        /\ Op(c) = "update_line"
        /\ IndexesOf(lines, Request[c].line) # {}
        /\ Prepare(c, "lines", [lines EXCEPT ![FindLine(lines, Request[c].line)] =
                                                 Line(Request[c].line, c)])

Without(lines, k) == Picked(lines, DOMAIN lines \ {k})

CannotDeleteLastLine(c) ==
    /\ Loaded(c)
    /\ Op(c) = "delete_line"
    /\ IndexesOf(ExistingLines(c), Request[c].line) # {}
    /\ Len(ExistingLines(c)) = 1
    /\ Finish(c, "cannot_delete_last_line")
    /\ UNCHANGED <<invoices, applied, edits>>

\* Seeded bug: nothing guards the last line.
DeleteLineMutantNoGuard(c) ==
    LET lines == ExistingLines(c)
    IN  /\ Loaded(c)
        /\ Op(c) = "delete_line"
        /\ IndexesOf(lines, Request[c].line) # {}
        /\ Prepare(c, "lines", Without(lines, FindLine(lines, Request[c].line)))

DeleteLine(c) ==
    LET lines == ExistingLines(c)
    IN  /\ Loaded(c)
        /\ Op(c) = "delete_line"
        /\ IndexesOf(lines, Request[c].line) # {}
        /\ Len(lines) > 1
        /\ Prepare(c, "lines", Without(lines, FindLine(lines, Request[c].line)))

---------------------------------------------------------------------------
(* The write phase, _execute_invoice_write and create_invoice *)

\* QBO gives each new line the next id.
Numbered(lines, minted) ==
    [k \in DOMAIN lines |->
        IF lines[k].id # NoId THEN lines[k]
        ELSE Line(minted + Cardinality({j \in 1 .. k : lines[j].id = NoId}), lines[k].by)]
NewIds(lines) == Cardinality({k \in DOMAIN lines : lines[k].id = NoId})

Replaces(b) == b.kind \in {"full", "create"}
Renews(b) == Replaces(b) \/ b.kind = "lines"


\* What QBO makes of invoice inv on body b of writer w: the SyncToken moves on,
\* a sparse body leaves alone what it does not name, a full one replaces all.
Written(b, w, inv) ==
    [status |-> IF b.kind = "delete" THEN "deleted"
                ELSE IF b.kind = "void" THEN "void"
                ELSE IF b.kind = "create" THEN "open" ELSE inv.status,
     sync   |-> inv.sync + 1,
     lines  |-> IF Renews(b) THEN Numbered(b.lines, inv.minted) ELSE inv.lines,
     doc    |-> IF Replaces(b) THEN b.doc ELSE inv.doc,
     fields |-> IF Replaces(b) \/ b.kind = "fields" THEN w ELSE inv.fields,
     minted |-> IF Renews(b) THEN inv.minted + NewIds(b.lines) ELSE inv.minted]

SendsSubtotal(c) == \E k \in DOMAIN body[c].lines : body[c].lines[k] = SubTotal

AcceptCreate(c) ==
    /\ body[c].kind = "create"
    /\ ~DocTaken(body[c].doc, Malformed)
    /\ \E i \in Ids : /\ invoices[i].status = "absent"
                     /\ invoices' = [invoices EXCEPT ![i] = Written(body[c], c, @)]

AcceptUpdate(c) ==
    /\ body[c].kind # "create"
    /\ Standing(invoices[Inv(c)])
    /\ body[c].sync = invoices[Inv(c)].sync
    /\ ~SendsSubtotal(c)
    /\ ~DocTaken(body[c].doc, Inv(c))
    /\ invoices' = [invoices EXCEPT ![Inv(c)] = Written(body[c], c, @)]

\* QBO applies the write.
Accept(c) ==
    /\ pc[c] = "post"
    /\ AcceptCreate(c) \/ AcceptUpdate(c)
    /\ applied' = [applied EXCEPT ![c] = @ + 1]
    /\ UNCHANGED edits

\* 200 (201 for a create).
Write(c) == Accept(c) /\ Finish(c, "ok")

\* Seeded bug: a 200 without an Invoice is taken for a missing invoice.
WriteAnsweredMalformedMutant404(c) ==
    "malformed" \in Faults /\ Accept(c) /\ Finish(c, "not_found")

\* Applied, but the 200 carries no Invoice object, or QBO answers 5xx: 502.
WriteAnsweredMalformed(c) ==
    "malformed" \in Faults /\ Accept(c) /\ Finish(c, "qbo_error")

\* Applied, but the answer never arrives: the httpx error escapes as a 500.
WriteAnswerLost(c) == "network" \in Faults /\ Accept(c) /\ Finish(c, "error")

Refuse(c, r) ==
    /\ pc[c] = "post"
    /\ Finish(c, r)
    /\ UNCHANGED <<invoices, applied, edits>>

\* Seeded bug: the handler takes the SyncToken anew and posts the same body again.
WriteStaleMutantNewToken(c) ==
    /\ pc[c] = "post"
    /\ body[c].kind # "create"
    /\ Standing(invoices[Inv(c)])
    /\ body[c].sync # invoices[Inv(c)].sync
    /\ body' = [body EXCEPT ![c].sync = invoices[Inv(c)].sync]
    /\ UNCHANGED <<invoices, pc, read, result, applied, edits>>

\* QBO fault 5010: 409 QBO_STALE_SYNC_TOKEN.
WriteStale(c) ==
    /\ pc[c] = "post"
    /\ body[c].kind # "create"
    /\ Standing(invoices[Inv(c)])
    /\ body[c].sync # invoices[Inv(c)].sync
    /\ Refuse(c, "stale")

WriteNotFound(c) ==
    /\ pc[c] = "post"
    /\ body[c].kind # "create"
    /\ ~Standing(invoices[Inv(c)])
    /\ Refuse(c, "not_found")

\* QBO fault 6240: only create maps it to a 409.
WriteDuplicate(c) ==
    \/ /\ body[c].kind = "create"
       /\ DocTaken(body[c].doc, Malformed)
       /\ Refuse(c, "duplicate")
    \/ /\ body[c].kind = "full"
       /\ DocTaken(body[c].doc, Inv(c))
       /\ Refuse(c, "qbo_error")

\* A POST QBO did not apply: 503 or 429, 502, and 500 if it was lost.
WriteFails(c) ==
    \/ "refusal" \in Faults /\ Refuse(c, "unavailable")
    \/ ("refusal" \in Faults \/ SendsSubtotal(c)) /\ Refuse(c, "qbo_error")
    \/ "network" \in Faults /\ Refuse(c, "error")

---------------------------------------------------------------------------
(* The callers, and the people who work in QuickBooks *)

\* The caller reads and applies again: after a 409 (scope section 12), and for
\* the operations of RetriesLost after a 500.
Retry(c) ==
    /\ pc[c] = "done"
    /\ \/ result[c] = "stale"
       \/ result[c] = "error" /\ Op(c) \in RetriesLost
    /\ pc' = [pc EXCEPT ![c] = Entry(c)]
    /\ body' = [body EXCEPT ![c] = FirstBody(c)]
    /\ result' = [result EXCEPT ![c] = "none"]
    /\ UNCHANGED <<invoices, read, applied, edits>>

\* Someone adds or removes a line in QuickBooks.
EditOutside(i) ==
    /\ edits < MaxEdits
    /\ invoices[i].status = "open"
    /\ \E lines \in {Append(invoices[i].lines, SubTotal)} \cup
                    {Without(invoices[i].lines, k) : k \in DOMAIN invoices[i].lines} :
         /\ lines # <<>>
         /\ invoices' = [invoices EXCEPT ![i] =
              Written([kind |-> "lines", lines |-> lines], QBO, @)]
    /\ edits' = edits + 1
    /\ UNCHANGED <<pc, read, body, result, applied>>

ReadStep(c) ==
    \/ RejectIds(c) \/ LoadNotFound(c) \/ LoadFails(c)
    \/ AppendLine(c) \/ Replace(c) \/ UpdateCustomFields(c) \/ Delete(c) \/ Void(c)
    \/ LineNotFound(c) \/ UpdateLine(c) \/ CannotDeleteLastLine(c) \/ DeleteLine(c)

WriteStep(c) ==
    \/ Write(c) \/ WriteAnsweredMalformed(c) \/ WriteAnswerLost(c)
    \/ WriteStale(c) \/ WriteNotFound(c) \/ WriteDuplicate(c) \/ WriteFails(c)

Step(c) == ReadStep(c) \/ WriteStep(c) \/ Retry(c)

AllDone == (\A c \in Calls : pc[c] = "done") /\ UNCHANGED vars

Next ==
    \/ \E c \in Calls : Step(c)
    \/ \E i \in Ids : EditOutside(i)
    \/ AllDone

Spec == Init /\ [][Next]_vars

\* A handler runs on to its answer, and a caller told to re-fetch and retry does.
FairSpec == Spec /\ \A c \in Calls : WF_vars(Step(c))
---------------------------------------------------------------------------
(* Each call is one atomic change of one invoice: see AtomicInvoices. *)
Content(inv) == [status |-> inv.status, lines |-> inv.lines, doc |-> inv.doc,
                 fields |-> inv.fields, minted |-> inv.minted]

Atomic == INSTANCE AtomicInvoices WITH
              content <- [i \in Ids |-> Content(invoices[i])]

\* The read-modify-write routes implement atomic ones: an append adds its line
\* to whatever lines are there then, a line update or delete touches that line
\* only, a custom-field update no line at all.
ImplementsAtomic == Atomic!Spec
---------------------------------------------------------------------------
(* Properties *)

\* The stale-SyncToken 409 closes the window between the read and the write
\* (scope section 12): a write only takes effect on exactly what it was
\* computed from, so no other writer's change is lost.
NoLostUpdate ==
    [][\A c \in Calls :
         applied'[c] # applied[c] /\ Op(c) # "create" => invoices[Inv(c)] = read[c]]_vars

\* However many calls delete lines at once, and whoever else edits, no call
\* but a replace without lines takes an invoice's last line away ("an invoice
\* must keep at least one line", invoices.py:826).
KeepsALine ==
    [][\A i \in Ids :
         invoices[i].lines # <<>> /\ invoices'[i].lines = <<>>
           => \E c \in Calls : /\ applied'[c] # applied[c]
                               /\ Op(c) = "replace" /\ Request[c].count = 0]_vars

\* A call takes effect at most once, though its caller retries every 409, and
\* retries a create whose answer was lost (scope section 12: "Web app retries
\* are safe").
AppliedAtMostOnce == \A c \in Calls : applied[c] <= 1

\* Answers that say the write was refused; a 502 or a 500 says nothing.
Refusals == {"invalid_param", "not_found", "line_not_found",
             "cannot_delete_last_line", "stale", "unavailable"}

\* A caller can trust its answer: 200 means the write took effect once, a 4xx
\* or a 503 means this call changed nothing, on this attempt or an earlier one
\* (unless it retried blindly, after a 500).
AnswersAreTrue ==
    \A c \in Calls :
        Op(c) \notin RetriesLost =>
            /\ result[c] = "ok" => applied[c] = 1
            /\ result[c] \in Refusals => applied[c] = 0

\* No livelock: with callers that retry every 409, every call is settled in
\* the end, because each 409 is the mark of another writer's success (one that
\* retries lost answers may wait for the network forever).
EveryWriteSettles ==
    \A c \in Calls : Op(c) \notin RetriesLost =>
        <>[](pc[c] = "done" /\ result[c] # "stale")
=============================================================================
