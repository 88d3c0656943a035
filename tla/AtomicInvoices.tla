--------------------------- MODULE AtomicInvoices ---------------------------
(***************************************************************************)
(* What the invoice write routes promise a caller: each call, when it takes *)
(* effect at all, changes its invoice in one step from the state it then   *)
(* has to the state the route describes, as if QBO had an endpoint for it. *)
(***************************************************************************)
EXTENDS InvoiceLines, Naturals, Sequences, FiniteSets

CONSTANTS Calls, Request, Ids, Existing, DocOf, QBO

VARIABLES
    content,    \* content[i]: what invoice i says, without QBO's SyncToken
    applied,    \* how often each call took effect
    edits       \* the number of changes made outside this service

vars == <<content, applied, edits>>

\* n fresh lines of writer w after those of old.
Fresh(old, n, w) == [k \in 1 .. n |-> Line(old.minted + k, w)]

Init ==
    /\ \A i \in Ids :
         IF i \in Existing
         THEN /\ content[i].status = "open"
              /\ content[i].doc = DocOf[i]
              /\ content[i].lines = [k \in 1 .. content[i].minted |-> Line(k, QBO)]
         ELSE content[i].status = "absent"
    /\ applied = [c \in Calls |-> 0]
    /\ edits = 0

\* old becomes new by the effect of call c.
Creates(c, old, new) ==
    /\ old.status = "absent"
    /\ new.status = "open" /\ new.doc = Request[c].doc /\ new.fields = c
    /\ new.lines = Fresh(old, Request[c].count, c)

Appends(w, old, new) ==
    new = [old EXCEPT !.lines = @ \o Fresh(old, 1, w), !.minted = @ + 1]

Replaces(c, old, new) ==
    new = [old EXCEPT !.lines = Fresh(old, Request[c].count, c),
                      !.minted = @ + Request[c].count,
                      !.doc = Request[c].doc, !.fields = c]

UpdatesLine(c, old, new) ==
    /\ \E k \in DOMAIN old.lines : old.lines[k].id = Request[c].line
    /\ new = [old EXCEPT !.lines = [k \in DOMAIN old.lines |->
               IF old.lines[k].id = Request[c].line THEN Line(Request[c].line, c)
               ELSE old.lines[k]]]

DeletesLine(c, old, new) ==
    /\ Len(old.lines) > 1
    /\ \E k \in DOMAIN old.lines : old.lines[k].id = Request[c].line
    /\ new = [old EXCEPT !.lines =
               Picked(@, {k \in DOMAIN @ : @[k].id # Request[c].line})]

Effect(c, old, new) ==
    CASE Request[c].op = "create"        -> Creates(c, old, new)
      [] Request[c].op = "append"        -> Appends(c, old, new)
      [] Request[c].op = "replace"       -> Replaces(c, old, new)
      [] Request[c].op = "custom_fields" -> new = [old EXCEPT !.fields = c]
      [] Request[c].op = "delete"        -> new = [old EXCEPT !.status = "deleted"]
      [] Request[c].op = "void"          -> new = [old EXCEPT !.status = "void"]
      [] Request[c].op = "update_line"   -> UpdatesLine(c, old, new)
      [] Request[c].op = "delete_line"   -> DeletesLine(c, old, new)

\* Among the standing invoices no two have one DocNumber.
Standing(i) == content[i].status \in {"open", "void"}
DistinctDocs == \A i, j \in Ids :
    i # j /\ Standing(i) /\ Standing(j) => content[i].doc # content[j].doc

Apply(c) ==
    /\ \E i \in Ids :
         /\ IF Request[c].op = "create" THEN content[i].status = "absent"
            ELSE i = Request[c].invoice /\ Standing(i)
         /\ Effect(c, content[i], content'[i])
         /\ content' = [content EXCEPT ![i] = content'[i]]
    /\ DistinctDocs'
    /\ applied' = [applied EXCEPT ![c] = @ + 1]
    /\ UNCHANGED edits

\* Someone adds or removes one line in QuickBooks.
Outside(i) ==
    /\ content[i].status = "open"
    /\ \/ Appends(QBO, content[i], content'[i])
       \/ \E l \in {content[i].lines[k] : k \in DOMAIN content[i].lines} :
            content'[i] = [content[i] EXCEPT !.lines =
                Picked(@, {k \in DOMAIN @ : @[k] # l})]
    /\ content' = [content EXCEPT ![i] = content'[i]]
    /\ edits' = edits + 1
    /\ UNCHANGED applied

Next == (\E c \in Calls : Apply(c)) \/ (\E i \in Ids : Outside(i))

Spec == Init /\ [][Next]_vars
=============================================================================
