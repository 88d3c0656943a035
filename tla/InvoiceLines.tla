----------------------------- MODULE InvoiceLines -----------------------------
(* The Line array of an invoice, for InvoiceWrites and AtomicInvoices.       *)
EXTENDS Picks

\* A line is its id and who wrote its content.
Line(n, who) == [id |-> n, by |-> who]
=============================================================================
