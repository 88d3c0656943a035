--------------------------- MODULE MCInvoiceWrites ---------------------------
(* Small instances of InvoiceWrites. *)
EXTENDS InvoiceWrites, TLC

CONSTANTS append, append2, replace, clear, fields, fields2, delete, void,
          create, create2, update1, delete1, delete2, badid, badline, d1, d2

Ask(op, i, line, doc, n) ==
    [op |-> op, invoice |-> i, line |-> line, doc |-> doc, count |-> n]

\* Invoice 1 exists with DocNumber d1; update1 and delete1 name its line 1,
\* delete2 its line 2; replace renumbers it to d2; the two creates want d2.
RequestOf(c) ==
    CASE c \in {append, append2} -> Ask("append", 1, 0, d1, 0)
      [] c = replace             -> Ask("replace", 1, 0, d2, 2)
      [] c = clear               -> Ask("replace", 1, 0, d1, 0)
      [] c \in {fields, fields2} -> Ask("custom_fields", 1, 0, d1, 0)
      [] c = delete              -> Ask("delete", 1, 0, d1, 0)
      [] c = void                -> Ask("void", 1, 0, d1, 0)
      [] c \in {create, create2} -> Ask("create", 2, 0, d2, 1)
      [] c = update1             -> Ask("update_line", 1, 1, d1, 0)
      [] c = delete1             -> Ask("delete_line", 1, 1, d1, 0)
      [] c = delete2             -> Ask("delete_line", 1, 2, d1, 0)
      [] c = badid               -> Ask("void", Malformed, 0, d1, 0)
      [] c = badline             -> Ask("delete_line", 1, Malformed, d1, 0)
MCRequest == [c \in Calls |-> RequestOf(c)]
MCDocOf == [i \in {1} |-> d1]

AllFaults == {"refusal", "network", "malformed"}

\* What arrives together: calls on lines of the invoice, or calls on the whole.
Groups == {{append, update1, delete1}, {append, delete1, delete2},
           {create, replace, fields}, {create, delete, void, badid}}
=============================================================================
