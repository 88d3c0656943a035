--------------------------- MODULE MCItemCatalogue ---------------------------
(* Small instances of ItemCatalogue. *)
EXTENDS ItemCatalogue, TLC

CONSTANTS c1, c2, c3, w1, n1, n2, n3

Ask(op, i, n) == [op |-> op, item |-> i, name |-> n]

\* c1 renames item 1 to n2, changes something else or has a bad id; c2
\* deactivates or reads item 1; c3 creates an item and wants n2 too.
MCAsks == [c \in Calls |->
    CASE c = c1 -> {Ask("update", 1, n2), Ask("update", 1, NoName),
                    Ask("update", Malformed, NoName)}
      [] c = c2 -> {Ask("deactivate", 1, NoName), Ask("get", 1, NoName)}
      [] c = c3 -> {Ask("create", Malformed, n2)}]

MCNameOf == [i \in Existing |-> CASE i = 1 -> n1 [] i = 2 -> n2 [] i = 3 -> n3]

\* active=true, or modified_since alone.
MCFilters == {{"active"}, {"modified"}}

AllFaults == {"refusal", "network", "malformed"}
=============================================================================
