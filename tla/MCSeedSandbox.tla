---------------------------- MODULE MCSeedSandbox ----------------------------
(* Three active customers under every shape of ParentRefs, and four items. *)
EXTENDS SeedSandbox, TLC

CONSTANTS c1, c2, c3, gone, i1, i2, poor, odd

MCCustomers == <<c1, c2, c3, gone>>
MCItems == <<i1, i2, poor, odd>>

\* A chain that the file lists children first, a fork, an inactive parent, a
\* cycle with a child; an item under another, and items under skipped ones.
Customer(p1, p2, p3) == (c1 :> p1) @@ (c2 :> p2) @@ (c3 :> p3)
Item(p1, p2) == (i1 :> p1) @@ (i2 :> p2)
MCParents ==
    {f @@ [r \in {gone, poor, odd} |-> Nobody] : f \in
        {Customer(c2, c3, Nobody) @@ Item(i2, Nobody),
         Customer(Nobody, c1, c1) @@ Item(poor, odd),
         Customer(gone, c1, c2) @@ Item(i2, Nobody),
         Customer(c2, c1, c2) @@ Item(i2, odd)}}

Whole == [dry |-> FALSE, kinds |-> Range(Kinds), limit |-> 9]
MCOptions == {Whole, [Whole EXCEPT !.dry = TRUE],
              [Whole EXCEPT !.kinds = {"Customer"}, !.limit = 1]}
=============================================================================
