-------------------------------- MODULE Picks --------------------------------
(* Python's [x for i, x in enumerate(s) if i in S].                          *)
EXTENDS Naturals, FiniteSets

\* The n-th of the indexes S.
Nth(S, n) == CHOOSE i \in S : Cardinality({j \in S : j <= i}) = n

\* The elements of s at the indexes S, in their order.
Picked(s, S) == [n \in 1 .. Cardinality(S) |-> s[Nth(S, n)]]
=============================================================================
