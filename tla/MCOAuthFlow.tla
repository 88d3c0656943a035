----------------------------- MODULE MCOAuthFlow -----------------------------
(* Small instances of OAuthFlow. *)
EXTENDS OAuthFlow, TLC

CONSTANTS s1, s2, c1, c2, p, q

\* The launch token of s2 expires first.
MCExpiry == [s \in Starts |-> IF s = s1 THEN 2 ELSE 1]

Sym == Permutations(Processes) \cup Permutations(Callbacks)
=============================================================================
