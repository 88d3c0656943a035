-------------------------- MODULE MCTokenLifecycle --------------------------
(* Small instances of TokenLifecycle. *)
EXTENDS TokenLifecycle, TLC

CONSTANTS r1, r2, r3, d1, d2, cb, a, b

\* The kind of a call follows from its name; `ready` shares the request's path.
KindOf(c) == CASE c \in {r1, r2} -> "request"
               [] c = r3        -> "ready"
               [] c \in {d1, d2} -> "disconnect"
               [] OTHER         -> "callback"
MCKind == [c \in Calls |-> KindOf(c)]

\* One instance serves everything.
OnOne == [c \in Calls |-> a]

\* r2 and d1 run on another instance than the rest: qb-admin beside qb-service.
OnTwo == [c \in Calls |-> IF c \in {r2, d1} THEN b ELSE a]

\* Every call arrives; or, on one instance, one group of them does.
Together == {Calls}
Solo == {{r1, r2}, {d1, d2}, {r3, d2, cb}}

AllFaults == {"load", "save", "clear", "network", "withdraw", "crash"}
FaultsAndStaleRevoke == AllFaults \cup {"stale_revoke"}
=============================================================================
