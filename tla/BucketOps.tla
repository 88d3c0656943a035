------------------------------ MODULE BucketOps ------------------------------
(***************************************************************************)
(* The arithmetic of api/rate_limit.py, shared by TokenBucket (one bucket, *)
(* many threads) and QBRequest (the calls that draw from buckets).         *)
(*                                                                         *)
(* The code counts tokens and seconds in floats.  Here one token is Unit   *)
(* units, one second is Second ticks, and Rate units flow in per tick, so  *)
(* that every amount is a natural number.                                  *)
(***************************************************************************)
EXTENDS Integers

CONSTANTS
    Capacity,   \* tokens: rate_limit_burst
    Rate,       \* units per tick: rate_limit_per_min / 60
    Unit,       \* units per token
    Second      \* ticks per second

\* config.py:65-66 constrains both settings to gt=0; the rate 0 and the
\* capacity 0 that the class accepts are for its tests.
ASSUME BucketAssumption ==
    /\ Capacity \in Nat \ {0}
    /\ Rate \in Nat \ {0}
    /\ Unit \in Nat \ {0}
    /\ Second \in Nat \ {0}

Full == Capacity * Unit

Least(a, b) == IF a <= b THEN a ELSE b

\* What a bucket with `units`, refilled at `then`, holds at `now`; a reading
\* from before `then` adds nothing.
Refilled(units, then, now) ==
    Least(Full, units + Rate * (IF now >= then THEN now - then ELSE 0))

\* Seeded bug: the hint is rounded down.
CeilDivMutantFloor(a, b) == a \div b

CeilDiv(a, b) == (a + b - 1) \div b

\* Whole seconds until a token has had time to refill, at least one.
RetryAfterSeconds ==
    LET seconds == CeilDiv(Unit, Rate * Second)
    IN  IF seconds >= 1 THEN seconds ELSE 1
=============================================================================
