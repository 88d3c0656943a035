---------------------------- MODULE MCTokenBucket ----------------------------
(* Small instances of TokenBucket. *)
EXTENDS TokenBucket, TLC

CONSTANTS t1, t2

Sym == Permutations(Threads)
=============================================================================
