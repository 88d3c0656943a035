----------------------------- MODULE MCQBRequest -----------------------------
(* Small instances of QBRequest. *)
EXTENDS QBRequest, TLC

CONSTANTS write, write2, read

\* A write that reads first makes two requests.
MCRequests == [c \in Calls |-> IF c = read THEN 1 ELSE 2]

AllFaults == {"lost", "fault", "failure", "auth"}
=============================================================================
