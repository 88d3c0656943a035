---------------------------- MODULE FileTokenStore ----------------------------
(***************************************************************************)
(* auth/tokens.py: the token store of local development, a JSON file.      *)
(* Path.write_text opens and truncates the file, then writes it; unlink    *)
(* takes the name from a file that a writer may still have open.  No       *)
(* method takes refresh_lock: whoever calls them may.                      *)
(***************************************************************************)
EXTENDS Naturals

CONSTANTS
    Threads,        \* the threads that use the store
    Initially       \* the files the process may find

Missing == [kind |-> "missing", token |-> 0]
Blank == [kind |-> "empty", token |-> 0]
Torn == [kind |-> "torn", token |-> 0]
Holds(t) == [kind |-> "good", token |-> t]
NoToken == 0

ASSUME InitiallyAssumption == Initially \subseteq {Missing, Holds(1)}

VARIABLES
    file,       \* what is at the path
    writers,    \* the threads that have that very file open
    saving,     \* each thread's save: the token, or NoToken
    clashed     \* ghost: the threads whose saves had the file open together

fileVars == <<file, writers, saving, clashed>>

FileInit ==
    /\ file \in Initially
    /\ writers = {}
    /\ saving = [c \in Threads |-> NoToken]
    /\ clashed = {}

\* load: no file, and a file that cannot be parsed, are None.
Loaded == IF file.kind = "good" THEN file.token ELSE NoToken

\* save, until the file is open and empty.
Truncate(c, t) ==
    /\ file' = Blank
    /\ writers' = writers \cup {c}
    /\ saving' = [saving EXCEPT ![c] = t]
    /\ clashed' = IF writers = {} THEN clashed ELSE clashed \cup writers \cup {c}

\* The write starts at the beginning of the file; of a longer text that was
\* written since the truncation a tail remains.
Write(c) ==
    /\ file' \in IF c \notin writers THEN {file}
                 ELSE IF file = Blank THEN {Holds(saving[c])}
                 ELSE {Holds(saving[c]), Torn}
    /\ writers' = writers \ {c}
    /\ saving' = [saving EXCEPT ![c] = NoToken]
    /\ UNCHANGED clashed

\* chmod raises FileNotFoundError.
ChmodFails == file = Missing

\* clear: what is open stays open, without a name.
Clear ==
    /\ file' = Missing
    /\ writers' = {}
    /\ UNCHANGED <<saving, clashed>>
=============================================================================
