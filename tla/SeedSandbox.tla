----------------------------- MODULE SeedSandbox -----------------------------
(***************************************************************************)
(* scripts/seed_sandbox.py: copies the Customers, then the Items, of an    *)
(* export of production into the sandbox, parents first, and records what  *)
(* it copied in scripts/.seed_state.json, so that a rerun skips it.        *)
(*                                                                         *)
(* The script is one thread; what interrupts it is a fault: an answer that *)
(* is lost, a QBO that is busy, a crash between a POST and the save, or in *)
(* the middle of the save.  An operator runs it again, with any options.   *)
(*                                                                         *)
(* The sandbox (external) refuses a second record of the same name, so of  *)
(* the same record of production.                                          *)
(***************************************************************************)
EXTENDS Picks, Naturals, Sequences, FiniteSets, Functions

CONSTANTS
    Customers, Items,   \* the records of the two export files, in their order
    Parents,            \* the ParentRefs an export may hold: functions on Records
    Inactive,           \* the records whose Active is not true
    Unsupported,        \* the items whose Type is not copied
    NoAccount,          \* the items with an account the sandbox does not have
    Nobody,             \* the parent of a record without a ParentRef
    Options,            \* the command lines: [dry, kinds, limit]
    Attempts,           \* how often _post_with_retry sends (5)
    MaxRuns,            \* bound on the number of runs
    Faults              \* the faults that may happen

Export == [Customer |-> Customers, Item |-> Items]
Kinds == <<"Customer", "Item">>
Records == Range(Customers) \cup Range(Items)
Active == Records \ Inactive

\* "busy": a 429, a 5xx or the "please wait" error.  "limited": RateLimitError.
\* "refused": a validation error.  "escape": an exception nobody catches.
\* "malformed": a 200 without an Id.  "crash": the process or its disk fails.
\* "late": a POST that fails may have taken effect.
FaultKinds == {"busy", "limited", "refused", "escape", "malformed", "crash", "late"}

\* An export lists each record once.
ASSUME ExportAssumption ==
    /\ Customers \in Seq(Range(Customers)) /\ IsInjective(Customers)
    /\ Items \in Seq(Range(Items)) /\ IsInjective(Items)
    /\ Range(Customers) \cap Range(Items) = {}
    /\ Parents \subseteq [Records -> Records \cup {Nobody}]
    /\ \A f \in Parents, r \in Records :
          f[r] = Nobody \/ (f[r] \in Range(Items) <=> r \in Range(Items))
    /\ Inactive \cup Unsupported \cup NoAccount \subseteq Records
    /\ Nobody \notin Records
ASSUME BoundsAssumption ==
    /\ Options \subseteq [dry : BOOLEAN, kinds : SUBSET Range(Kinds), limit : Nat]
    /\ Attempts \in Nat \ {0} /\ MaxRuns \in Nat
    /\ Faults \subseteq FaultKinds

VARIABLES
    parent,     \* the export's ParentRefs
    sandbox,    \* the records created in the sandbox; an id is an index
    file,       \* .seed_state.json: whether it is torn, and its {prod: sandbox}
    state,      \* the script's `state`
    opts,       \* the options of the run
    passes,     \* the kinds the run still has to seed
    remaining, deferred, progress,      \* the locals of _topo_sort
    todo,       \* what is left of `ordered`
    tries,      \* the POSTs of this record that failed
    pc,         \* where the script is
    ended,      \* how the last run ended
    runs,       \* how many runs there were
    doubtful    \* ghost: records the script tried to copy and has no word of

run == <<parent, opts, passes, ended, runs>>
copies == <<sandbox, file, doubtful>>
sorting == <<remaining, deferred, progress>>
vars == <<run, copies, sorting, state, todo, tries, pc>>

NoId == 0
DryRun == 0     \* the made-up id a dry run marks a record with
NoMap == <<>>
Idle == [dry |-> TRUE, kinds |-> {}, limit |-> 0]

Init ==
    /\ parent \in Parents
    /\ sandbox = <<>>
    /\ file = [torn |-> FALSE, map |-> NoMap]
    /\ state = NoMap
    /\ opts = Idle /\ passes = <<>> /\ todo = <<>> /\ tries = 0
    /\ remaining = <<>> /\ deferred = <<>> /\ progress = FALSE
    /\ pc = "idle" /\ ended = "none" /\ runs = 0
    /\ doubtful = {}

---------------------------------------------------------------------------
(* _topo_sort: sweeps over what remains, until a sweep places nothing *)

\* A parent outside the list counts as placed: its ref is dropped later.
CanPlace(r) == parent[r] \notin Range(remaining) \cup Range(deferred)

\* Seeded bug: the records are taken in the order of the export.
PlaceMutantAsIs ==
    /\ pc = "sort" /\ remaining # <<>>
    /\ todo' = Append(todo, Head(remaining))
    /\ remaining' = Tail(remaining)
    /\ progress' = TRUE
    /\ UNCHANGED <<run, copies, state, deferred, tries, pc>>

Place ==
    /\ pc = "sort" /\ remaining # <<>>
    /\ CanPlace(Head(remaining))
    /\ todo' = Append(todo, Head(remaining))
    /\ remaining' = Tail(remaining)
    /\ progress' = TRUE
    /\ UNCHANGED <<run, copies, state, deferred, tries, pc>>

Defer ==
    /\ pc = "sort" /\ remaining # <<>>
    /\ ~CanPlace(Head(remaining))
    /\ deferred' = Append(deferred, Head(remaining))
    /\ remaining' = Tail(remaining)
    /\ UNCHANGED <<run, copies, state, progress, todo, tries, pc>>

\* Seeded bug: a sweep that places nothing is followed by another.
NextSweepMutantSpins ==
    /\ pc = "sort" /\ remaining = <<>> /\ deferred # <<>>
    /\ remaining' = deferred /\ deferred' = <<>> /\ progress' = FALSE
    /\ UNCHANGED <<run, copies, state, todo, tries, pc>>

NextSweep ==
    /\ pc = "sort" /\ remaining = <<>> /\ deferred # <<>>
    /\ progress
    /\ remaining' = deferred /\ deferred' = <<>> /\ progress' = FALSE
    /\ UNCHANGED <<run, copies, state, todo, tries, pc>>

Limit(list) == SubSeq(list, 1, IF opts.limit < Len(list) THEN opts.limit ELSE Len(list))

\* A cycle is appended as it is; --limit is applied after the sort.
Sorted ==
    /\ pc = "sort" /\ remaining = <<>>
    /\ deferred = <<>> \/ ~progress
    /\ todo' = Limit(todo \o deferred)
    /\ deferred' = <<>> /\ progress' = FALSE
    /\ pc' = "next"
    /\ UNCHANGED <<run, copies, state, remaining, tries>>

---------------------------------------------------------------------------
(* main *)

\* The script is over; what it had in memory is gone.
Stop(how) ==
    /\ pc' = "idle"
    /\ ended' = how
    /\ state' = NoMap
    /\ passes' = <<>> /\ todo' = <<>> /\ tries' = 0
    /\ remaining' = <<>> /\ deferred' = <<>> /\ progress' = FALSE

\* load_state: no file is an empty state; a torn one raises, in this and every
\* later run.
Start(o) ==
    /\ pc = "idle" /\ runs < MaxRuns
    /\ runs' = runs + 1
    /\ opts' = o
    /\ \/ /\ file.torn
          /\ Stop("stopped")
       \/ /\ ~file.torn
          /\ state' = file.map
          /\ passes' = Picked(Kinds, {i \in DOMAIN Kinds : Kinds[i] \in o.kinds})
          /\ pc' = "pass"
          /\ UNCHANGED <<sorting, ended, todo, tries>>
    /\ UNCHANGED <<copies, parent>>

ActiveOf(list) == Picked(list, {i \in DOMAIN list : list[i] \in Active})

BeginPass ==
    /\ pc = "pass" /\ passes # <<>>
    /\ remaining' = ActiveOf(Export[Head(passes)])
    /\ passes' = Tail(passes)
    /\ pc' = "sort"
    /\ UNCHANGED <<copies, parent, opts, ended, runs, state, deferred, progress, todo, tries>>

EndPass ==
    /\ pc = "next" /\ todo = <<>>
    /\ pc' = "pass"
    /\ UNCHANGED <<run, copies, sorting, state, todo, tries>>

EndRun ==
    /\ pc = "pass" /\ passes = <<>>
    /\ Stop("done")
    /\ UNCHANGED <<copies, parent, opts, runs>>

---------------------------------------------------------------------------
(* seed_customers and seed_items: one record *)

Here == Head(todo)
Known == DOMAIN state
Noted(id) == [r \in Known \cup {Here} |-> IF r = Here THEN id ELSE state[r]]

\* `continue`
NextRecord ==
    /\ todo' = Tail(todo)
    /\ pc' = "next" /\ tries' = 0
    /\ UNCHANGED <<run, sorting>>

SkipCopied ==
    /\ pc = "next" /\ todo # <<>>
    /\ Here \in Known
    /\ NextRecord
    /\ UNCHANGED <<copies, state>>

SkipItem ==
    /\ pc = "next" /\ todo # <<>>
    /\ Here \in (Unsupported \cup NoAccount) \ Known
    /\ NextRecord
    /\ UNCHANGED <<copies, state>>

Wanted == todo # <<>> /\ Here \notin Known \cup Unsupported \cup NoAccount

\* Seeded bug: the mark of a dry run is saved like the id of a copy.
MarkDryMutantSaves ==
    /\ pc = "next" /\ Wanted /\ opts.dry
    /\ state' = Noted(DryRun)
    /\ file' = [torn |-> FALSE, map |-> state']
    /\ NextRecord
    /\ UNCHANGED <<sandbox, doubtful>>

\* A dry run marks the record in memory only, for its children to find.
MarkDry ==
    /\ pc = "next" /\ Wanted /\ opts.dry
    /\ state' = Noted(DryRun)
    /\ NextRecord
    /\ UNCHANGED copies

BeginPost ==
    /\ pc = "next" /\ Wanted /\ ~opts.dry
    /\ pc' = "post"
    /\ UNCHANGED <<run, copies, sorting, state, todo, tries>>

\* The ParentRef of the payload; one that is not copied is dropped.
ParentRef(r) == IF parent[r] \in Known THEN state[parent[r]] ELSE NoId

\* The sandbox takes the record in.
Create ==
    /\ \A i \in DOMAIN sandbox : sandbox[i].of # Here
    /\ sandbox' = Append(sandbox, [of |-> Here, parent |-> ParentRef(Here)])

\* A POST that fails leaves the sandbox alone, or was late.
Effect == UNCHANGED sandbox \/ ("late" \in Faults /\ Create)

Doubt == doubtful' = doubtful \cup {Here}

\* Seeded bug: the copy is not saved.
CreatedMutantUnsaved ==
    /\ pc = "post"
    /\ Create
    /\ state' = Noted(Len(sandbox'))
    /\ doubtful' = doubtful \ {Here}
    /\ NextRecord
    /\ UNCHANGED file

Created ==
    /\ pc = "post"
    /\ Create
    /\ state' = Noted(Len(sandbox'))
    /\ doubtful' = doubtful \ {Here}
    /\ pc' = "save" /\ tries' = 0
    /\ UNCHANGED <<run, sorting, file, todo>>

\* An APIError, or a 200 without an Id, is logged and the record left out.
Logged == Doubt /\ NextRecord /\ UNCHANGED <<file, state>>

\* Seeded bug: the first record that is refused ends its pass.
RefusedMutantEndsPass ==
    /\ pc = "post"
    /\ "refused" \in Faults \/ \E i \in DOMAIN sandbox : sandbox[i].of = Here
    /\ Doubt
    /\ todo' = <<>> /\ pc' = "next" /\ tries' = 0
    /\ UNCHANGED <<run, sorting, sandbox, file, state>>

\* A validation error, such as that of a name that is taken: no retry.
Refused ==
    /\ pc = "post"
    /\ "refused" \in Faults \/ \E i \in DOMAIN sandbox : sandbox[i].of = Here
    /\ UNCHANGED sandbox
    /\ Logged

CreatedWithoutId == pc = "post" /\ "malformed" \in Faults /\ Create /\ Logged

Again == Doubt /\ tries' = tries + 1
         /\ UNCHANGED <<run, sorting, file, state, todo, pc>>

\* A transient APIError: another attempt, and after the last one it is logged.
Busy ==
    /\ pc = "post" /\ "busy" \in Faults
    /\ Effect
    /\ IF tries < Attempts - 1 THEN Again ELSE Logged

\* RateLimitError is tried again too, but after the last attempt nobody
\* catches it.
Limited ==
    /\ pc = "post" /\ "limited" \in Faults
    /\ UNCHANGED sandbox
    /\ \/ tries < Attempts - 1 /\ Again
       \/ tries = Attempts - 1 /\ Doubt /\ Stop("stopped")
          /\ UNCHANGED <<parent, opts, runs, file>>

\* An httpx, auth or token store error ends the script.
Escapes ==
    /\ pc = "post" /\ "escape" \in Faults
    /\ Effect
    /\ Doubt
    /\ Stop("stopped")
    /\ UNCHANGED <<parent, opts, runs, file>>

\* The query of the sandbox's accounts, at the start of seed_items, fails.
AccountsFail ==
    /\ pc = "pass" /\ passes # <<>> /\ Head(passes) = "Item" /\ "escape" \in Faults
    /\ Stop("stopped")
    /\ UNCHANGED <<copies, parent, opts, runs>>

\* save_state: write_text truncates the file, then writes it.
Truncate ==
    /\ pc = "save"
    /\ file' = [file EXCEPT !.torn = TRUE]
    /\ pc' = "write"
    /\ UNCHANGED <<run, sorting, sandbox, doubtful, state, todo, tries>>

Save ==
    /\ pc = "write"
    /\ file' = [torn |-> FALSE, map |-> state]
    /\ NextRecord
    /\ UNCHANGED <<sandbox, doubtful, state>>

---------------------------------------------------------------------------
(* Faults of the machine, and the operator *)

Crash ==
    /\ "crash" \in Faults
    /\ pc # "idle"
    /\ IF pc = "post" THEN Effect ELSE UNCHANGED sandbox
    /\ IF pc \in {"post", "save", "write"} THEN Doubt ELSE UNCHANGED doubtful
    /\ Stop("stopped")
    /\ UNCHANGED <<parent, opts, runs, file>>

\* The operator removes a state file that no run can read.
Discard ==
    /\ pc = "idle" /\ file.torn
    /\ file' = [torn |-> FALSE, map |-> NoMap]
    /\ doubtful' = doubtful \cup {sandbox[i].of : i \in DOMAIN sandbox}
    /\ UNCHANGED <<run, sorting, sandbox, state, todo, tries, pc>>

Script ==
    \/ BeginPass \/ Place \/ Defer \/ NextSweep \/ Sorted \/ EndPass \/ EndRun \/ AccountsFail
    \/ SkipCopied \/ SkipItem \/ MarkDry \/ BeginPost
    \/ Created \/ CreatedWithoutId \/ Refused \/ Busy \/ Limited \/ Escapes
    \/ Truncate \/ Save

Over == pc = "idle" /\ runs = MaxRuns /\ ~file.torn /\ UNCHANGED vars

Next == Script \/ (\E o \in Options : Start(o)) \/ Crash \/ Discard \/ Over

Spec == Init /\ [][Next]_vars

\* A script that runs goes on running.
FairSpec == Spec /\ WF_vars(Script)
---------------------------------------------------------------------------
(* Properties *)

\* What the state file says is true, whatever was interrupted: each id in it is
\* that of the copy of that record, never the mark of a dry run.
StateIsTrue ==
    ~file.torn => \A r \in DOMAIN file.map :
        file.map[r] \in DOMAIN sandbox /\ sandbox[file.map[r]].of = r

\* "Idempotent: reruns skip already-copied records" (seed_sandbox.py:45), but
\* for those the script has no word of: a lost answer, a missing id, a crash
\* between the POST and the end of the save, a state file that was discarded.
CopiedAgainOnlyInDoubt ==
    pc = "post" => \/ Here \in doubtful
                   \/ \A i \in DOMAIN sandbox : sandbox[i].of # Here

\* r is in, or below, a cycle of ParentRefs.
BelowCycle(r) == \E C \in SUBSET Active : r \in C /\ \A x \in C : parent[x] \in C

\* Parents come first, across passes, limits, failures and reruns: a copy keeps
\* its parent, unless the parent is not there to be copied, could not be, or
\* the ParentRefs run in a circle; and the parent it gets is its parent's copy.
OrphansExplained ==
    [][sandbox' # sandbox =>
         LET new == sandbox'[Len(sandbox')]
             p == parent[new.of]
         IN  IF new.parent # NoId THEN sandbox'[new.parent].of = p
             ELSE \/ p \in {Nobody} \cup Inactive \cup Unsupported \cup NoAccount
                  \/ p \in doubtful
                  \/ BelowCycle(new.of)]_vars

\* A whole run that ends normally has copied every record that can be copied,
\* but for those it logged as failed.
WholeRunCopiesAll ==
    pc = "idle" /\ ended = "done" /\ ~opts.dry /\ opts.kinds = Range(Kinds)
        /\ opts.limit >= Cardinality(Records) =>
      Active \ (Unsupported \cup NoAccount \cup doubtful) \subseteq DOMAIN file.map

\* A bad export does not make the script spin, nor a busy sandbox make it wait
\* for ever (_topo_sort: "a bad export shouldn't spin forever").
EveryRunEnds == pc # "idle" ~> pc = "idle"
=============================================================================
