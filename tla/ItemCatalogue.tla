---------------------------- MODULE ItemCatalogue ----------------------------
(***************************************************************************)
(* The item routes (routes/items.py) over the item list that QBO keeps,    *)
(* and the paged listing that every entity shares (routes/_common.py).     *)
(*                                                                         *)
(* A write but create reads the item for its SyncToken and posts a sparse  *)
(* body.  A walk is a client that lists with a limit and follows           *)
(* next_cursor until has_more is false.  The cursor is an offset into      *)
(* whatever matches the filters when the page is asked for, and the writes *)
(* move rows into and out of that.                                         *)
(*                                                                         *)
(* QBO is external: it answers a query in the order of ids, bumps          *)
(* SyncToken on every write, refuses a stale one and a name that another   *)
(* active item has.  The resends of QBClient._request are in QBRequest.    *)
(***************************************************************************)
EXTENDS Naturals, FiniteSets

CONSTANTS
    Calls,      \* the requests other than listings
    Asks,       \* Asks[c]: what call c may ask for; a create names no item
    Ids,        \* the item ids QBO may give, in the order it gives them
    Existing,   \* the items there are at the start
    NameOf,     \* NameOf[i]: the name of existing item i
    Names,      \* the item names
    NoName,     \* an update that names no name
    QBO,        \* whoever writes outside this service
    MaxEdits,   \* bound on the writes made outside this service
    Faults,     \* the faults that may happen in a run
    Walks,      \* the clients that list
    Filters,    \* the sets of clauses they may ask for
    Starts,     \* what their first cursor may decode to; 1 for none, 0 for garbage
    Cap         \* the most rows QBO returns (MAX_PAGE_SIZE)

Ops == {"get", "create", "update", "deactivate"}
FaultKinds == {"refusal", "network", "malformed"}

\* An id that does not match the numeric pattern, or none.
Malformed == 0

Requests == [op : Ops, item : Ids \cup {Malformed}, name : Names \cup {NoName}]

ASSUME ItemAssumption ==
    /\ IsFiniteSet(Ids) /\ Ids \subseteq Nat \ {Malformed}
    /\ Existing \subseteq Ids
    /\ \A i \in Existing, j \in Ids \ Existing : i < j
    /\ NameOf \in [Existing -> Names]
    /\ Asks \in [Calls -> SUBSET Requests]
    /\ \A c \in Calls : \A r \in Asks[c] : r.op = "create" => r.item = Malformed
    /\ NoName \notin Names /\ QBO \notin Calls
    /\ MaxEdits \in Nat /\ Faults \subseteq FaultKinds
ASSUME WalkAssumption ==
    /\ Filters \subseteq SUBSET {"active", "modified"}
    /\ Cap \in Nat \ {0}
    /\ Starts \subseteq Nat

VARIABLES
    items,      \* QBO's record of each item
    ask,        \* the request of each call
    pc,         \* where each call is
    read,       \* the handler's local `item`
    body,       \* the JSON body of the call's POST
    result,     \* the answer of each call
    applied,    \* ghost: how often each call's write took effect
    edits,      \* the number of writes made outside this service
    list,       \* per walk: its clauses and its limit
    at,         \* where each walk is
    cursor,     \* per walk: the position its next request starts at
    served,     \* ghost, per walk: how often it was served each row
    stayed,     \* ghost, per walk: the rows it should see, and that never left
    left,       \* ghost, per walk: how often a row left the listing meanwhile
    joined      \* ghost, per walk: how often a row joined it

calls == <<pc, read, body, result>>
walks == <<list, at, cursor, served, stayed, left, joined>>
vars == <<items, ask, calls, applied, edits, walks>>

Op(c) == ask[c].op
Item(c) == ask[c].item
Limit(w) == list[w].limit

Absent == [exists |-> FALSE, sync |-> 0, name |-> NoName, active |-> FALSE,
           modified |-> FALSE, by |-> QBO]
NoBody == [kind |-> "none", sync |-> 0, name |-> NoName]
---------------------------------------------------------------------------
(* The listing: what matches, and where *)

\* modified: the date asked for is the start of the run.
Matches(item, clauses) ==
    /\ item.exists
    /\ "active" \in clauses => item.active
    /\ "modified" \in clauses => item.modified

Listing(w) == {i \in Ids : Matches(items[i], list[w].clauses)}
Position(i, rows) == 1 + Cardinality({j \in rows : j < i})

\* STARTPOSITION start MAXRESULTS fetch.
Query(rows, start, fetch) == {i \in rows : Position(i, rows) \in start .. start + fetch - 1}

\* Rows leave and join the listing of a walk that has begun.
Watch ==
    /\ UNCHANGED <<list, at, cursor, served>>
    /\ stayed' = [w \in Walks |-> stayed[w] \cap Listing(w)']
    /\ left' = [w \in Walks |-> left[w] +
                  IF at[w] = "next" THEN Cardinality(Listing(w) \ Listing(w)') ELSE 0]
    /\ joined' = [w \in Walks |-> joined[w] +
                  IF at[w] = "next" THEN Cardinality(Listing(w)' \ Listing(w)) ELSE 0]

\* _create_to_qbo_body: ready at once, without a SyncToken.
FirstBody(c) ==
    IF Op(c) = "create" THEN [kind |-> "create", sync |-> 0, name |-> ask[c].name]
    ELSE NoBody

Init ==
    /\ \E inactive \in SUBSET Existing :
         items = [i \in Ids |->
             IF i \in Existing
             THEN [exists |-> TRUE, sync |-> 0, name |-> NameOf[i],
                   active |-> i \notin inactive, modified |-> FALSE, by |-> QBO]
             ELSE Absent]
    /\ ask \in [Calls -> UNION {Asks[c] : c \in Calls}] /\ \A c \in Calls : ask[c] \in Asks[c]
    /\ pc = [c \in Calls |-> IF Op(c) = "create" THEN "post" ELSE "load"]
    /\ read = [c \in Calls |-> Absent]
    /\ body = [c \in Calls |-> FirstBody(c)]
    /\ result = [c \in Calls |-> "none"]
    /\ applied = [c \in Calls |-> 0]
    /\ edits = 0
    /\ at = [w \in Walks |-> "first"]
    /\ list \in [Walks -> [clauses : Filters, limit : 1 .. Cap]]
    /\ cursor \in [Walks -> Starts]
    /\ served = [w \in Walks |-> [i \in Ids |-> 0]]
    /\ stayed = [w \in Walks |-> {}]
    /\ left = [w \in Walks |-> 0]
    /\ joined = [w \in Walks |-> 0]
---------------------------------------------------------------------------
(* The read phase: get_entity_detail, _load_item_for_sparse_update *)

\* The call is answered; the handler's locals are gone.
Finish(c, r) == /\ pc' = [pc EXCEPT ![c] = "done"]
                /\ result' = [result EXCEPT ![c] = r]
                /\ read' = [read EXCEPT ![c] = Absent]
                /\ body' = [body EXCEPT ![c] = NoBody]

Reading(c) == pc[c] = "load" /\ UNCHANGED <<items, ask, applied, edits, walks>>

RejectId(c) == Reading(c) /\ Item(c) = Malformed /\ Finish(c, "invalid_param")

\* A fault, or a 200 without an Item.
LoadNotFound(c) ==
    /\ Reading(c)
    /\ Item(c) # Malformed
    /\ ~items[Item(c)].exists \/ "malformed" \in Faults
    /\ Finish(c, "not_found")

\* 503 or 429; 502, also for an item without SyncToken that is to be written; 500.
LoadFails(c) ==
    /\ Reading(c)
    /\ Item(c) # Malformed
    /\ \/ "refusal" \in Faults /\ Finish(c, "unavailable")
       \/ "refusal" \in Faults /\ Finish(c, "qbo_error")
       \/ "malformed" \in Faults /\ Op(c) # "get" /\ Finish(c, "qbo_error")
       \/ "network" \in Faults /\ Finish(c, "error")

Loaded(c) == Reading(c) /\ Item(c) # Malformed /\ items[Item(c)].exists

Get(c) == Op(c) = "get" /\ Loaded(c) /\ Finish(c, "ok")

\* The name a body names: _update_to_qbo_fields() leaves out what is not given,
\* and a deactivation has only the flag.
NameAsked(c) == IF Op(c) = "update" THEN ask[c].name ELSE NoName

\* update_item and deactivate_item: only what is asked for, and the SyncToken read.
Prepare(c) ==
    /\ Op(c) \in {"update", "deactivate"}
    /\ Loaded(c)
    /\ read' = [read EXCEPT ![c] = items[Item(c)]]
    /\ body' = [body EXCEPT ![c] = [kind |-> Op(c), sync |-> items[Item(c)].sync,
                                        name |-> NameAsked(c)]]
    /\ pc' = [pc EXCEPT ![c] = "post"]
    /\ UNCHANGED result
---------------------------------------------------------------------------
(* The write phase: create_item, _post_sparse_item *)

\* Another item than i has that name.  Inactive items free theirs.
NameTaken(name, i) ==
    name # NoName /\ \E j \in Ids \ {i} : items[j].active /\ items[j].name = name

\* What QBO makes of an item on a body: a sparse one leaves alone what it does
\* not name.
Written(b, w, item) ==
    [exists   |-> TRUE,
     sync     |-> item.sync + 1,
     name     |-> IF b.name = NoName THEN item.name ELSE b.name,
     active   |-> b.kind = "create" \/ (b.kind # "deactivate" /\ item.active),
     modified |-> TRUE,
     by       |-> w]

\* QBO gives a new item the next id.
AcceptCreate(c) ==
    /\ body[c].kind = "create"
    /\ ~NameTaken(body[c].name, Item(c))
    /\ \E i \in Ids :
         /\ ~items[i].exists
         /\ \A j \in Ids : j < i => items[j].exists
         /\ items' = [items EXCEPT ![i] = Written(body[c], c, @)]

AcceptSparse(c) ==
    /\ body[c].kind # "create"
    /\ body[c].sync = items[Item(c)].sync
    /\ items[Item(c)].active => ~NameTaken(body[c].name, Item(c))
    /\ items' = [items EXCEPT ![Item(c)] = Written(body[c], c, @)]

Accept(c) ==
    /\ pc[c] = "post"
    /\ AcceptCreate(c) \/ AcceptSparse(c)
    /\ applied' = [applied EXCEPT ![c] = @ + 1]
    /\ UNCHANGED <<ask, edits>>
    /\ Watch

\* 201 or 200.
Write(c) == Accept(c) /\ Finish(c, "ok")

\* Seeded bug: a 200 without an Item is taken for a missing item.
WriteAnsweredMalformedMutant404(c) ==
    "malformed" \in Faults /\ Accept(c) /\ Finish(c, "not_found")

\* Applied, but the 200 carries no Item, or QBO answers 5xx: 502.
WriteAnsweredMalformed(c) ==
    "malformed" \in Faults /\ Accept(c) /\ Finish(c, "qbo_error")

\* Applied, but the answer never arrives: the httpx error escapes as a 500.
WriteAnswerLost(c) == "network" \in Faults /\ Accept(c) /\ Finish(c, "error")

Refused(c, r) ==
    /\ pc[c] = "post"
    /\ Finish(c, r)
    /\ UNCHANGED <<items, ask, applied, edits, walks>>

Stale(c) ==
    /\ pc[c] = "post"
    /\ body[c].kind # "create"
    /\ body[c].sync # items[Item(c)].sync

\* Seeded bug: the handler takes the SyncToken anew and posts the same body again.
WriteStaleMutantNewToken(c) ==
    /\ Stale(c)
    /\ body' = [body EXCEPT ![c].sync = items[Item(c)].sync]
    /\ UNCHANGED <<items, ask, pc, read, result, applied, edits, walks>>

\* QBO fault 5010: 409 QBO_STALE_SYNC_TOKEN.
WriteStale(c) == Stale(c) /\ Refused(c, "stale")

\* QBO fault 6240: 409 QBO_DUPLICATE_NAME.
WriteDuplicate(c) ==
    /\ pc[c] = "post" /\ ~Stale(c)
    /\ body[c].kind # "create" => items[Item(c)].active
    /\ NameTaken(body[c].name, Item(c))
    /\ Refused(c, "duplicate")

\* A POST QBO did not apply: 503 or 429, 502, and 500 if it was lost.
WriteFails(c) ==
    \/ "refusal" \in Faults /\ (Refused(c, "unavailable") \/ Refused(c, "qbo_error"))
    \/ "network" \in Faults /\ Refused(c, "error")

\* The caller reads and applies again after a stale 409 (scope section 12).
Retry(c) ==
    /\ pc[c] = "done"
    /\ result[c] = "stale"
    /\ pc' = [pc EXCEPT ![c] = "load"]
    /\ result' = [result EXCEPT ![c] = "none"]
    /\ UNCHANGED <<items, ask, read, body, applied, edits, walks>>

\* Someone deactivates or reactivates an item in QuickBooks.
EditOutside(i) ==
    /\ edits < MaxEdits
    /\ items[i].exists
    /\ ~items[i].active => ~NameTaken(items[i].name, i)
    /\ items' = [items EXCEPT ![i] = [Written(NoBody, QBO, @) EXCEPT !.active = ~items[i].active]]
    /\ edits' = edits + 1
    /\ Watch
    /\ UNCHANGED <<ask, calls, applied>>
---------------------------------------------------------------------------
(* list_entity, decode_cursor and encode_cursor *)

FetchSize(w) == IF Limit(w) + 1 < Cap THEN Limit(w) + 1 ELSE Cap
Fetched(w) == Query(Listing(w), cursor[w], FetchSize(w))

\* What is left of the rows fetched once the probe row is trimmed.
Page(w) == Query(Listing(w), cursor[w], Limit(w))

\* Seeded bug: a full page is taken for a sign of more.
HasMoreMutantFull(w) == Cardinality(Fetched(w)) >= Limit(w)

HasMore(w) == Cardinality(Fetched(w)) > Limit(w)

\* Seeded bug: the cursor counts the probe row.
NextCursorMutantProbe(w) == cursor[w] + Cardinality(Fetched(w))

\* Seeded bug: the cursor is the position of the last row served.
NextCursorMutantLast(w) == cursor[w] + Cardinality(Page(w)) - 1

NextCursor(w) == cursor[w] + Cardinality(Page(w))

\* decode_cursor() refuses what does not decode to a position: 400.
RejectCursor(w) ==
    /\ at[w] = "first"
    /\ cursor[w] < 1
    /\ at' = [at EXCEPT ![w] = "rejected"]
    /\ UNCHANGED <<items, ask, calls, applied, edits, list, cursor, served, stayed, left, joined>>

ServePage(w) ==
    /\ at[w] \in {"first", "next"}
    /\ cursor[w] >= 1
    /\ served' = [served EXCEPT ![w] =
                    [i \in Ids |-> @[i] + IF i \in Page(w) THEN 1 ELSE 0]]
    /\ stayed' = [stayed EXCEPT ![w] =
                    IF at[w] = "next" THEN @
                    ELSE {i \in Listing(w) : Position(i, Listing(w)) >= cursor[w]}]
    /\ IF HasMore(w)
       THEN /\ at' = [at EXCEPT ![w] = "next"]
            /\ cursor' = [cursor EXCEPT ![w] = NextCursor(w)]
       ELSE at' = [at EXCEPT ![w] = "done"] /\ UNCHANGED cursor
    /\ UNCHANGED <<items, ask, calls, applied, edits, list, left, joined>>

\* An error; the client may ask again with its cursor, or give up.
PageFails(w) ==
    /\ Faults # {}
    /\ at[w] \in {"first", "next"}
    /\ at' = [at EXCEPT ![w] = "gave_up"]
    /\ UNCHANGED <<items, ask, calls, applied, edits, list, cursor, served, stayed, left, joined>>
---------------------------------------------------------------------------
Step(c) ==
    \/ RejectId(c) \/ LoadNotFound(c) \/ LoadFails(c) \/ Get(c) \/ Prepare(c)
    \/ Write(c) \/ WriteAnsweredMalformed(c) \/ WriteAnswerLost(c)
    \/ WriteStale(c) \/ WriteDuplicate(c) \/ WriteFails(c) \/ Retry(c)

WalkStep(w) == RejectCursor(w) \/ ServePage(w) \/ PageFails(w)

AllDone ==
    /\ \A c \in Calls : pc[c] = "done"
    /\ \A w \in Walks : at[w] \notin {"first", "next"}
    /\ UNCHANGED vars

Next ==
    \/ \E c \in Calls : Step(c)
    \/ \E w \in Walks : WalkStep(w)
    \/ \E i \in Ids : EditOutside(i)
    \/ AllDone

Spec == Init /\ [][Next]_vars
---------------------------------------------------------------------------
(* Properties *)

Items == [exists : BOOLEAN, sync : Nat, name : Names \cup {NoName}, active : BOOLEAN,
          modified : BOOLEAN, by : Calls \cup {QBO}]
Results == {"none", "ok", "invalid_param", "not_found", "stale", "duplicate",
            "unavailable", "qbo_error", "error"}

\* Every variable has its type; a walk is never sent past the last row there
\* could be.
TypeOK ==
    /\ items \in [Ids -> Items]
    /\ \A c \in Calls : ask[c] \in Asks[c]
    /\ \A w \in Walks : list[w].clauses \in Filters /\ Limit(w) \in 1 .. Cap
    /\ pc \in [Calls -> {"load", "post", "done"}]
    /\ read \in [Calls -> Items]
    /\ body \in [Calls -> [kind : {"none", "create", "update", "deactivate"},
                           sync : Nat, name : Names \cup {NoName}]]
    /\ result \in [Calls -> Results]
    /\ applied \in [Calls -> Nat]
    /\ edits \in 0 .. MaxEdits
    /\ at \in [Walks -> {"first", "next", "done", "rejected", "gave_up"}]
    /\ \A w \in Walks :
         at[w] = "next" => cursor[w] \in 1 .. Cardinality({i \in Ids : items[i].exists})
    /\ served \in [Walks -> [Ids -> Nat]]
    /\ stayed \in [Walks -> SUBSET Ids]
    /\ left \in [Walks -> Nat]
    /\ joined \in [Walks -> Nat]

\* "SyncToken gives optimistic concurrency" (scope section 12): an update or a
\* deactivation only takes effect on the item its caller's read returned.
NoLostUpdate ==
    [][\A c \in Calls :
         applied'[c] # applied[c] /\ Op(c) # "create" => items[Item(c)] = read[c]]_vars

\* Answers that say the write was refused; a 502 or a 500 says nothing.
Refusals == {"invalid_param", "not_found", "stale", "duplicate", "unavailable"}

\* A 200 or 201 to a write means that it took effect once, a 4xx or a 503 that
\* it did not, over all the attempts of a caller that retries its stale 409s.
AnswersAreTrue ==
    \A c \in Calls :
        /\ result[c] = "ok" => applied[c] = IF Op(c) = "get" THEN 0 ELSE 1
        /\ result[c] \in Refusals => applied[c] = 0

\* A finished walk below QBO's cap ("Callers needing exact boundary detection
\* should page with a smaller window", _common.py:117) missed no more of the
\* rows that were there all along than rows left the listing before its end.
SkipsAreDepartures ==
    \A w \in Walks : at[w] = "done" /\ Limit(w) < Cap =>
        Cardinality({i \in stayed[w] : served[w][i] = 0}) <= left[w]

\* A walk is served a row again (the offset of list_entity() counts rows, not
\* ids) for no other reason than a row that joined the listing before it.
RepeatsAreArrivals ==
    \A w \in Walks :
        /\ Cardinality({i \in Ids : served[w][i] > 1}) <= joined[w]
        /\ \A i \in Ids : served[w][i] <= 1 + joined[w]
=============================================================================
