------------------------------ MODULE Discovery ------------------------------
(***************************************************************************)
(* auth/discovery.py: Intuit's endpoint document, cached for a day, and a  *)
(* pinned one for when it cannot be fetched.  A document is the time at    *)
(* which Intuit served it, so that its age can be told.  The fetch runs    *)
(* outside the lock: fetches overlap, and finish in any order.             *)
(***************************************************************************)
EXTENDS Naturals

CONSTANTS
    Callers,    \* the threads that ask for the document
    Ttl,        \* _DISCOVERY_TTL_SECONDS
    MaxTime,    \* bound on the clock
    Outages     \* whether a fetch may fail

ASSUME DiscoveryAssumption ==
    Ttl \in Nat \ {0} /\ MaxTime \in Nat /\ Outages \in BOOLEAN

VARIABLES
    clock,      \* time.monotonic()
    cache,      \* whether a document is kept, its stamp and the document
    lookup      \* each caller: where it is, its `now`, its document, and (ghost)
                \* whether its fetch failed

discVars == <<clock, cache, lookup>>

FALLBACK == 0
NoCache == [kept |-> FALSE, stamp |-> 0, doc |-> FALLBACK]
NotAsking == [at |-> "no", now |-> 0, doc |-> FALLBACK, failed |-> FALSE]

DiscoveryInit ==
    /\ clock = 1
    /\ cache = NoCache
    /\ lookup = [c \in Callers |-> NotAsking]

\* The clock is read before the lock is waited for.
BeginLookup(c) ==
    /\ lookup[c].at = "no"
    /\ lookup' = [lookup EXCEPT ![c] = [@ EXCEPT !.at = "look", !.now = clock]]
    /\ UNCHANGED <<clock, cache>>

IsFresh(now) == cache.kept /\ now < cache.stamp + Ttl

Hit(c) ==
    /\ lookup[c].at = "look" /\ IsFresh(lookup[c].now)
    /\ lookup' = [lookup EXCEPT ![c] = [@ EXCEPT !.at = "told", !.doc = cache.doc]]
    /\ UNCHANGED <<clock, cache>>

Miss(c) ==
    /\ lookup[c].at = "look" /\ ~IsFresh(lookup[c].now)
    /\ lookup' = [lookup EXCEPT ![c].at = "fetch"]
    /\ UNCHANGED <<clock, cache>>

\* Intuit serves the document as it is now.
Fetched(c) ==
    /\ lookup[c].at = "fetch"
    /\ lookup' = [lookup EXCEPT ![c] = [@ EXCEPT !.at = "store", !.doc = clock]]
    /\ UNCHANGED <<clock, cache>>

\* An HTTP error or a body that does not parse: the pinned document, not kept.
FetchFails(c) ==
    /\ lookup[c].at = "fetch" /\ Outages
    /\ lookup' = [lookup EXCEPT ![c] = [@ EXCEPT !.at = "told", !.doc = FALLBACK, !.failed = TRUE]]
    /\ UNCHANGED <<clock, cache>>

\* Seeded bug: the stamp is the time at which the document is stored.
StoreMutantStampsLate(c) ==
    /\ lookup[c].at = "store"
    /\ cache' = [kept |-> TRUE, stamp |-> clock, doc |-> lookup[c].doc]
    /\ lookup' = [lookup EXCEPT ![c].at = "told"]
    /\ UNCHANGED clock

\* The last to finish is kept, with the time at which its call began.
Store(c) ==
    /\ lookup[c].at = "store"
    /\ cache' = [kept |-> TRUE, stamp |-> lookup[c].now, doc |-> lookup[c].doc]
    /\ lookup' = [lookup EXCEPT ![c].at = "told"]
    /\ UNCHANGED clock

\* get_discovery returns.
Told(c) ==
    /\ lookup[c].at = "told"
    /\ lookup' = [lookup EXCEPT ![c] = NotAsking]
    /\ UNCHANGED <<clock, cache>>

Tick ==
    /\ clock < MaxTime
    /\ clock' = clock + 1
    /\ UNCHANGED <<cache, lookup>>

GetDiscovery(c) == Hit(c) \/ Miss(c) \/ Fetched(c) \/ FetchFails(c) \/ Store(c)

DiscoveryNext == Tick \/ \E c \in Callers : BeginLookup(c) \/ GetDiscovery(c) \/ Told(c)

DiscoverySpec == DiscoveryInit /\ [][DiscoveryNext]_discVars
---------------------------------------------------------------------------
(* Properties *)

LookupTypeOK ==
    /\ clock \in Nat
    /\ cache \in [kept : BOOLEAN, stamp : Nat, doc : Nat]
    /\ lookup \in [Callers -> [at : {"no", "look", "fetch", "store", "told"},
                               now : Nat, doc : Nat, failed : BOOLEAN]]

\* "re-check once a day so a long-lived instance still picks up an Intuit-side
\* change" (discovery.py:25): however the fetches of concurrent calls overlap
\* and overwrite each other, a document that is returned was served less than a
\* TTL before the call began.  "Don't cache the fallback" (discovery.py:67): a
\* call is given the pinned endpoints only if its own fetch failed.
BoundedStaleness ==
    \A c \in Callers :
        lookup[c].at = "told" =>
            \/ lookup[c].doc = FALLBACK /\ lookup[c].failed
            \/ lookup[c].doc # FALLBACK /\ lookup[c].doc + Ttl > lookup[c].now
=============================================================================
