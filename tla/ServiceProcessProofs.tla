------------------------- MODULE ServiceProcessProofs -------------------------
(***************************************************************************)
(* Theorems about one process of the service: for all settings, requests,  *)
(* numbers of requests, and any TTL.                                       *)
(*                                                                         *)
(* The process implements the discovery cache, whose invariant is proved   *)
(* of the cache alone; the edge has an invariant of its own; and the       *)
(* handlers have one that says who may have the token file open.           *)
(***************************************************************************)
EXTENDS ServiceProcess, TLAPS

---------------------------------------------------------------------------
(* The discovery cache *)

\* The stamp is not younger than the document, nor is a caller's `now`.
CacheInv ==
    /\ LookupTypeOK
    /\ cache.kept => cache.stamp <= cache.doc /\ cache.doc # FALLBACK
    /\ clock > 0
    /\ \A c \in Callers :
          /\ lookup[c].at # "no" => lookup[c].now <= clock
          /\ lookup[c].at = "store" => lookup[c].now <= lookup[c].doc
                                       /\ lookup[c].doc # FALLBACK
    /\ BoundedStaleness

LEMMA DiscoveryInitInv == DiscoveryInit => CacheInv
  BY DiscoveryAssumption, SMT
  DEF DiscoveryInit, CacheInv, LookupTypeOK, NoCache, NotAsking, FALLBACK, BoundedStaleness

Places == {"no", "look", "fetch", "store", "told"}
Lookups == [at : Places, now : Nat, doc : Nat, failed : BOOLEAN]

\* The records a caller's record may become.
Moved(r, p) == [r EXCEPT !.at = p]
Begun(r, n) == [r EXCEPT !.at = "look", !.now = n]
Read(r, p, d) == [r EXCEPT !.at = p, !.doc = d]
Failed(r) == [r EXCEPT !.at = "told", !.doc = FALLBACK, !.failed = TRUE]

LEMMA LookupMoves ==
    ASSUME NEW r \in Lookups, NEW p \in Places
    PROVE  /\ Moved(r, p) \in Lookups
           /\ Moved(r, p).at = p
           /\ Moved(r, p).now = r.now
           /\ Moved(r, p).doc = r.doc
           /\ Moved(r, p).failed = r.failed
  BY DEF Lookups, Moved

LEMMA LookupBegins ==
    ASSUME NEW r \in Lookups, NEW n \in Nat
    PROVE  /\ Begun(r, n) \in Lookups
           /\ Begun(r, n).at = "look"
           /\ Begun(r, n).now = n
  BY DEF Lookups, Begun, Places

LEMMA LookupReads ==
    ASSUME NEW r \in Lookups, NEW p \in Places, NEW d \in Nat
    PROVE  /\ Read(r, p, d) \in Lookups
           /\ Read(r, p, d).at = p
           /\ Read(r, p, d).now = r.now
           /\ Read(r, p, d).doc = d
  BY DEF Lookups, Read

LEMMA LookupFails ==
    ASSUME NEW r \in Lookups
    PROVE  /\ Failed(r) \in Lookups
           /\ Failed(r).at = "told"
           /\ Failed(r).now = r.now
           /\ Failed(r).doc = FALLBACK
           /\ Failed(r).failed
  BY DEF Lookups, Failed, Places, FALLBACK

LEMMA DiscoveryStepInv ==
    ASSUME CacheInv, [DiscoveryNext]_discVars
    PROVE  CacheInv'
  <1> USE DiscoveryAssumption DEF FALLBACK
  <1>t. lookup \in [Callers -> Lookups] /\ clock \in Nat
        /\ cache \in [kept : BOOLEAN, stamp : Nat, doc : Nat]
    BY DEF CacheInv, LookupTypeOK, Lookups, Places
  <1>r. clock \in Nat /\ cache.doc \in Nat /\ \A c \in Callers : lookup[c] \in Lookups
    BY <1>t
  <1>p. "look" \in Places /\ "fetch" \in Places /\ "store" \in Places /\ "told" \in Places
    BY DEF Places
  \* A step of one caller: its record becomes r.
  <1>u. ASSUME NEW c \in Callers, NEW r \in Lookups, lookup' = [lookup EXCEPT ![c] = r],
               UNCHANGED clock, LookupTypeOK',
               cache'.kept => cache'.stamp <= cache'.doc /\ cache'.doc # FALLBACK,
               r.at # "no" => r.now <= clock,
               r.at = "store" => r.now <= r.doc /\ r.doc # FALLBACK,
               r.at = "told" /\ r.doc # FALLBACK => r.doc + Ttl > r.now,
               r.at = "told" /\ r.doc = FALLBACK => r.failed
        PROVE  CacheInv'
    <2>1. lookup'[c] = r /\ \A d \in Callers : d # c => lookup'[d] = lookup[d]
      BY <1>t, <1>u
    <2> QED BY <2>1, <1>u DEF CacheInv, BoundedStaleness
  <1>v. ASSUME NEW c \in Callers, NEW r \in Lookups, lookup' = [lookup EXCEPT ![c] = r],
               UNCHANGED <<clock, cache>>
        PROVE  LookupTypeOK'
    BY <1>t, <1>v DEF LookupTypeOK, Lookups, Places
  <1>1. ASSUME NEW c \in Callers, BeginLookup(c) PROVE CacheInv'
    <2> DEFINE r == Begun(lookup[c], clock)
    <2>1. r \in Lookups /\ r.at = "look" /\ r.now = clock
      BY <1>r, <1>p, LookupBegins
    <2>2. lookup' = [lookup EXCEPT ![c] = r] /\ UNCHANGED <<clock, cache>>
      BY <1>1 DEF BeginLookup, Begun
    <2>3. r.now <= clock
      BY <1>t, <2>1
    <2> HIDE DEF r
    <2> QED BY <2>1, <2>2, <2>3, <1>u, <1>v DEF CacheInv
  <1>2. ASSUME NEW c \in Callers, Hit(c) PROVE CacheInv'
    <2> DEFINE r == Read(lookup[c], "told", cache.doc)
    <2>1. lookup[c] \in Lookups /\ cache.doc \in Nat /\ "told" \in Places
      BY <1>r, <1>p
    <2>2. r \in Lookups /\ r.at = "told" /\ r.now = lookup[c].now /\ r.doc = cache.doc
      BY <2>1, LookupReads
    <2>3. lookup' = [lookup EXCEPT ![c] = r] /\ UNCHANGED <<clock, cache>>
      BY <1>2 DEF Hit, Read
    <2>4. cache.kept /\ lookup[c].at = "look" /\ lookup[c].now < cache.stamp + Ttl
      BY <1>2 DEF Hit, IsFresh
    <2> HIDE DEF r
    <2>5. r.now <= clock
      BY <2>2, <2>4 DEF CacheInv
    <2>6. r.doc # FALLBACK /\ r.doc + Ttl > r.now
      BY <2>2, <2>4, <1>t, SMT DEF CacheInv, Lookups
    <2> QED BY <2>2, <2>3, <2>5, <2>6, <1>u, <1>v DEF CacheInv
  <1>3. ASSUME NEW c \in Callers, Miss(c) PROVE CacheInv'
    <2> DEFINE r == Moved(lookup[c], "fetch")
    <2>1. r \in Lookups /\ r.at = "fetch" /\ r.now = lookup[c].now
      BY <1>r, <1>p, LookupMoves
    <2>2. lookup' = [lookup EXCEPT ![c] = r] /\ UNCHANGED <<clock, cache>> /\ lookup[c].at = "look"
      BY <1>3 DEF Miss, Moved
    <2> HIDE DEF r
    <2> QED BY <2>1, <2>2, <1>u, <1>v DEF CacheInv
  <1>4. ASSUME NEW c \in Callers, Fetched(c) PROVE CacheInv'
    <2> DEFINE r == Read(lookup[c], "store", clock)
    <2>1. r \in Lookups /\ r.at = "store" /\ r.now = lookup[c].now /\ r.doc = clock
      BY <1>r, <1>p, LookupReads
    <2>2. lookup' = [lookup EXCEPT ![c] = r] /\ UNCHANGED <<clock, cache>> /\ lookup[c].at = "fetch"
      BY <1>4 DEF Fetched, Read
    <2>3. lookup[c].now <= clock /\ clock # FALLBACK
      BY <2>2, SMT DEF CacheInv, LookupTypeOK
    <2> HIDE DEF r
    <2> QED BY <2>1, <2>2, <2>3, <1>u, <1>v DEF CacheInv
  <1>5. ASSUME NEW c \in Callers, FetchFails(c) PROVE CacheInv'
    <2> DEFINE r == Failed(lookup[c])
    <2>1. r \in Lookups /\ r.at = "told" /\ r.now = lookup[c].now /\ r.doc = FALLBACK /\ r.failed
      BY <1>r, <1>p, LookupFails
    <2>2. lookup' = [lookup EXCEPT ![c] = r] /\ UNCHANGED <<clock, cache>> /\ lookup[c].at = "fetch"
      BY <1>5 DEF FetchFails, Failed
    <2> HIDE DEF r
    <2> QED BY <2>1, <2>2, <1>u, <1>v DEF CacheInv
  <1>6. ASSUME NEW c \in Callers, Store(c) PROVE CacheInv'
    <2> DEFINE r == Moved(lookup[c], "told")
    <2>1. r \in Lookups /\ r.at = "told" /\ r.now = lookup[c].now /\ r.doc = lookup[c].doc
      BY <1>r, <1>p, LookupMoves
    <2>2. lookup' = [lookup EXCEPT ![c] = r] /\ UNCHANGED clock /\ lookup[c].at = "store"
          /\ cache' = [kept |-> TRUE, stamp |-> lookup[c].now, doc |-> lookup[c].doc]
      BY <1>6 DEF Store, Moved
    <2> HIDE DEF r
    <2>3. r.now \in Nat /\ r.doc \in Nat /\ r.now <= r.doc /\ r.doc # FALLBACK /\ r.now <= clock
      BY <2>1, <2>2 DEF CacheInv, Lookups
    <2>4. r.doc + Ttl > r.now
      BY <2>3, SMT
    <2>5. LookupTypeOK'
      BY <2>1, <2>2, <2>3, <1>t DEF LookupTypeOK, Lookups, Places
    <2> QED BY <2>1, <2>2, <2>3, <2>4, <2>5, <1>u
  <1>7. ASSUME NEW c \in Callers, Told(c) PROVE CacheInv'
    <2>1. NotAsking \in Lookups /\ NotAsking.at = "no"
      BY DEF NotAsking, Lookups, Places
    <2>2. lookup' = [lookup EXCEPT ![c] = NotAsking] /\ UNCHANGED <<clock, cache>>
      BY <1>7 DEF Told
    <2> QED BY <2>1, <2>2, <1>u, <1>v DEF CacheInv
  <1>8. CASE Tick
    BY <1>8, SMT DEF Tick, CacheInv, LookupTypeOK, BoundedStaleness
  <1>9. CASE UNCHANGED discVars
    BY <1>9 DEF discVars, CacheInv, LookupTypeOK, BoundedStaleness
  <1> QED BY <1>1, <1>2, <1>3, <1>4, <1>5, <1>6, <1>7, <1>8, <1>9 DEF DiscoveryNext, GetDiscovery

\* The cache alone: for any callers, TTL and order of fetches.
THEOREM CacheIsNeverStale == DiscoverySpec => []BoundedStaleness
  <1>1. CacheInv => BoundedStaleness
    BY DEF CacheInv
  <1> QED BY <1>1, DiscoveryInitInv, DiscoveryStepInv, PTL DEF DiscoverySpec

\* Arriving requests are requests.
Incoming == Arriving \subseteq Requests

\* What a step of the process does to the cache is a step of the cache.
LEMMA StepOfDiscovery ==
    ASSUME Incoming, [Next]_vars
    PROVE  [DiscoveryNext]_discVars
  <1> USE ThreadsAssumption
  <1>1. CASE BootUp \/ Over \/ UNCHANGED vars
    BY <1>1 DEF BootUp, Over, vars, discVars
  <1>2. CASE TimePasses
    BY <1>2 DEF TimePasses, DiscoveryNext
  <1>3. ASSUME NEW c \in Arriving, Serve(c) PROVE [DiscoveryNext]_discVars
    <2>1. c \in Callers
      BY DEF Incoming
    <2>2. CASE UNCHANGED discVars
      BY <2>2
    <2>3. CASE GetDiscovery(c) \/ BeginLookup(c) \/ Told(c)
      BY <2>1, <2>3 DEF DiscoveryNext
    <2>4. UNCHANGED discVars \/ GetDiscovery(c) \/ BeginLookup(c) \/ Told(c)
      BY <1>3 DEF Serve, Handle, Health, Confirm, Declined, StartOrCallbackAsks, StartRedirects, Load,
                  Lock, Reload, Exchange, ExchangeFails, SaveOpens, SaveWrites, SaveEnds,
                  NothingToDisconnect, DisconnectAsks, Revoke, RevokeFails, Disconnected,
                  Queries
    <2> QED BY <2>2, <2>3, <2>4
  <1> QED BY <1>1, <1>2, <1>3 DEF Next

\* And what it does to the edge is a step of the edge.
EdgeStep(c) ==
    Enter(c) \/ Admit(c) \/ Exit(c) \/ Raise(c) \/ \E s \in {200, 302, 400, 500, 502, 503} : Respond(c, s)

LEMMA StepOfEdge ==
    ASSUME [Next]_vars
    PROVE  Boot \/ UNCHANGED edgeVars \/ \E c \in Arriving : EdgeStep(c)
  <1>1. CASE BootUp
    BY <1>1 DEF BootUp
  <1>2. CASE TimePasses \/ Over \/ UNCHANGED vars
    BY <1>2 DEF TimePasses, Over, vars
  <1>3. ASSUME NEW c \in Arriving, Serve(c) PROVE EdgeStep(c) \/ UNCHANGED edgeVars
    BY <1>3
    DEF EdgeStep, Serve, Handle, Health, Confirm, Declined, StartOrCallbackAsks, StartRedirects, Load,
        Lock, Reload, Exchange, ExchangeFails, SaveOpens, SaveWrites, SaveEnds,
        NothingToDisconnect, DisconnectAsks, Revoke, RevokeFails, Disconnected, Ends, Escapes
  <1> QED BY <1>1, <1>2, <1>3 DEF Next

\* Which requests arrive does not change.
LEMMA IncomingStays == Incoming /\ [Next]_vars => Incoming' /\ UNCHANGED settled
  <1> SUFFICES ASSUME Incoming, [Next]_vars PROVE UNCHANGED settled
    BY DEF Incoming, Arriving, settled
  <1>1. CASE Boot \/ UNCHANGED edgeVars
    BY <1>1 DEF Boot, edgeVars
  <1>2. ASSUME NEW c \in Arriving, EdgeStep(c) PROVE UNCHANGED settled
    BY <1>2 DEF EdgeStep, Enter, Forbid, NotFound, LaunchDenied, Admit, Arrive, Exit, BreakOff,
                InternalError, Leave, LeaveRaising, Log, Raise, Respond
  <1> QED BY <1>1, <1>2, StepOfEdge

LEMMA InitIncoming == Init => Incoming
  BY ScenariosAssumption DEF Init, EdgeInit, Incoming, Arriving

\* The process drives the cache only as the cache allows.
THEOREM ProcessImplementsDiscovery == Spec => DiscoverySpec
  <1>1. Init => DiscoveryInit
    BY DEF Init
  <1> QED BY <1>1, InitIncoming, IncomingStays, StepOfDiscovery, PTL DEF Spec, DiscoverySpec

\* get_discovery: a document that a handler is given was served less than a TTL
\* before it asked, however the fetches of the others overlap; and the pinned
\* endpoints are given only to a call whose own fetch failed.
THEOREM DocumentsAreFresh == Spec => []BoundedStaleness
  BY ProcessImplementsDiscovery, CacheIsNeverStale, PTL
---------------------------------------------------------------------------
(* The edge *)

Ids == {"none", "supplied", "minted"}

EdgeShape ==
    /\ bound \in [Requests -> Ids] /\ DOMAIN at = Requests /\ DOMAIN holder = Requests
    /\ DOMAIN answer = Requests /\ DOMAIN logs = Requests

\* What is settled about a request, wherever it is.
RequestOK(c) ==
    /\ at[c] = "client" => bound[c] = "none" /\ answer[c] = Nothing
    /\ at[c] = "handler" =>
          phase = "up" /\ ~Forbidden(c) /\ Served(c) /\ Launched(c) /\ answer[c] = Nothing
    /\ at[c] \in {"handler", "raised", "leaving"} => bound[c] = ResolvedId(c)
    /\ at[c] # "done" => logs[c] = <<>>
    /\ at[c] = "leaving" => answer[c] # Nothing
    /\ at[c] \in {"raised", "leaving"} /\ answer[c] # Nothing => holder[c] = answer[c].status
    /\ at[c] = "done" => logs[c] = <<answer[c].status>>
    /\ answer[c] # Nothing => answer[c].id = ResolvedId(c)
    /\ at[c] \in {"client", "handler", "raised", "leaving", "done"}

EdgeInv ==
    /\ Incoming /\ EdgeShape
    /\ phase = "up" => ~GateMissing
    /\ \A c \in Arriving : RequestOK(c)

\* RequestIDMiddleware encloses the layers that answer.
LEMMA IdEncloses ==
    ASSUME NEW c
    PROVE  /\ "RequestID" \in Enclosing("AdminGate") /\ "RequestID" \in Enclosing("Routes")
           /\ IdAt(c, "AdminGate") = ResolvedId(c) /\ IdAt(c, "Routes") = ResolvedId(c)
  <1>1. DOMAIN Stack = 1 .. 3 /\ Stack[1] = "RequestID"
    BY DEF Stack
  <1>2. \A layer : layer # "RequestID" => "RequestID" \in Enclosing(layer)
    <2>1. ASSUME NEW layer, layer # "RequestID" PROVE "RequestID" \in Enclosing(layer)
      <3>1. \A k \in 1 .. 1 : Stack[k] # layer
        BY <1>1, <2>1
      <3> QED BY <1>1, <3>1 DEF Enclosing
    <2> QED BY <2>1
  <1> QED BY <1>2 DEF IdAt

\* A layer inside RequestIDMiddleware starts the response.
Starts(c, s) ==
    /\ answer' = [answer EXCEPT ![c] = [status |-> s, id |-> ResolvedId(c)]]
    /\ holder' = [holder EXCEPT ![c] = s]
    /\ at' = [at EXCEPT ![c] = "leaving"]
    /\ bound' = [bound EXCEPT ![c] = ResolvedId(c)]
    /\ UNCHANGED <<phase, logs>>

LEMMA EdgeInitInv == Init => EdgeInv
  BY InitIncoming DEF Init, EdgeInit, EdgeInv, EdgeShape, Ids, RequestOK, Arriving, Nothing, Incoming

LEMMA EdgeStepInv ==
    ASSUME EdgeInv, [Next]_vars
    PROVE  EdgeInv'
  <1>i. Incoming' /\ UNCHANGED settled
    BY IncomingStays DEF EdgeInv
  <1>s. /\ Arriving' = Arriving /\ Arriving \subseteq Requests
        /\ \A c : ResolvedId(c)' = ResolvedId(c)
        /\ \A c : Forbidden(c)' = Forbidden(c)
        /\ \A c : Served(c)' = Served(c)
        /\ \A c : Launched(c)' = Launched(c)
        /\ GateMissing' = GateMissing
    BY <1>i DEF settled, Arriving, ResolvedId, Forbidden, Email, Allowlist, Served, Launched,
                Presented, GateMissing, EdgeInv, Incoming
  <1>d. "none" \in Ids /\ \A c : ResolvedId(c) \in Ids \ {"none"}
    BY DEF Ids, ResolvedId
  \* A step of one request.
  <1>u. ASSUME NEW c \in Arriving, EdgeShape', UNCHANGED phase, RequestOK(c)',
               \A d \in Arriving \ {c} :
                  /\ at'[d] = at[d] /\ bound'[d] = bound[d] /\ holder'[d] = holder[d]
                  /\ answer'[d] = answer[d] /\ logs'[d] = logs[d]
        PROVE  EdgeInv'
    <2>1. \A d \in Arriving \ {c} : RequestOK(d)'
      BY <1>u, <1>s DEF EdgeInv, RequestOK
    <2> QED BY <2>1, <1>u, <1>i, <1>s DEF EdgeInv
  <1>1. CASE Boot
    <2>1. EdgeShape' /\ (phase' = "up" => ~GateMissing')
      BY <1>1, <1>s DEF Boot, EdgeInv, EdgeShape
    <2>2. \A c \in Arriving : RequestOK(c)'
      BY <1>1, <1>s DEF Boot, EdgeInv, RequestOK
    <2> QED BY <2>1, <2>2, <1>i, <1>s DEF EdgeInv
  <1>2. CASE UNCHANGED edgeVars
    <2>1. \A c \in Arriving : RequestOK(c)'
      BY <1>2, <1>s DEF edgeVars, EdgeInv, RequestOK
    <2> QED BY <2>1, <1>2, <1>i, <1>s DEF edgeVars, EdgeInv, EdgeShape
  <1>3. ASSUME NEW c \in Arriving, NEW s \in Nat \ {0}, logs[c] = <<>>, Starts(c, s)
        PROVE  EdgeInv'
    <2>2. EdgeShape'
      BY <1>d, <1>3 DEF Starts, EdgeInv, EdgeShape
    <2>3. /\ answer'[c] = [status |-> s, id |-> ResolvedId(c)] /\ holder'[c] = s
          /\ at'[c] = "leaving" /\ bound'[c] = ResolvedId(c) /\ logs'[c] = <<>>
      BY <1>3, <1>s DEF Starts, EdgeInv, EdgeShape
    <2>4. answer'[c] # Nothing
      BY <2>3 DEF Nothing
    <2>5. RequestOK(c)'
      BY <2>3, <2>4, <1>s DEF RequestOK
    <2> QED BY <2>2, <2>5, <1>3, <1>u DEF Starts, EdgeInv, EdgeShape
  <1>4. ASSUME NEW c \in Arriving, Enter(c) PROVE EdgeInv'
    <2>1. logs[c] = <<>>
      BY <1>4 DEF Enter, Forbid, NotFound, LaunchDenied, Arrive, EdgeInv, RequestOK
    <2>2. CASE Forbid(c)
      <3>1. Starts(c, 403)
        BY <2>2, IdEncloses DEF Forbid, Arrive, StartResponse, Starts
      <3> QED BY <2>1, <3>1, <1>3
    <2>3. CASE NotFound(c)
      <3>1. Starts(c, 404)
        BY <2>3, IdEncloses DEF NotFound, Arrive, StartResponse, Starts
      <3> QED BY <2>1, <3>1, <1>3
    <2>4. CASE LaunchDenied(c)
      <3>1. Starts(c, 403)
        BY <2>4, IdEncloses DEF LaunchDenied, Arrive, StartResponse, Starts
      <3> QED BY <2>1, <3>1, <1>3
    <2> QED BY <1>4, <2>2, <2>3, <2>4 DEF Enter
  <1>5. ASSUME NEW c \in Arriving, Admit(c) PROVE EdgeInv'
    <2>1. /\ phase = "up" /\ at[c] = "client" /\ ~Forbidden(c) /\ Served(c) /\ Launched(c)
          /\ bound' = [bound EXCEPT ![c] = ResolvedId(c)] /\ at' = [at EXCEPT ![c] = "handler"]
          /\ UNCHANGED <<phase, logs, holder, answer>>
      BY <1>5, IdEncloses DEF Admit, Arrive
    <2>2. EdgeShape' /\ at'[c] = "handler" /\ bound'[c] = ResolvedId(c)
      BY <2>1, <1>s, <1>d DEF EdgeInv, EdgeShape
    <2>3. RequestOK(c)'
      BY <2>1, <2>2, <1>s DEF RequestOK, EdgeInv
    <2> QED BY <2>1, <2>2, <2>3, <1>u DEF EdgeInv, EdgeShape
  <1>6. ASSUME NEW c \in Arriving, NEW s \in {200, 302, 400, 500, 502, 503}, Respond(c, s) PROVE EdgeInv'
    <2>1. logs[c] = <<>> /\ bound[c] = ResolvedId(c)
      BY <1>6 DEF Respond, EdgeInv, RequestOK
    <2>2. bound' = [bound EXCEPT ![c] = ResolvedId(c)]
      BY <2>1, <1>6, <1>s DEF Respond, EdgeInv, EdgeShape
    <2>3. Starts(c, s)
      BY <1>6, <2>2, IdEncloses DEF Respond, StartResponse, Starts
    <2> QED BY <2>1, <2>3, <1>3
  <1>7. ASSUME NEW c \in Arriving, Raise(c) \/ BreakOff(c) PROVE EdgeInv'
    <2>1. /\ at' = [at EXCEPT ![c] = "raised"] /\ at[c] \in {"handler", "leaving"}
          /\ UNCHANGED <<phase, bound, holder, answer, logs>>
      BY <1>7 DEF Raise, BreakOff
    <2>2. EdgeShape' /\ at'[c] = "raised"
      BY <2>1, <1>s DEF EdgeInv, EdgeShape
    <2>3. RequestOK(c)'
      BY <2>1, <2>2, <1>s DEF RequestOK, EdgeInv
    <2> QED BY <2>1, <2>2, <2>3, <1>u DEF EdgeInv, EdgeShape
  <1>8. ASSUME NEW c \in Arriving, InternalError(c) PROVE EdgeInv'
    <2>1. bound[c] = ResolvedId(c) /\ logs[c] = <<>>
      BY <1>8 DEF InternalError, EdgeInv, RequestOK
    <2>2. /\ EdgeShape' /\ at'[c] = "leaving" /\ holder'[c] = 500
          /\ answer'[c] = [status |-> 500, id |-> ResolvedId(c)]
      BY <2>1, <1>8, <1>s DEF InternalError, EdgeInv, EdgeShape
    <2>3. RequestOK(c)'
      BY <2>1, <2>2, <1>8, <1>s DEF RequestOK, InternalError, Nothing
    <2> QED BY <2>2, <2>3, <1>8, <1>u DEF InternalError, EdgeInv, EdgeShape
  <1>9. ASSUME NEW c \in Arriving, Leave(c) \/ LeaveRaising(c) PROVE EdgeInv'
    <2>1. /\ at[c] \in {"leaving", "raised"} /\ answer[c] # Nothing
          /\ logs[c] = <<>> /\ bound[c] = ResolvedId(c) /\ holder[c] = answer[c].status
      BY <1>9 DEF Leave, LeaveRaising, EdgeInv, RequestOK
    <2>2. /\ at' = [at EXCEPT ![c] = "done"] /\ bound' = [bound EXCEPT ![c] = "none"]
          /\ logs' = [logs EXCEPT ![c] = <<answer[c].status>>]
          /\ UNCHANGED <<phase, holder, answer>>
      <3>1. Append(<<>>, holder[c]) = <<answer[c].status>>
        BY <2>1
      <3> QED BY <1>9, <2>1, <1>d, <3>1 DEF Leave, LeaveRaising, Log
    <2>3. EdgeShape' /\ at'[c] = "done" /\ logs'[c] = <<answer[c].status>>
      BY <2>2, <1>s, <1>d DEF EdgeInv, EdgeShape
    <2>4. RequestOK(c)'
      BY <2>2, <2>3, <1>s DEF RequestOK, EdgeInv
    <2> QED BY <2>2, <2>3, <2>4, <1>u DEF EdgeInv, EdgeShape
  <1> QED BY <1>1, <1>2, <1>4, <1>5, <1>6, <1>7, <1>8, <1>9, StepOfEdge DEF EdgeStep, Exit

LEMMA EdgeInvHolds == Spec => []EdgeInv
  BY EdgeInitInv, EdgeStepInv, PTL DEF Spec

\* ensure_admin_gate_configured, the allowlist gate and the launch gate together
\* leave no admin handler open on Cloud Run, for any settings and requests.
THEOREM NoOpenAdminAtAll == Spec => []NoOpenAdmin
  <1>1. EdgeInv => NoOpenAdmin
    <2> SUFFICES ASSUME EdgeInv, NEW c \in Arriving, config.cloudRun, at[c] = "handler",
                        incoming[c].path \in AdminRoutes
                 PROVE  \/ Email(c) = "listed" /\ config.allowlist = "listed"
                        \/ config.secret /\ (Presented(c) = "valid" \/ incoming[c].path = "callback")
      BY DEF NoOpenAdmin
    <2>1. ~GateMissing /\ ~Forbidden(c) /\ Served(c) /\ Launched(c)
      BY DEF EdgeInv, RequestOK
    <2> QED BY <2>1 DEF GateMissing, Forbidden, Served, Launched, AdminRoutes, AdminPaths,
                        Allowlist
  <1> QED BY <1>1, EdgeInvHolds, PTL

\* RequestIDMiddleware stamps every answer, whichever layer gives it.
THEOREM AnswersCarryTheirIds == Spec => []EveryAnswerCarriesItsId
  <1>1. EdgeInv => EveryAnswerCarriesItsId
    BY DEF EdgeInv, RequestOK, EveryAnswerCarriesItsId
  <1> QED BY <1>1, EdgeInvHolds, PTL

\* Its access log says what the client was sent, however the handler ended.
THEOREM LogsAreTrue == Spec => []LogTellsTheTruth
  <1>1. EdgeInv => LogTellsTheTruth
    BY DEF EdgeInv, RequestOK, LogTellsTheTruth
  <1> QED BY <1>1, EdgeInvHolds, PTL
---------------------------------------------------------------------------
(* The token file *)

Issued == Nat \ {0}

FileShape ==
    /\ DOMAIN pc = Requests /\ DOMAIN hand = Requests /\ DOMAIN saving = Requests
    /\ minted \in Issued
    /\ file \in {Missing, Blank, Torn} \cup {Holds(t) : t \in Issued}
    /\ writers \subseteq Arriving /\ clashed \subseteq Arriving

\* The handler of c is where the code holds refresh_lock.
Locked(c) ==
    /\ at[c] = "handler" /\ Path(c) \in {"data", "disconnect"}
    /\ pc[c] \in {"reload", "endpoint", "save", "write", "chmod", "clear"}

\* It has a new token to save, or is saving it.
Saves(c) == at[c] = "handler" /\ Path(c) \in {"callback", "data"} /\ pc[c] \in {"save", "write", "chmod"}

\* What a handler knows of the lock and of the file.
HandlerOK(c) ==
    /\ at[c] = "client" => pc[c] = "begin"
    /\ Locked(c) => lock = c
    /\ Saves(c) => hand[c] \in Issued
    /\ c \in writers => Saves(c) /\ pc[c] = "write" /\ saving[c] = hand[c]
    /\ Saves(c) /\ Path(c) = "data" /\ pc[c] = "write" => c \in writers
    /\ Saves(c) /\ Path(c) = "data" /\ pc[c] = "chmod" => file = Holds(hand[c]) \/ CallbackExchanged
    /\ c \in clashed /\ Path(c) = "callback" => hand[c] \in Issued

\* Writers that met are known, one of them was a callback, and what they left
\* is spoilt only if they met.
FileOK ==
    /\ \A c, d \in writers : c # d => c \in clashed
    /\ clashed # {} => \E c \in clashed : Path(c) = "callback"
    /\ file = Blank => writers # {}
    /\ file = Torn => clashed # {}
    /\ writers # {} /\ file # Blank => clashed # {}

FileInv ==
    /\ FileShape /\ FileOK
    /\ \A c \in Arriving : HandlerOK(c)

\* Two handlers do not hold the lock together.
LEMMA OneHolder ==
    ASSUME FileInv, NEW c \in Arriving, NEW d \in Arriving, Locked(c), Locked(d)
    PROVE  c = d
  BY DEF FileInv, HandlerOK

LEMMA FileInitInv == Init => FileInv
  <1> SUFFICES ASSUME Init PROVE FileInv
    OBVIOUS
  <1>1. FileShape
    BY InitiallyAssumption, ThreadsAssumption DEF Init, FileInit, FileShape, Issued
  <1>2. FileOK
    BY InitiallyAssumption DEF Init, FileInit, FileOK, Missing, Blank, Torn, Holds
  <1>3. \A c \in Arriving : HandlerOK(c)
    BY InitIncoming DEF Init, EdgeInit, FileInit, HandlerOK, Locked, Saves, Incoming
  <1> QED BY <1>1, <1>2, <1>3 DEF FileInv

\* The handler of c goes on to q, where it has what q asks for.
Proceeds(c, q) ==
    /\ at[c] = "handler" /\ pc[c] # "write" /\ q \notin {"begin", "write", "chmod"}
    /\ UNCHANGED <<settled, at, fileVars>> /\ pc' = [pc EXCEPT ![c] = q]
    /\ hand' = hand \/ \E t : hand' = [hand EXCEPT ![c] = t]
    /\ Path(c) = "callback" => hand' = hand \/ hand'[c] \in Issued
    /\ q = "save" => hand'[c] \in Issued
    /\ Path(c) \in {"data", "disconnect"} /\ q # "lock" => lock' = c
    /\ lock' = lock \/ lock = Free
    /\ minted' \in Issued

\* It answers or raises, and does not have the file open.
Finishes(c) ==
    /\ at[c] = "handler" /\ pc[c] # "write"
    /\ at' = [at EXCEPT ![c] = "leaving"] \/ at' = [at EXCEPT ![c] = "raised"]
    /\ lock' = IF lock = c THEN Free ELSE lock
    /\ UNCHANGED <<settled, pc, hand, minted>>

\* A step that is no handler's.
Idles ==
    /\ UNCHANGED <<settled, fileVars, procVars>> /\ DOMAIN at' = Requests
    /\ \A d \in Arriving :
          /\ at[d] = "handler" => at'[d] = "handler"
          /\ at'[d] # at[d] => at'[d] # "client" /\ (at'[d] = "handler" => at[d] = "client")

LEMMA EndsFinishes ==
    ASSUME NEW c, NEW s, Ends(c, s) \/ Escapes(c), pc[c] # "write"
    PROVE  Finishes(c)
  BY DEF Ends, Escapes, Respond, StartResponse, Raise, Release, Finishes

\* Every step is one of these, or opens, writes or removes the file.
LEMMA StepOfFile ==
    ASSUME EdgeInv, FileInv, [Next]_vars
    PROVE  \/ Idles
           \/ \E c \in Arriving :
                \/ \E q : Proceeds(c, q)
                \/ Finishes(c) /\ UNCHANGED fileVars
                \/ SaveOpens(c) \/ SaveWrites(c) \/ Disconnected(c)
  <1>i. UNCHANGED settled /\ Arriving \subseteq Requests /\ DOMAIN at = Requests
    BY IncomingStays DEF EdgeInv, Incoming, EdgeShape
  <1>1. CASE BootUp
    BY <1>1, <1>i DEF BootUp, Boot, Idles
  <1>2. CASE TimePasses \/ Over \/ UNCHANGED vars
    BY <1>2, <1>i DEF TimePasses, Over, vars, edgeVars, Idles
  <1>3. ASSUME NEW c \in Arriving, Serve(c)
        PROVE  \/ Idles
               \/ \E q : Proceeds(c, q)
               \/ Finishes(c) /\ UNCHANGED fileVars
               \/ SaveOpens(c) \/ SaveWrites(c) \/ Disconnected(c)
    <2>1. CASE (Enter(c) \/ Admit(c) \/ Exit(c)) /\ UNCHANGED <<discVars, fileVars, procVars>>
      <3>1. \/ at[c] = "client" /\ at' = [at EXCEPT ![c] = "leaving"]
            \/ at[c] = "client" /\ at' = [at EXCEPT ![c] = "handler"]
            \/ at[c] \in {"leaving", "raised"} /\ at' = [at EXCEPT ![c] = "raised"]
            \/ at[c] \in {"leaving", "raised"} /\ at' = [at EXCEPT ![c] = "leaving"]
            \/ at[c] \in {"leaving", "raised"} /\ at' = [at EXCEPT ![c] = "done"]
        BY <2>1 DEF Enter, Forbid, NotFound, LaunchDenied, Admit, Arrive, StartResponse, Exit,
                    BreakOff, InternalError, Leave, LeaveRaising, Log
      <3> QED BY <3>1, <2>1, <1>i DEF Idles
    <2>2. CASE GetDiscovery(c) /\ UNCHANGED <<edgeVars, fileVars, procVars>>
      BY <2>2, <1>i DEF Idles, edgeVars
    <2>3. CASE Handle(c)
      <3>f. ASSUME NEW s, Ends(c, s) \/ Escapes(c), pc[c] # "write" PROVE Finishes(c)
        BY <3>f, EndsFinishes
      <3>n. minted \in Issued /\ minted + 1 \in Issued /\ DOMAIN hand = Requests
        BY DEF FileInv, FileShape, Issued
      <3>l. Locked(c) => lock = c
        BY DEF FileInv, HandlerOK
      <3>1. CASE Health(c) \/ Confirm(c) \/ Declined(c) \/ StartRedirects(c)
        BY <3>1, <3>f DEF Health, Confirm, Declined, StartRedirects, Handles
      <3>2. CASE StartOrCallbackAsks(c)
        <4>1. Proceeds(c, "endpoint")
          BY <3>2, <3>n DEF StartOrCallbackAsks, Handles, Queries, Goto, Proceeds, edgeVars
        <4> QED BY <4>1
      <3>3. CASE Load(c)
        <4>1. CASE Loaded = NoToken \/ Loaded \notin Expired
          BY <3>3, <4>1, <3>f DEF Load, Handles
        <4>2. CASE Loaded # NoToken /\ Loaded \in Expired
          <5>1. Proceeds(c, "lock")
            BY <3>3, <4>2, <3>n DEF Load, Handles, Goto, Keep, Proceeds, edgeVars
          <5> QED BY <5>1
        <4> QED BY <4>1, <4>2
      <3>4. CASE Lock(c)
        <4>1. Proceeds(c, "reload")
          BY <3>4, <3>n DEF Lock, Handles, Acquire, Goto, Proceeds, edgeVars
        <4> QED BY <4>1
      <3>5. CASE Reload(c)
        <4>1. CASE Loaded # NoToken /\ Loaded \notin Expired
          BY <3>5, <4>1, <3>f DEF Reload, Handles
        <4>2. CASE ~(Loaded # NoToken /\ Loaded \notin Expired)
          <5>1. Proceeds(c, "endpoint")
            BY <3>5, <4>2, <3>n, <3>l
            DEF Reload, Handles, Queries, Goto, Keep, Proceeds, edgeVars, Locked
          <5> QED BY <5>1
        <4> QED BY <4>1, <4>2
      <3>6. CASE Exchange(c)
        <4>1. Proceeds(c, "save")
          BY <3>6, <3>n, <3>l, <1>i DEF Exchange, Handles, Goto, Keep, Proceeds, edgeVars, Locked
        <4> QED BY <4>1
      <3>7. CASE ExchangeFails(c)
        BY <3>7, <3>f DEF ExchangeFails, Handles
      <3>8. CASE SaveEnds(c)
        BY <3>8, <3>f DEF SaveEnds, Handles
      <3>9. CASE NothingToDisconnect(c) \/ RevokeFails(c)
        BY <3>9, <3>f DEF NothingToDisconnect, RevokeFails, Handles
      <3>10. CASE DisconnectAsks(c)
        <4>1. Proceeds(c, "endpoint")
          BY <3>10, <3>n, <3>l
          DEF DisconnectAsks, Handles, Queries, Goto, Keep, Proceeds, edgeVars, Locked
        <4> QED BY <4>1
      <3>11. CASE Revoke(c)
        <4>1. Proceeds(c, "clear")
          BY <3>11, <3>n, <3>l DEF Revoke, Handles, Goto, Proceeds, edgeVars, Locked
        <4> QED BY <4>1
      <3>12. CASE SaveOpens(c) \/ SaveWrites(c) \/ Disconnected(c)
        BY <3>12
      <3> QED BY <2>3, <3>1, <3>2, <3>3, <3>4, <3>5, <3>6, <3>7, <3>8, <3>9, <3>10, <3>11,
                 <3>12 DEF Handle
    <2> QED BY <1>3, <2>1, <2>2, <2>3 DEF Serve
  <1> QED BY <1>1, <1>2, <1>3 DEF Next

LEMMA FileStepInv ==
    ASSUME EdgeInv, FileInv, [Next]_vars
    PROVE  FileInv'
  <1> USE DEF Issued
  <1>i. /\ Arriving \subseteq Requests /\ Arriving' = Arriving /\ UNCHANGED settled
        /\ DOMAIN at = Requests /\ \A c : Path(c)' = Path(c)
    BY IncomingStays DEF EdgeInv, Incoming, EdgeShape, settled, Arriving, Path
  <1>n. Free \notin Arriving
    BY <1>i, ThreadsAssumption
  <1>d. DOMAIN pc = Requests /\ DOMAIN hand = Requests /\ DOMAIN saving = Requests
        /\ writers \subseteq Arriving /\ clashed \subseteq Arriving
    BY DEF FileInv, FileShape
  \* A step of one handler that leaves the file alone.
  <1>u. ASSUME NEW c \in Arriving, UNCHANGED fileVars, HandlerOK(c)',
               DOMAIN pc' = Requests, DOMAIN hand' = Requests, minted' \in Issued,
               \A d \in Arriving \ {c} :
                  at'[d] = at[d] /\ pc'[d] = pc[d] /\ hand'[d] = hand[d],
               lock' = lock \/ lock \in {Free, c},
               Path(c) = "callback" /\ hand[c] # NoToken => hand'[c] # NoToken
        PROVE  FileInv'
    <2>1. FileShape'
      BY <1>u, <1>i DEF FileInv, FileShape, fileVars
    <2>2. FileOK'
      BY <1>u, <1>i DEF FileInv, FileOK, fileVars
    <2>3. CallbackExchanged => CallbackExchanged'
      BY <1>u, <1>i DEF CallbackExchanged
    <2>4. ASSUME NEW d \in Arriving \ {c} PROVE HandlerOK(d)'
      <3>1. HandlerOK(d)
        BY DEF FileInv
      <3>2. (Locked(d)' <=> Locked(d)) /\ (Saves(d)' <=> Saves(d))
        BY <1>u, <1>i DEF Locked, Saves
      <3>3. Locked(d) => lock' = d
        BY <3>1, <1>u, <1>n DEF HandlerOK
      <3> QED BY <3>1, <3>2, <3>3, <2>3, <1>u, <1>i DEF HandlerOK, fileVars
    <2> QED BY <2>1, <2>2, <2>4, <1>u, <1>i DEF FileInv
  <1>1. CASE Idles
    <2>1. FileShape' /\ FileOK' /\ (CallbackExchanged => CallbackExchanged')
      BY <1>1, <1>i DEF Idles, FileInv, FileShape, FileOK, fileVars, procVars, CallbackExchanged
    <2>2. ASSUME NEW d \in Arriving PROVE HandlerOK(d)'
      <3>1. HandlerOK(d) /\ pc'[d] = pc[d] /\ hand'[d] = hand[d] /\ lock' = lock
        BY <1>1 DEF FileInv, Idles, procVars
      <3>2. at'[d] = "handler" => at[d] = "handler" \/ pc[d] = "begin"
        BY <3>1, <1>1 DEF Idles, HandlerOK
      <3>3. (Locked(d)' => Locked(d)) /\ (Saves(d)' => Saves(d)) /\ (Saves(d) => Saves(d)')
        BY <3>1, <3>2, <1>1, <1>i DEF Locked, Saves, Idles
      <3>4. at'[d] = "client" => at[d] = "client"
        BY <1>1 DEF Idles
      <3> QED BY <3>1, <3>3, <3>4, <2>1, <1>1, <1>i DEF HandlerOK, Idles, fileVars
    <2> QED BY <2>1, <2>2, <1>i DEF FileInv
  <1>2. ASSUME NEW c \in Arriving, NEW q, Proceeds(c, q) PROVE FileInv'
    <2>1. HandlerOK(c) /\ c \notin writers
      BY <1>2 DEF FileInv, HandlerOK, Proceeds
    <2>2. /\ at'[c] = "handler" /\ pc'[c] = q /\ DOMAIN pc' = Requests /\ DOMAIN hand' = Requests
          /\ \A d \in Arriving \ {c} : at'[d] = at[d] /\ pc'[d] = pc[d] /\ hand'[d] = hand[d]
      BY <1>2, <1>d, <1>i DEF Proceeds
    <2>3. Path(c) = "callback" /\ hand[c] \in Issued => hand'[c] \in Issued
      BY <1>2 DEF Proceeds
    <2>4. HandlerOK(c)'
      <3>1. Locked(c)' => lock' = c
        BY <1>2, <2>2, <1>i DEF Locked, Proceeds
      <3>2. Saves(c)' => pc'[c] = "save" /\ hand'[c] \in Issued
        BY <1>2, <2>2, <1>i DEF Saves, Proceeds
      <3>3. c \notin writers' /\ clashed' = clashed /\ at'[c] # "client"
        BY <1>2, <2>1, <2>2 DEF Proceeds, fileVars
      <3> QED BY <3>1, <3>2, <3>3, <2>1, <2>3, <1>i DEF HandlerOK
    <2>5. Path(c) = "callback" /\ hand[c] # NoToken => hand'[c] # NoToken
      BY <1>2 DEF Proceeds, NoToken
    <2> QED BY <2>2, <2>4, <2>5, <1>u, <1>2 DEF Proceeds
  <1>3. ASSUME NEW c \in Arriving, Finishes(c), UNCHANGED fileVars PROVE FileInv'
    <2>1. HandlerOK(c) /\ c \notin writers
      BY <1>3 DEF FileInv, HandlerOK, Finishes
    <2>2. at'[c] \in {"leaving", "raised"} /\ \A d \in Arriving \ {c} : at'[d] = at[d]
      BY <1>3, <1>i DEF Finishes
    <2>3. HandlerOK(c)'
      BY <2>1, <2>2, <1>3, <1>i DEF HandlerOK, Locked, Saves, Finishes, fileVars
    <2>4. minted' \in Issued
      BY <1>3 DEF Finishes, FileInv, FileShape
    <2> QED BY <2>2, <2>3, <2>4, <1>u, <1>3, <1>d DEF Finishes
  <1>4. ASSUME NEW c \in Arriving, SaveOpens(c) PROVE FileInv'
    <2>1. /\ Saves(c) /\ pc[c] = "save" /\ UNCHANGED <<at, hand, lock, minted>>
          /\ file' = Blank /\ writers' = writers \cup {c}
          /\ saving' = [saving EXCEPT ![c] = hand[c]] /\ pc' = [pc EXCEPT ![c] = "write"]
          /\ clashed' = IF writers = {} THEN clashed ELSE clashed \cup writers \cup {c}
      BY <1>4 DEF SaveOpens, Handles, Truncate, Goto, Saves, edgeVars
    <2>2. /\ pc'[c] = "write" /\ saving'[c] = hand[c]
          /\ \A d \in Arriving \ {c} : pc'[d] = pc[d] /\ saving'[d] = saving[d]
      BY <2>1, <1>d, <1>i
    <2>3. HandlerOK(c) /\ hand[c] \in Issued /\ (Path(c) = "data" => Locked(c))
      BY <2>1 DEF FileInv, HandlerOK, Saves, Locked
    <2>4. Path(c) = "callback" => CallbackExchanged'
      BY <2>1, <2>3, <1>i DEF CallbackExchanged, NoToken
    <2>5. ASSUME NEW d \in Arriving \ {c}, Locked(d) PROVE CallbackExchanged'
      BY <2>1, <2>3, <2>4, <2>5, OneHolder DEF Saves
    <2>6. FileShape'
      BY <2>1, <1>d, <1>i DEF FileInv, FileShape
    <2>7. FileOK'
      <3>1. ASSUME NEW w \in writers PROVE \E d \in writers \cup {c} : Path(d) = "callback"
        <4>1. HandlerOK(w) /\ Saves(w) /\ w \in Arriving /\ w # c
          BY <2>1, <1>d DEF FileInv, HandlerOK
        <4>2. Path(w) = "data" => Locked(w)
          BY <4>1 DEF Saves, Locked
        <4> QED BY <4>1, <4>2, <2>1, <2>3, OneHolder DEF Saves
      <3>2. clashed' # {} => \E d \in clashed' : Path(d)' = "callback"
        BY <3>1, <2>1, <1>i DEF FileInv, FileOK
      <3> QED BY <3>2, <2>1 DEF FileInv, FileOK, Blank, Torn
    <2>8. HandlerOK(c)'
      BY <2>1, <2>2, <2>3, <1>i DEF HandlerOK, Saves, Locked
    <2>9. ASSUME NEW d \in Arriving \ {c} PROVE HandlerOK(d)'
      <3>1. HandlerOK(d) /\ (Locked(d)' <=> Locked(d)) /\ (Saves(d)' <=> Saves(d))
        BY <2>1, <2>2, <1>i DEF FileInv, Saves, Locked
      <3>2. d \in clashed' => d \in clashed \/ d \in writers
        BY <2>1
      <3>3. d \in writers => hand[d] \in Issued
        BY <3>1 DEF HandlerOK
      <3>4. Saves(d) /\ Path(d) = "data" => Locked(d)
        BY DEF Saves, Locked
      <3> QED BY <3>1, <3>2, <3>3, <3>4, <2>1, <2>2, <2>5, <1>i DEF HandlerOK
    <2> QED BY <2>6, <2>7, <2>8, <2>9, <1>i DEF FileInv
  <1>5. ASSUME NEW c \in Arriving, SaveWrites(c) PROVE FileInv'
    <2>1. /\ Saves(c) /\ pc[c] = "write" /\ UNCHANGED <<at, hand, lock, minted, clashed>>
          /\ file' \in IF c \notin writers THEN {file}
                       ELSE IF file = Blank THEN {Holds(saving[c])}
                       ELSE {Holds(saving[c]), Torn}
          /\ writers' = writers \ {c}
          /\ saving' = [saving EXCEPT ![c] = NoToken] /\ pc' = [pc EXCEPT ![c] = "chmod"]
      BY <1>5 DEF SaveWrites, Handles, Write, Goto, Saves, edgeVars
    <2>2. /\ pc'[c] = "chmod"
          /\ \A d \in Arriving \ {c} : pc'[d] = pc[d] /\ saving'[d] = saving[d]
      BY <2>1, <1>d, <1>i
    <2>3. HandlerOK(c) /\ hand[c] \in Issued /\ (Path(c) = "data" => Locked(c))
      BY <2>1 DEF FileInv, HandlerOK, Saves, Locked
    <2>4. c \in writers => saving[c] = hand[c]
      BY <2>3 DEF HandlerOK
    <2>5. (Path(c) = "callback" => CallbackExchanged') /\ (CallbackExchanged => CallbackExchanged')
      BY <2>1, <2>3, <1>i DEF CallbackExchanged, NoToken
    <2>6. ASSUME NEW d \in Arriving \ {c}, Locked(d) PROVE CallbackExchanged'
      BY <2>1, <2>3, <2>5, <2>6, OneHolder DEF Saves
    <2>7. clashed # {} => CallbackExchanged
      <3>1. ASSUME NEW d \in clashed, Path(d) = "callback" PROVE CallbackExchanged
        BY <3>1, <1>d DEF FileInv, HandlerOK, CallbackExchanged, NoToken
      <3> QED BY <3>1 DEF FileInv, FileOK
    <2>8. c \in writers /\ file # Blank => clashed # {}
      BY DEF FileInv, FileOK
    <2>9. FileShape'
      BY <2>1, <2>3, <2>4, <1>d, <1>i DEF FileInv, FileShape
    <2>10. FileOK'
      <3>1. c \in writers => file' # Blank
        BY <2>1 DEF Holds, Blank, Torn
      <3>2. file' = Torn => file = Torn \/ clashed # {}
        BY <2>1, <2>8 DEF Holds, Torn
      <3>3. c \in writers /\ writers' # {} => clashed # {}
        BY <2>1 DEF FileInv, FileOK
      <3>4. c \notin writers => writers' = writers /\ file' = file
        BY <2>1
      <3>5. clashed' # {} => \E d \in clashed' : Path(d)' = "callback"
        BY <2>1, <1>i DEF FileInv, FileOK
      <3>6. \A d, e \in writers' : d # e => d \in clashed'
        BY <2>1 DEF FileInv, FileOK
      <3>7. clashed' = clashed
        BY <2>1
      <3> QED BY <3>1, <3>2, <3>3, <3>4, <3>5, <3>6, <3>7 DEF FileInv, FileOK
    <2>11. HandlerOK(c)'
      <3>1. Path(c) = "data" => c \in writers
        BY <2>1, <2>3 DEF HandlerOK
      <3>2. Path(c) = "data" => file' = Holds(hand[c]) \/ CallbackExchanged'
        BY <3>1, <2>1, <2>4, <2>5, <2>7, <2>8
      <3> QED BY <3>2, <2>1, <2>2, <2>3, <1>i DEF HandlerOK, Saves, Locked
    <2>12. ASSUME NEW d \in Arriving \ {c} PROVE HandlerOK(d)'
      <3>1. HandlerOK(d) /\ (Locked(d)' <=> Locked(d)) /\ (Saves(d)' <=> Saves(d))
        BY <2>1, <2>2, <1>i DEF FileInv, Saves, Locked
      <3>2. Saves(d) /\ Path(d) = "data" => Locked(d)
        BY DEF Saves, Locked
      <3> QED BY <3>1, <3>2, <2>1, <2>2, <2>6, <1>i DEF HandlerOK
    <2> QED BY <2>9, <2>10, <2>11, <2>12, <1>i DEF FileInv
  <1>6. ASSUME NEW c \in Arriving, Disconnected(c) PROVE FileInv'
    <2>1. /\ Locked(c) /\ Path(c) = "disconnect" /\ pc[c] = "clear"
          /\ file' = Missing /\ writers' = {} /\ UNCHANGED <<saving, clashed>>
      BY <1>6 DEF Disconnected, Handles, Clear, Locked
    <2>2. Finishes(c)
      BY <1>6, <2>1, EndsFinishes DEF Disconnected
    <2>3. at'[c] \in {"leaving", "raised"} /\ \A d \in Arriving \ {c} : at'[d] = at[d]
      BY <2>2, <1>i DEF Finishes
    <2>4. UNCHANGED <<pc, hand, minted>> /\ (CallbackExchanged => CallbackExchanged')
      BY <2>2, <1>i DEF Finishes, CallbackExchanged
    <2>5. FileShape'
      BY <2>1, <2>4, <1>d, <1>i DEF FileInv, FileShape
    <2>6. FileOK'
      BY <2>1, <1>i DEF FileInv, FileOK, Missing, Blank, Torn
    <2>7. HandlerOK(c)'
      BY <2>1, <2>3, <2>4, <1>i DEF FileInv, HandlerOK, Locked, Saves
    <2>8. ASSUME NEW d \in Arriving \ {c} PROVE HandlerOK(d)'
      <3>1. HandlerOK(d) /\ (Locked(d)' <=> Locked(d)) /\ (Saves(d)' <=> Saves(d))
        BY <2>3, <2>4, <1>i DEF FileInv, Saves, Locked
      <3>2. ~Locked(d)
        BY <2>1, OneHolder
      <3>3. Saves(d) => Path(d) # "data"
        BY <3>2 DEF Saves, Locked
      <3> QED BY <3>1, <3>2, <3>3, <2>1, <2>3, <2>4, <1>i DEF HandlerOK
    <2> QED BY <2>5, <2>6, <2>7, <2>8, <1>i DEF FileInv
  <1> QED BY <1>1, <1>2, <1>3, <1>4, <1>5, <1>6, StepOfFile

LEMMA FileInvHolds == Spec => [](EdgeInv /\ FileInv)
  BY EdgeInitInv, EdgeStepInv, FileInitInv, FileStepInv, PTL DEF Spec

\* refresh_lock leaves the callback as the only one who can spoil the file, or
\* have it read as empty while nobody refreshes.
THEOREM CallbacksAloneTear == Spec => []OnlyCallbacksTear
  <1>1. EdgeInv /\ FileInv => OnlyCallbacksTear
    <2> SUFFICES ASSUME EdgeInv, FileInv PROVE OnlyCallbacksTear
      OBVIOUS
    <2>1. file = Torn => \E c \in clashed : Path(c) = "callback"
      BY DEF FileInv, FileOK
    <2>2. \A c \in writers : Path(c) = "callback" \/ lock = c
      BY DEF FileInv, FileShape, HandlerOK, Saves, Locked
    <2>3. file = Blank => \E c \in writers : Path(c) = "callback" \/ lock = c
      BY <2>2 DEF FileInv, FileOK
    <2> QED BY <2>1, <2>3 DEF OnlyCallbacksTear
  <1> QED BY <1>1, FileInvHolds, PTL

\* A refresh's save is lost to a callback only.
THEOREM RefreshesLand == Spec => []RefreshSaveLands
  <1>1. EdgeInv /\ FileInv => RefreshSaveLands
    BY DEF FileInv, HandlerOK, Saves, RefreshSaveLands
  <1> QED BY <1>1, FileInvHolds, PTL

\* A disconnect never takes the save of a refresh for an empty store.
THEOREM DisconnectIsTruthful == Spec => NoConnectionIsTrue
  <1> DEFINE Truthful ==
        \A c \in Arriving :
          NothingToDisconnect(c) => \/ file = Missing
                                    \/ \E d \in writers \cup clashed : Path(d) = "callback"
  <1>1. EdgeInv /\ FileInv => Truthful
    <2> SUFFICES ASSUME EdgeInv, FileInv, NEW c \in Arriving, NothingToDisconnect(c),
                        file # Missing
                 PROVE  \E d \in writers \cup clashed : Path(d) = "callback"
      OBVIOUS
    <2>1. Locked(c) /\ Path(c) = "disconnect" /\ Loaded = NoToken
      BY DEF NothingToDisconnect, Handles, Locked
    <2>2. file \in {Blank, Torn}
      BY <2>1 DEF FileInv, FileShape, Loaded, Holds, NoToken, Issued
    <2>3. ASSUME NEW w \in writers PROVE Path(w) = "callback"
      <3>1. w \in Arriving /\ HandlerOK(w) /\ Saves(w) /\ pc[w] = "write"
        BY DEF FileInv, FileShape, HandlerOK
      <3>2. Path(w) = "data" => Locked(w)
        BY <3>1 DEF Saves, Locked
      <3> QED BY <3>1, <3>2, <2>1, OneHolder DEF Saves
    <2> QED BY <2>2, <2>3 DEF FileInv, FileOK
  <1> QED BY <1>1, FileInvHolds, PTL DEF Spec, NoConnectionIsTrue
---------------------------------------------------------------------------
(* The types *)

LEMMA EdgeTypeInit == Init => EdgeTypeOK
  BY DEF Init, EdgeInit, EdgeTypeOK, Nothing

LEMMA EdgeTypeStep ==
    ASSUME EdgeInv, EdgeTypeOK, [Next]_vars
    PROVE  EdgeTypeOK'
  <1> USE DEF EdgeTypeOK
  <1>s. /\ Arriving \subseteq Requests
        /\ DOMAIN holder = Requests /\ DOMAIN answer = Requests /\ DOMAIN logs = Requests
    BY DEF EdgeInv, EdgeShape, Incoming
  \* A response starts.
  <1>u. ASSUME NEW c \in Arriving, NEW s \in Nat, NEW layer, StartResponse(c, layer, s),
               bound' \in [Requests -> Ids], UNCHANGED <<phase, logs>>
        PROVE  EdgeTypeOK'
    <2>1. at' \in [Requests -> {"client", "handler", "raised", "leaving", "done"}]
      BY <1>u, <1>s DEF StartResponse
    <2>2. answer'[c].status = s /\ \A d \in Requests \ {c} : answer'[d] = answer[d]
      BY <1>u, <1>s DEF StartResponse
    <2>3. holder'[c] \in {s, holder[c]} /\ \A d \in Requests \ {c} : holder'[d] = holder[d]
      BY <1>u, <1>s DEF StartResponse
    <2>4. \A d \in Requests : holder'[d] \in Nat /\ answer'[d].status \in Nat
      BY <2>2, <2>3
    <2> QED BY <2>1, <2>4, <1>u DEF Ids
  <1>i. ASSUME NEW c \in Arriving, NEW layer PROVE [bound EXCEPT ![c] = IdAt(c, layer)] \in [Requests -> Ids]
    BY DEF IdAt, ResolvedId, Ids
  <1>1. CASE Boot \/ UNCHANGED edgeVars
    BY <1>1 DEF Boot, edgeVars
  <1>2. ASSUME NEW c \in Arriving, Enter(c) PROVE EdgeTypeOK'
    <2>1. PICK s \in {403, 404}, layer \in {"AdminGate", "Routes"} :
             Arrive(c, layer) /\ StartResponse(c, layer, s)
      BY <1>2 DEF Enter, Forbid, NotFound, LaunchDenied
    <2>2. bound' = [bound EXCEPT ![c] = IdAt(c, layer)] /\ UNCHANGED <<phase, logs>>
      BY <2>1 DEF Arrive
    <2>3. bound' \in [Requests -> Ids]
      BY <2>2, <1>i, Zenon
    <2> QED BY <2>1, <2>2, <2>3, <1>u
  <1>3. ASSUME NEW c \in Arriving, Admit(c) PROVE EdgeTypeOK'
    <2>1. bound' \in [Requests -> Ids] /\ at' = [at EXCEPT ![c] = "handler"]
          /\ UNCHANGED <<phase, logs, holder, answer>>
      BY <1>3, <1>i DEF Admit, Arrive
    <2> QED BY <2>1, <1>s DEF Ids
  <1>4. ASSUME NEW c \in Arriving, NEW s \in {200, 302, 400, 500, 502, 503}, Respond(c, s)
        PROVE  EdgeTypeOK'
    <2>1. /\ s \in Nat /\ StartResponse(c, "Routes", s)
          /\ bound' \in [Requests -> Ids] /\ UNCHANGED <<phase, logs>>
      BY <1>4 DEF Respond, Ids
    <2> QED BY <2>1, <1>u
  <1>5. ASSUME NEW c \in Arriving, Raise(c) \/ BreakOff(c) PROVE EdgeTypeOK'
    BY <1>5, <1>s DEF Raise, BreakOff
  <1>6. ASSUME NEW c \in Arriving, InternalError(c) PROVE EdgeTypeOK'
    <2>1. /\ at' = [at EXCEPT ![c] = "leaving"] /\ holder' = [holder EXCEPT ![c] = 500]
          /\ answer' = [answer EXCEPT ![c] = [status |-> 500, id |-> bound[c]]]
          /\ UNCHANGED <<phase, bound, logs>>
      BY <1>6 DEF InternalError
    <2>2. \A d \in Requests : holder'[d] \in Nat /\ answer'[d].status \in Nat
      BY <2>1, <1>s
    <2> QED BY <2>1, <2>2, <1>s
  <1>7. ASSUME NEW c \in Arriving, Leave(c) \/ LeaveRaising(c) PROVE EdgeTypeOK'
    <2>1. Log(c) /\ logs[c] = <<>>
      BY <1>7 DEF Leave, LeaveRaising, EdgeInv, RequestOK
    <2>2. /\ at' = [at EXCEPT ![c] = "done"] /\ bound' = [bound EXCEPT ![c] = "none"]
          /\ UNCHANGED <<phase, holder, answer>>
      BY <2>1 DEF Log
    <2>3. logs'[c] \in {<<>>, Append(<<>>, holder[c])}
          /\ \A d \in Requests \ {c} : logs'[d] = logs[d]
      BY <2>1, <1>s DEF Log
    <2>4. Len(<<>>) = 0 /\ Len(Append(<<>>, holder[c])) = 1
      OBVIOUS
    <2>5. Len(logs'[c]) <= 1
      <3>1. CASE logs'[c] = <<>>
        BY <3>1, <2>4
      <3>2. CASE logs'[c] = Append(<<>>, holder[c])
        BY <3>2, <2>4
      <3> QED BY <2>3, <3>1, <3>2
    <2>6. \A d \in Requests : Len(logs'[d]) <= 1
      BY <2>3, <2>5
    <2> QED BY <2>2, <2>6, <1>s
  <1> QED BY <1>1, <1>2, <1>3, <1>4, <1>5, <1>6, <1>7, StepOfEdge DEF EdgeStep, Exit

\* What is in the file, in a save and in hand has been issued.
TokenTypes ==
    /\ file \in {Missing, Blank, Torn} \cup {Holds(t) : t \in 1 .. minted}
    /\ saving \in [Requests -> 0 .. minted]
    /\ hand \in [Requests -> 0 .. minted]
    /\ lock \in Requests \cup {Free}

LEMMA TokenTypesInit == Init => TokenTypes
  <1> SUFFICES ASSUME Init PROVE TokenTypes
    OBVIOUS
  <1>1. minted = 1 /\ 1 \in 1 .. 1 /\ 0 \in 0 .. 1
    BY DEF Init
  <1> QED BY <1>1, InitiallyAssumption, ThreadsAssumption DEF Init, FileInit, TokenTypes, NoToken

\* A step that mints tokens, or takes one that has been minted.
LEMMA TokensStay ==
    ASSUME TokenTypes, FileShape, NEW c \in Requests,
           minted' \in Nat, minted <= minted',
           file' = file \/ file' \in {Missing, Blank, Torn}
               \/ \E t \in 1 .. minted' : file' = Holds(t),
           saving' = saving \/ \E t \in 0 .. minted' : saving' = [saving EXCEPT ![c] = t],
           hand' = hand \/ \E t \in 0 .. minted' : hand' = [hand EXCEPT ![c] = t],
           lock' \in {lock, c, Free}
    PROVE  TokenTypes'
  <1>1. minted \in Nat /\ 1 .. minted \subseteq 1 .. minted' /\ 0 .. minted \subseteq 0 .. minted'
    BY DEF FileShape, Issued
  <1>2. file' \in {Missing, Blank, Torn} \cup {Holds(t) : t \in 1 .. minted'}
    BY <1>1 DEF TokenTypes
  <1>3. saving' \in [Requests -> 0 .. minted'] /\ hand' \in [Requests -> 0 .. minted']
    BY <1>1 DEF TokenTypes
  <1> QED BY <1>2, <1>3 DEF TokenTypes

LEMMA TokenTypesStep ==
    ASSUME EdgeInv, FileInv, TokenTypes, [Next]_vars
    PROVE  TokenTypes'
  <1>i. Arriving \subseteq Requests /\ FileShape /\ \A c \in Arriving : HandlerOK(c)
    BY DEF EdgeInv, Incoming, FileInv
  <1>m. minted \in Nat /\ minted <= minted /\ minted <= minted + 1 /\ minted + 1 \in 0 .. minted + 1
        /\ 0 \in 0 .. minted
    BY <1>i DEF FileShape, Issued
  <1>l. Loaded \in 0 .. minted
    BY <1>m DEF TokenTypes, Loaded, Holds, Missing, Blank, Torn, NoToken
  <1>1. CASE UNCHANGED <<fileVars, procVars>>
    BY <1>1 DEF fileVars, procVars, TokenTypes
  <1>2. ASSUME NEW c \in Arriving, Handle(c) PROVE TokenTypes'
    <2>c. c \in Requests /\ hand[c] \in 0 .. minted
      BY <1>i DEF TokenTypes
    \* A step that leaves the file alone.
    <2>u. ASSUME UNCHANGED <<fileVars, minted>>,
                 hand' = hand \/ \E t \in 0 .. minted : hand' = [hand EXCEPT ![c] = t],
                 lock' \in {lock, c, Free}
          PROVE  TokenTypes'
      BY <2>u, <2>c, <1>i, <1>m, TokensStay DEF fileVars
    <2>f. ASSUME NEW s, Ends(c, s) \/ Escapes(c), UNCHANGED fileVars PROVE TokenTypes'
      BY <2>f, <2>u DEF Ends, Escapes, Release
    <2>1. CASE \/ Health(c) \/ Confirm(c) \/ Declined(c) \/ StartRedirects(c)
               \/ ExchangeFails(c) \/ SaveEnds(c) \/ NothingToDisconnect(c) \/ RevokeFails(c)
      BY <2>1, <2>f DEF Health, Confirm, Declined, StartRedirects, ExchangeFails, SaveEnds,
                        NothingToDisconnect, RevokeFails
    <2>2. CASE StartOrCallbackAsks(c) \/ Lock(c) \/ Revoke(c)
      BY <2>2, <2>u DEF StartOrCallbackAsks, Lock, Acquire, Revoke
    <2>3. CASE Load(c) \/ Reload(c) \/ DisconnectAsks(c)
      <3>1. CASE \E s : Ends(c, s) /\ UNCHANGED fileVars
        BY <3>1, <2>f
      <3>2. CASE (Keep(c, Loaded) \/ Keep(c, hand[c])) /\ UNCHANGED <<fileVars, lock, minted>>
        BY <3>2, <1>l, <2>c, <2>u DEF Keep
      <3> QED BY <2>3, <3>1, <3>2 DEF Load, Reload, DisconnectAsks
    <2>4. CASE Exchange(c)
      <3>1. UNCHANGED <<fileVars, lock>> /\ minted' = minted + 1
            /\ hand' = [hand EXCEPT ![c] = minted + 1]
        BY <2>4 DEF Exchange, Keep
      <3>2. minted' \in Nat /\ minted <= minted' /\ minted + 1 \in 0 .. minted'
        BY <3>1, <1>m
      <3>3. \E t \in 0 .. minted' : hand' = [hand EXCEPT ![c] = t]
        BY <3>1, <3>2, Zenon
      <3>4. UNCHANGED <<file, saving, lock>>
        BY <3>1 DEF fileVars
      <3> QED BY <3>2, <3>3, <3>4, <2>c, <1>i, TokensStay
    <2>5. CASE SaveOpens(c)
      <3>1. UNCHANGED <<hand, lock, minted>> /\ file' = Blank
            /\ saving' = [saving EXCEPT ![c] = hand[c]]
        BY <2>5 DEF SaveOpens, Truncate
      <3> QED BY <3>1, <2>c, <1>i, <1>m, TokensStay
    <2>6. CASE SaveWrites(c)
      <3>1. UNCHANGED <<hand, lock, minted>> /\ saving' = [saving EXCEPT ![c] = 0]
        BY <2>6 DEF SaveWrites, Write, NoToken
      <3>2. c \in writers => saving[c] \in 1 .. minted
        BY <2>c, <1>i, <1>m DEF HandlerOK, Issued
      <3>3. file' = file \/ file' = Torn \/ (c \in writers /\ file' = Holds(saving[c]))
        BY <2>6 DEF SaveWrites, Write
      <3>4. file' = file \/ file' \in {Missing, Blank, Torn} \/ \E t \in 1 .. minted : file' = Holds(t)
        BY <3>2, <3>3
      <3> QED BY <3>1, <3>4, <2>c, <1>i, <1>m, TokensStay
    <2>7. CASE Disconnected(c)
      <3>1. UNCHANGED <<saving, hand, minted>> /\ file' = Missing /\ lock' \in {lock, Free}
        BY <2>7 DEF Disconnected, Clear, Ends, Release
      <3> QED BY <3>1, <2>c, <1>i, <1>m, TokensStay
    <2> QED BY <1>2, <2>1, <2>2, <2>3, <2>4, <2>5, <2>6, <2>7 DEF Handle
  <1> QED BY <1>1, <1>2 DEF Next, BootUp, TimePasses, Over, Serve, vars

\* Every variable of the process has its type, no token is used that Intuit has
\* not issued, and refresh_lock is held where the code holds it.
THEOREM ProcessTypesAreKept == Spec => []TypeOK
  <1>1. CacheInv /\ EdgeInv /\ FileInv /\ EdgeTypeOK /\ TokenTypes => TypeOK
    <2> SUFFICES ASSUME CacheInv, EdgeInv, FileInv, EdgeTypeOK, TokenTypes PROVE TypeOK
      OBVIOUS
    <2>1. LookupTypeOK /\ writers \cup clashed \subseteq Requests
      BY DEF CacheInv, FileInv, FileShape, EdgeInv, Incoming
    <2>2. \A c \in Arriving : Locked(c) => lock = c
      BY DEF FileInv, HandlerOK
    <2> QED BY <2>1, <2>2 DEF TypeOK, TokenTypes, Locked
  <1>2. DiscoverySpec => []CacheInv
    BY DiscoveryInitInv, DiscoveryStepInv, PTL DEF DiscoverySpec
  <1>3. Spec => []EdgeTypeOK
    BY EdgeInvHolds, EdgeTypeInit, EdgeTypeStep, PTL DEF Spec
  <1>4. Spec => []TokenTypes
    BY FileInvHolds, TokenTypesInit, TokenTypesStep, PTL DEF Spec
  <1> QED BY <1>1, <1>2, <1>3, <1>4, ProcessImplementsDiscovery, FileInvHolds, PTL
=============================================================================
