--------------------------- MODULE TokenLifecycle ---------------------------
(***************************************************************************)
(* The life of the one QuickBooks connection: the OAuth token pair that    *)
(* every instance of qb-service and qb-admin shares through one secret.    *)
(*                                                                         *)
(* A call is one HTTP request being served.  It runs on one instance (one  *)
(* process), and is of one kind:                                           *)
(*   "request"     a data route: QBClient._request                         *)
(*   "ready"       /readyz or the start-up warm-up: QBClient.ensure_ready  *)
(*   "callback"    GET  /admin/oauth/callback, after its state check       *)
(*   "disconnect"  POST /admin/oauth/disconnect                            *)
(* Each action is one step between two points where another thread or      *)
(* another process can run: a store access, a call to Intuit, a lock.      *)
(*                                                                         *)
(* Intuit is modelled as the code sees it: a refresh token works once      *)
(* (rotation), revoking one ends its grant, an authorization code opens a  *)
(* new grant.  Tokens are numbered in the order Intuit issues them.        *)
(***************************************************************************)
EXTENDS Naturals, Sequences

CONSTANTS
    Calls,      \* the HTTP requests
    Arrivals,   \* the sets of calls that may arrive together
    Instances,  \* the running processes, of either service
    On,         \* On[c]: the instance that serves call c
    Kind,       \* Kind[c]: what call c does
    Faults,     \* the faults that may happen in a run
    Free        \* the holder of a lock nobody holds

Kinds == {"request", "ready", "callback", "disconnect"}

\* "load", "save", "clear": the store raises.  "network": a call to Intuit
\* fails or its answer is lost.  "withdraw": Intuit answers 401 to an access
\* token before it expires.  "crash": an instance dies.  "stale_revoke":
\* Intuit honours the revocation of a refresh token already rotated away.
FaultKinds ==
    {"load", "save", "clear", "network", "withdraw", "crash", "stale_revoke"}

ASSUME CallsAssumption ==
    /\ On \in [Calls -> Instances]
    /\ Kind \in [Calls -> Kinds]
    /\ Arrivals \subseteq SUBSET Calls
    /\ Free \notin Calls
ASSUME FaultsAssumption == Faults \subseteq FaultKinds

VARIABLES
    grantOf,    \* grantOf[t]: the grant token t belongs to; its length counts tokens
    live,       \* the refresh tokens Intuit accepts now
    revoked,    \* the grants revoked at Intuit
    refused,    \* access tokens withdrawn by Intuit before they expire
    expired,    \* tokens whose local expiry (with its 60 s margin) is past
    store,      \* the latest version in the TokenStore
    holder,     \* holder[i]: the call that holds instance i's refresh_lock
    pc,         \* where each call is
    cached,     \* QBClient._tokens of each call
    hand,       \* the token a call presents, or has received and must save
    sends,      \* how many times the call was answered 401
    result,     \* how each call ended
    lost        \* ghost: tokens received from Intuit but dropped by a fault

intuit == <<grantOf, live, revoked, refused>>
client == <<cached, hand, sends>>
vars == <<grantOf, live, revoked, refused, expired, store, holder, pc, cached,
          hand, sends, result, lost>>

None == 0
Tokens == 1 .. Len(grantOf)
Revoked(t) == grantOf[t] \in revoked

Locations == {"load", "check", "send", "lock", "locked", "refresh", "save",
              "exchange", "callback_save", "revoke", "clear", "done"}

\* The locations inside a `with refresh_lock` block.
Critical == {"locked", "refresh", "save", "revoke", "clear"}

Results == {"none", "ok", "ready", "not_authenticated", "api_error",
            "refresh_failed", "store_error", "error", "connected",
            "exchange_failed", "already_disconnected", "disconnected",
            "revoke_failed", "clear_failed", "crashed"}

\* Where a call of each kind begins.
Entry(c) == IF Kind[c] = "callback" THEN "exchange"
            ELSE IF Kind[c] = "disconnect" THEN "lock" ELSE "load"

Goto(c, l) == /\ pc' = [pc EXCEPT ![c] = l]
              /\ UNCHANGED result

\* The call is answered; its QBClient and its locals are gone.
Finish(c, r) == /\ pc' = [pc EXCEPT ![c] = "done"]
                /\ result' = [result EXCEPT ![c] = r]
                /\ cached' = [cached EXCEPT ![c] = None]
                /\ hand' = [hand EXCEPT ![c] = None]
                /\ sends' = [sends EXCEPT ![c] = 0]

Release(c) == holder' = [holder EXCEPT ![On[c]] = Free]

\* The code after _ensure_tokens or _refresh_tokens has returned a token t:
\* a request is sent, /readyz has its answer.
Resume(c, t) ==
    \/ /\ Kind[c] = "ready"
       /\ Finish(c, "ready")
    \/ /\ Kind[c] # "ready"
       /\ Goto(c, "send")
       /\ cached' = [cached EXCEPT ![c] = t]
       /\ hand' = [hand EXCEPT ![c] = None]
       /\ UNCHANGED sends

\* Intuit issues a token of grant g: the next number, live at once.
Issue(g, consumed) ==
    /\ grantOf' = Append(grantOf, g)
    /\ live' = (live \ consumed) \cup {Len(grantOf) + 1}
    /\ UNCHANGED <<revoked, refused>>

---------------------------------------------------------------------------

\* Either never connected, or connected once: token 1 of grant 1 is stored.
Init ==
    /\ grantOf \in {<<>>, <<1>>}
    /\ live = Tokens
    /\ store = Len(grantOf)
    /\ revoked = {}
    /\ refused = {}
    /\ expired = {}
    /\ holder = [i \in Instances |-> Free]
    /\ \E arriving \in Arrivals :
         pc = [c \in Calls |-> IF c \in arriving THEN Entry(c) ELSE "done"]
    /\ cached = [c \in Calls |-> None]
    /\ hand = [c \in Calls |-> None]
    /\ sends = [c \in Calls |-> 0]
    /\ result = [c \in Calls |-> "none"]
    /\ lost = {}

(***************************************************************************)
(* QBClient: load, check, send                                             *)
(***************************************************************************)
Load(c) ==
    /\ pc[c] = "load"
    /\ \/ /\ store = None
          /\ Finish(c, "not_authenticated")
       \/ /\ store # None
          /\ cached' = [cached EXCEPT ![c] = store]
          /\ Goto(c, "check")
          /\ UNCHANGED <<hand, sends>>
    /\ UNCHANGED <<intuit, expired, store, holder, lost>>

\* Secret Manager denies the read: TokenStoreError, before or under the lock.
LoadFails(c) ==
    /\ "load" \in Faults
    /\ pc[c] \in {"load", "locked"}
    /\ IF pc[c] = "locked" THEN Release(c) ELSE UNCHANGED holder
    /\ Finish(c, "store_error")
    /\ UNCHANGED <<intuit, expired, store, lost>>

CheckExpiry(c) ==
    /\ pc[c] = "check"
    /\ \/ /\ cached[c] \in expired
          /\ Goto(c, "lock")
          /\ UNCHANGED client
       \/ /\ cached[c] \notin expired
          /\ Resume(c, cached[c])
    /\ UNCHANGED <<intuit, expired, store, holder, lost>>

\* Any answer but 401.  The local expiry runs ahead of Intuit's by the
\* margin, so a token counted as expired may still be accepted.
Accepted(c) ==
    /\ pc[c] = "send"
    /\ cached[c] \notin refused
    /\ ~Revoked(cached[c])
    /\ Finish(c, "ok")
    /\ UNCHANGED <<intuit, expired, store, holder, lost>>

\* Seeded bug: every 401 leads to a refresh and another send.
UnauthorizedMutantUnlimited(c) ==
    /\ pc[c] = "send"
    /\ \/ cached[c] \in refused \cup expired
       \/ Revoked(cached[c])
    /\ sends' = [sends EXCEPT ![c] = @ + 1]
    /\ Goto(c, "lock")
    /\ UNCHANGED <<intuit, expired, store, holder, cached, hand, lost>>

\* The first 401 leads to a refresh and one more send, the second one to a 502.
Unauthorized(c) ==
    /\ pc[c] = "send"
    /\ \/ cached[c] \in refused \cup expired
       \/ Revoked(cached[c])
    /\ \/ /\ sends[c] = 0
          /\ sends' = [sends EXCEPT ![c] = 1]
          /\ Goto(c, "lock")
          /\ UNCHANGED <<cached, hand>>
       \/ /\ sends[c] = 1
          /\ Finish(c, "api_error")
    /\ UNCHANGED <<intuit, expired, store, holder, lost>>

(***************************************************************************)
(* QBClient._refresh_tokens and oauth.refresh, under the instance's lock   *)
(***************************************************************************)
\* Seeded bug: the lock does not exclude.
AcquireLockMutantNoLock(c) ==
    /\ pc[c] = "lock"
    /\ holder' = [holder EXCEPT ![On[c]] = c]
    /\ Goto(c, "locked")
    /\ UNCHANGED <<intuit, client, expired, store, lost>>

AcquireLock(c) ==
    /\ pc[c] = "lock"
    /\ holder[On[c]] = Free
    /\ holder' = [holder EXCEPT ![On[c]] = c]
    /\ Goto(c, "locked")
    /\ UNCHANGED <<intuit, client, expired, store, lost>>

\* Another call refreshed in the meantime: its token is adopted.
Adopt(c) ==
    /\ pc[c] = "locked"
    /\ Kind[c] # "disconnect"
    /\ store # None
    /\ store \notin expired
    /\ Release(c)
    /\ Resume(c, store)
    /\ UNCHANGED <<intuit, expired, store, lost>>

\* Seeded bug: the stored token is not read again under the lock.
ChooseSourceMutantCached(c) ==
    /\ pc[c] = "locked"
    /\ Kind[c] # "disconnect"
    /\ store = None \/ store \in expired
    /\ hand' = [hand EXCEPT ![c] = cached[c]]
    /\ Goto(c, "refresh")
    /\ UNCHANGED <<intuit, expired, store, holder, cached, sends, lost>>

\* The refresh token comes from the stored copy, else from the cached one.
ChooseSource(c) ==
    /\ pc[c] = "locked"
    /\ Kind[c] # "disconnect"
    /\ store = None \/ store \in expired
    /\ hand' = [hand EXCEPT ![c] = IF store = None THEN cached[c] ELSE store]
    /\ Goto(c, "refresh")
    /\ UNCHANGED <<intuit, expired, store, holder, cached, sends, lost>>

\* Intuit consumes the refresh token presented and answers with a new pair.
Rotate(c) ==
    /\ pc[c] = "refresh"
    /\ hand[c] \in live
    /\ Issue(grantOf[hand[c]], {hand[c]})
    /\ hand' = [hand EXCEPT ![c] = Len(grantOf) + 1]
    /\ Goto(c, "save")
    /\ UNCHANGED <<expired, store, holder, cached, sends, lost>>

\* invalid_grant, or a call that never reached Intuit: nothing changed there.
RefreshFails(c) ==
    /\ pc[c] = "refresh"
    /\ hand[c] \notin live \/ "network" \in Faults
    /\ Release(c)
    /\ Finish(c, "refresh_failed")
    /\ UNCHANGED <<intuit, expired, store, lost>>

\* Intuit rotated, but its answer never arrived: the httpx error escapes.
RotationLost(c) ==
    /\ "network" \in Faults
    /\ pc[c] = "refresh"
    /\ hand[c] \in live
    /\ Issue(grantOf[hand[c]], {hand[c]})
    /\ lost' = lost \cup {Len(grantOf) + 1}
    /\ Release(c)
    /\ Finish(c, "error")
    /\ UNCHANGED <<expired, store>>

\* Seeded bug: the rotated token is used but not saved.
SaveMutantUnsaved(c) ==
    /\ pc[c] = "save"
    /\ Release(c)
    /\ Resume(c, hand[c])
    /\ UNCHANGED <<intuit, expired, store, lost>>

Save(c) ==
    /\ pc[c] = "save"
    /\ store' = hand[c]
    /\ Release(c)
    /\ Resume(c, hand[c])
    /\ UNCHANGED <<intuit, expired, lost>>

SaveFails(c) ==
    /\ "save" \in Faults
    /\ pc[c] = "save"
    /\ lost' = lost \cup {hand[c]}
    /\ Release(c)
    /\ Finish(c, "store_error")
    /\ UNCHANGED <<intuit, expired, store>>

(***************************************************************************)
(* GET /admin/oauth/callback: exchange the code, save.  No lock is taken.  *)
(***************************************************************************)
\* Intuit may keep the refresh tokens of the earlier grants or supersede them.
Authorize(c) ==
    /\ pc[c] = "exchange"
    /\ \E superseded \in {{}, live} : Issue(Len(grantOf) + 1, superseded)
    /\ hand' = [hand EXCEPT ![c] = Len(grantOf) + 1]
    /\ Goto(c, "callback_save")
    /\ UNCHANGED <<expired, store, holder, cached, sends, lost>>

AuthorizeFails(c) ==
    /\ pc[c] = "exchange"
    /\ Finish(c, "exchange_failed")
    /\ UNCHANGED <<intuit, expired, store, holder, lost>>

AuthorizationLost(c) ==
    /\ "network" \in Faults
    /\ pc[c] = "exchange"
    /\ \E superseded \in {{}, live} : Issue(Len(grantOf) + 1, superseded)
    /\ lost' = lost \cup {Len(grantOf) + 1}
    /\ Finish(c, "error")
    /\ UNCHANGED <<expired, store, holder>>

CallbackSave(c) ==
    /\ pc[c] = "callback_save"
    /\ store' = hand[c]
    /\ Finish(c, "connected")
    /\ UNCHANGED <<intuit, expired, holder, lost>>

CallbackSaveFails(c) ==
    /\ "save" \in Faults
    /\ pc[c] = "callback_save"
    /\ lost' = lost \cup {hand[c]}
    /\ Finish(c, "store_error")
    /\ UNCHANGED <<intuit, expired, store, holder>>

(***************************************************************************)
(* POST /admin/oauth/disconnect: load, revoke, clear, under the lock       *)
(***************************************************************************)
NothingToDisconnect(c) ==
    /\ pc[c] = "locked"
    /\ Kind[c] = "disconnect"
    /\ store = None
    /\ Release(c)
    /\ Finish(c, "already_disconnected")
    /\ UNCHANGED <<intuit, expired, store, lost>>

DisconnectLoad(c) ==
    /\ pc[c] = "locked"
    /\ Kind[c] = "disconnect"
    /\ store # None
    /\ hand' = [hand EXCEPT ![c] = store]
    /\ Goto(c, "revoke")
    /\ UNCHANGED <<intuit, expired, store, holder, cached, sends, lost>>

\* What Intuit does with a revocation it honours.
Honours(t) == t \in live \/ ("stale_revoke" \in Faults /\ ~Revoked(t))

EndGrant(g) ==
    /\ revoked' = revoked \cup {g}
    /\ live' = {t \in live : grantOf[t] # g}
    /\ UNCHANGED <<grantOf, refused>>

Revoke(c) ==
    /\ pc[c] = "revoke"
    /\ Honours(hand[c])
    /\ EndGrant(grantOf[hand[c]])
    /\ Goto(c, "clear")
    /\ UNCHANGED <<client, expired, store, holder, lost>>

\* Seeded bug: a failed revocation does not stop the disconnect.
RevokeFailsMutantProceeds(c) ==
    /\ pc[c] = "revoke"
    /\ hand[c] \notin live \/ "network" \in Faults
    /\ Goto(c, "clear")
    /\ UNCHANGED <<intuit, client, expired, store, holder, lost>>

\* Seeded bug: the error path does not release the lock.
RevokeFailsMutantKeepsLock(c) ==
    /\ pc[c] = "revoke"
    /\ hand[c] \notin live \/ "network" \in Faults
    /\ Finish(c, "revoke_failed")
    /\ UNCHANGED <<intuit, expired, store, holder, lost>>

\* Non-200: the token is left in place for a retry.
RevokeFails(c) ==
    /\ pc[c] = "revoke"
    /\ hand[c] \notin live \/ "network" \in Faults
    /\ Release(c)
    /\ Finish(c, "revoke_failed")
    /\ UNCHANGED <<intuit, expired, store, lost>>

\* Revoked at Intuit, but the answer never arrived: the httpx error escapes.
RevocationLost(c) ==
    /\ "network" \in Faults
    /\ pc[c] = "revoke"
    /\ Honours(hand[c])
    /\ EndGrant(grantOf[hand[c]])
    /\ Release(c)
    /\ Finish(c, "error")
    /\ UNCHANGED <<expired, store, lost>>

Clear(c) ==
    /\ pc[c] = "clear"
    /\ store' = None
    /\ Release(c)
    /\ Finish(c, "disconnected")
    /\ UNCHANGED <<intuit, expired, lost>>

ClearFails(c) ==
    /\ "clear" \in Faults
    /\ pc[c] = "clear"
    /\ Release(c)
    /\ Finish(c, "clear_failed")
    /\ UNCHANGED <<intuit, expired, store, lost>>

\* A call to Intuit raises before it has any effect there; no handler maps an
\* httpx error, so it leaves through every `with` block as a 500.
NetworkFails(c) ==
    /\ "network" \in Faults
    /\ pc[c] \in {"send", "refresh", "exchange", "revoke"}
    /\ IF pc[c] \in Critical THEN Release(c) ELSE UNCHANGED holder
    /\ Finish(c, "error")
    /\ UNCHANGED <<intuit, expired, store, lost>>

(***************************************************************************)
(* The environment: time, Intuit, and the platform                         *)
(***************************************************************************)
Expire(t) ==
    /\ t \notin expired
    /\ expired' = expired \cup {t}
    /\ UNCHANGED <<intuit, client, store, holder, pc, result, lost>>

Withdraw(t) ==
    /\ "withdraw" \in Faults
    /\ t \notin refused
    /\ refused' = refused \cup {t}
    /\ UNCHANGED <<grantOf, live, revoked, client, expired, store, holder, pc,
                   result, lost>>

\* The calls an instance takes down with it: those that have begun.
Aboard(i) == {c \in Calls : On[c] = i /\ pc[c] \notin {Entry(c), "done"}}

Crash(i) ==
    /\ "crash" \in Faults
    /\ Aboard(i) # {}
    /\ lost' = lost \cup
         {hand[c] : c \in {d \in Aboard(i) : pc[d] \in {"save", "callback_save"}}}
    /\ pc' = [c \in Calls |-> IF c \in Aboard(i) THEN "done" ELSE pc[c]]
    /\ result' = [c \in Calls |-> IF c \in Aboard(i) THEN "crashed" ELSE result[c]]
    /\ cached' = [c \in Calls |-> IF c \in Aboard(i) THEN None ELSE cached[c]]
    /\ hand' = [c \in Calls |-> IF c \in Aboard(i) THEN None ELSE hand[c]]
    /\ sends' = [c \in Calls |-> IF c \in Aboard(i) THEN 0 ELSE sends[c]]
    /\ holder' = [holder EXCEPT ![i] = Free]
    /\ UNCHANGED <<intuit, expired, store>>

---------------------------------------------------------------------------

RefreshStep(c) ==
    \/ AcquireLock(c) \/ Adopt(c) \/ ChooseSource(c)
    \/ Rotate(c) \/ RefreshFails(c) \/ RotationLost(c)
    \/ Save(c) \/ SaveFails(c)

RequestStep(c) ==
    \/ Load(c) \/ LoadFails(c) \/ CheckExpiry(c)
    \/ Accepted(c) \/ Unauthorized(c)

CallbackStep(c) ==
    \/ Authorize(c) \/ AuthorizeFails(c) \/ AuthorizationLost(c)
    \/ CallbackSave(c) \/ CallbackSaveFails(c)

DisconnectStep(c) ==
    \/ NothingToDisconnect(c) \/ DisconnectLoad(c)
    \/ Revoke(c) \/ RevokeFails(c) \/ RevocationLost(c)
    \/ Clear(c) \/ ClearFails(c)

Step(c) == RequestStep(c) \/ RefreshStep(c) \/ CallbackStep(c) \/ DisconnectStep(c)
           \/ NetworkFails(c)

AllDone == (\A c \in Calls : pc[c] = "done") /\ UNCHANGED vars

Next ==
    \/ \E c \in Calls : Step(c)
    \/ \E t \in Tokens : Expire(t) \/ Withdraw(t)
    \/ \E i \in Instances : Crash(i)
    \/ AllDone

Spec == Init /\ [][Next]_vars

\* A served call keeps running.  threading.Lock wakes some waiter whenever it
\* is released, and finitely many calls hold it, so weak fairness is enough.
Fairness == \A c \in Calls : WF_vars(Step(c))

FairSpec == Spec /\ Fairness
---------------------------------------------------------------------------
(***************************************************************************)
(* Properties                                                              *)
(***************************************************************************)

\* Every variable has its type.
TypeOK ==
    /\ grantOf \in Seq(Nat \ {0})
    /\ live \subseteq Tokens
    /\ revoked \subseteq Nat
    /\ refused \subseteq Tokens
    /\ expired \subseteq Tokens
    /\ store \in Tokens \cup {None}
    /\ holder \in [Instances -> Calls \cup {Free}]
    /\ pc \in [Calls -> Locations]
    /\ cached \in [Calls -> Tokens \cup {None}]
    /\ hand \in [Calls -> Tokens \cup {None}]
    /\ sends \in [Calls -> 0 .. 1]
    /\ result \in [Calls -> Results]
    /\ lost \subseteq Tokens

\* An instance's refresh_lock is held by exactly the call that is between its
\* load and the end of its refresh or disconnect: on every path out, an error
\* path or a crash included, the lock is free again.
LockHeldInCritical ==
    \A c \in Calls : pc[c] \in Critical <=> holder[On[c]] = c

\* The tokens some call has received and not yet saved.
Unsaved == {hand[c] : c \in {d \in Calls : pc[d] \in {"save", "callback_save"}}}

\* No live grant is stranded: the refresh token Intuit accepts is the stored
\* one, or in the hands of a call about to store it, unless a fault dropped it
\* (tokens.py and secret_manager.py: a rotation that is not persisted ends the
\* service at the next cold start).
NoStrandedGrant == live \subseteq {store} \cup Unsaved \cup lost

\* "The loser ends up with an invalidated refresh token" (client.py:235) never
\* happens: what a refresh presents is live, unless the operator revoked the
\* grant, a fault dropped the rotation that superseded it, or a callback, which
\* takes no lock, opened a new grant in the meantime.  Two callbacks that save in
\* the other order than they exchanged can make it happen all the same.
RefreshPresentsLive ==
    \A c \in Calls : pc[c] = "refresh" =>
        \/ hand[c] \in live
        \/ Revoked(hand[c])
        \/ \E t \in lost : grantOf[t] = grantOf[hand[c]]
        \/ \E g \in Tokens : grantOf[g] > grantOf[hand[c]]

\* What disconnect wipes from the store is dead at Intuit: clear() never wipes
\* a live, un-revoked token (admin_oauth.py:148-154).
ClearWipesNothingLive == \A c \in Calls : pc[c] = "clear" => store \notin live

\* After a disconnect, only a new authorization connects the service again: no
\* refresh that was under way brings a token back (oauth-setup.md:262).  With
\* two grants at Intuit, as after a callback that ran beside the disconnect, the
\* one that was not revoked comes back from a request's cache (client.py:252).
OnlyCallbackConnects ==
    [][store = None /\ store' # None =>
         \/ \E c \in Calls : pc[c] = "callback_save"
         \/ \E t \in Tokens : grantOf[t] # grantOf[store']]_vars

\* "Disconnect failed - token NOT revoked and the connection was left intact"
\* (admin_oauth.py:170) is true whenever it is said, unless an earlier
\* disconnect was cut short between its revoke and its clear: then the token
\* that is left is dead, and no disconnect can clear it any more.
CutShort(c) == Kind[c] = "disconnect" /\ result[c] \in {"error", "clear_failed", "crashed"}
FailedDisconnectLeftIntact ==
    [][\A c \in Calls :
         pc[c] = "revoke" /\ result'[c] = "revoke_failed" =>
            ~Revoked(hand[c]) \/ \E d \in Calls : CutShort(d)]_vars

\* After a 401 the request is sent again with another token than the one
\* Intuit refused (client.py:163, "a 401 triggers a token refresh").
ResentWithNewToken ==
    [][\A c \in Calls :
         (pc[c] \in {"locked", "save"} /\ sends[c] = 1 /\ pc'[c] = "send")
           => cached'[c] # cached[c]]_vars

\* A call that waits for the lock, the store or Intuit is answered in the end,
\* whatever the other calls do and whichever of them fail.
EveryCallAnswered == \A c \in Calls : <>(pc[c] = "done")
=============================================================================
