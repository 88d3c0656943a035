---------------------------- MODULE ServiceProcess ----------------------------
(***************************************************************************)
(* One process of the service over a token file, as it runs on a           *)
(* developer's machine: requests come in through the edge (AppEdge), and   *)
(* their handlers, each on a thread of its own, share the discovery cache  *)
(* (Discovery), the token file (FileTokenStore) and its refresh_lock.      *)
(*                                                                         *)
(* What Intuit makes of the tokens is in TokenLifecycle, and the state of  *)
(* a callback is in OAuthFlow: here a token is a number, and only one that *)
(* the process finds may have expired.                                     *)
(***************************************************************************)
EXTENDS AppEdge, Discovery, FileTokenStore

CONSTANTS
    Expired,    \* the tokens that have expired
    Free        \* nobody's lock

ASSUME ThreadsAssumption ==
    Callers = Requests /\ Threads = Requests /\ Free \notin Requests

VARIABLES
    pc,         \* where each handler is
    hand,       \* the token it holds: `tokens`, `self._tokens`, `new_tokens`
    lock,       \* who holds refresh_lock
    minted      \* the last token that Intuit issued

procVars == <<pc, hand, lock, minted>>
vars == <<edgeVars, discVars, fileVars, procVars>>

Init ==
    /\ EdgeInit /\ DiscoveryInit /\ FileInit
    /\ pc = [c \in Requests |-> "begin"]
    /\ hand = [c \in Requests |-> NoToken]
    /\ lock = Free
    /\ minted = 1

---------------------------------------------------------------------------
Path(c) == incoming[c].path

\* The handler of c is at this step.
Handles(c, paths, step) == at[c] = "handler" /\ Path(c) \in paths /\ pc[c] = step

Goto(c, step) == pc' = [pc EXCEPT ![c] = step]
Keep(c, t) == hand' = [hand EXCEPT ![c] = t]
Acquire(c) == lock = Free /\ lock' = c
Release(c) == lock' = IF lock = c THEN Free ELSE lock

\* The handler ends, which releases what it holds: it answers, or raises.
Ends(c, status) == Respond(c, status) /\ Release(c) /\ UNCHANGED <<pc, hand, minted>>
Escapes(c) == Raise(c) /\ Release(c) /\ UNCHANGED <<pc, hand, minted>>

\* It calls get_discovery, and returns to `step` when that has answered.
Queries(c, step) == BeginLookup(c) /\ Goto(c, step)

---------------------------------------------------------------------------
(* Health, and the admin pages *)

Health(c) ==
    /\ Handles(c, {"health"}, "begin")
    /\ Ends(c, 200)
    /\ UNCHANGED <<discVars, fileVars>>

\* disconnect_confirm: what it shows depends on the load, its status does not.
Confirm(c) ==
    /\ Handles(c, {"confirm"}, "begin")
    /\ Ends(c, 200)
    /\ UNCHANGED <<discVars, fileVars>>

\* start finds the app not configured; callback is told of an error, or does not
\* like the state (OAuthFlow), the code or the realm.
Declined(c) ==
    /\ \/ Handles(c, {"start"}, "begin") /\ Ends(c, 500)
       \/ Handles(c, {"callback"}, "begin") /\ Ends(c, 400)
    /\ UNCHANGED <<discVars, fileVars>>

StartOrCallbackAsks(c) ==
    /\ Handles(c, {"start", "callback"}, "begin")
    /\ Queries(c, "endpoint")
    /\ UNCHANGED <<edgeVars, fileVars, hand, lock, minted>>

StartRedirects(c) ==
    /\ Handles(c, {"start"}, "endpoint")
    /\ Told(c)
    /\ Ends(c, 302)
    /\ UNCHANGED fileVars

---------------------------------------------------------------------------
(* A data request: _ensure_tokens and _refresh_tokens *)

Load(c) ==
    /\ Handles(c, {"data"}, "begin")
    /\ IF Loaded = NoToken THEN Ends(c, 503)
       ELSE IF Loaded \notin Expired THEN Ends(c, 200)
       ELSE Keep(c, Loaded) /\ Goto(c, "lock") /\ UNCHANGED <<edgeVars, lock, minted>>
    /\ UNCHANGED <<discVars, fileVars>>

\* Seeded bug: the lock keeps nobody out.
LockMutantNone(c) ==
    /\ \/ Handles(c, {"data"}, "lock")
       \/ Handles(c, {"disconnect"}, "begin")
    /\ lock' = c
    /\ Goto(c, "reload")
    /\ UNCHANGED <<edgeVars, discVars, fileVars, hand, minted>>

\* A refresh and a disconnect take refresh_lock.
Lock(c) ==
    /\ \/ Handles(c, {"data"}, "lock")
       \/ Handles(c, {"disconnect"}, "begin")
    /\ Acquire(c)
    /\ Goto(c, "reload")
    /\ UNCHANGED <<edgeVars, discVars, fileVars, hand, minted>>

\* Another caller may have refreshed; or the cached token is refreshed, when
\* the store has none.
Reload(c) ==
    /\ Handles(c, {"data"}, "reload")
    /\ IF Loaded # NoToken /\ Loaded \notin Expired
       THEN Ends(c, 200) /\ UNCHANGED discVars
       ELSE /\ Keep(c, IF Loaded # NoToken THEN Loaded ELSE hand[c])
            /\ Queries(c, "endpoint")
            /\ UNCHANGED <<edgeVars, lock, minted>>
    /\ UNCHANGED fileVars

\* exchange_code, and refresh's own request: a new token.
Exchange(c) ==
    /\ Handles(c, {"callback", "data"}, "endpoint")
    /\ Told(c)
    /\ minted' = minted + 1
    /\ Keep(c, minted')
    /\ Goto(c, "save")
    /\ UNCHANGED <<edgeVars, fileVars, lock>>

\* Seeded bug: a refresh that fails does not give back the lock.
ExchangeFailsMutantKeepsLock(c) ==
    /\ Handles(c, {"callback", "data"}, "endpoint")
    /\ Told(c)
    /\ Respond(c, IF Path(c) = "data" THEN 503 ELSE 502)
    /\ UNCHANGED <<fileVars, procVars>>

\* Intuit refuses, an AuthError; or cannot be reached, which nobody catches.
ExchangeFails(c) ==
    /\ Handles(c, {"callback", "data"}, "endpoint")
    /\ Told(c)
    /\ Ends(c, IF Path(c) = "data" THEN 503 ELSE 502) \/ Escapes(c)
    /\ UNCHANGED fileVars

---------------------------------------------------------------------------
(* A save: of a refresh, under the lock, or of a callback, without it *)

SaveOpens(c) ==
    /\ Handles(c, {"callback", "data"}, "save")
    /\ Truncate(c, hand[c])
    /\ Goto(c, "write")
    /\ UNCHANGED <<edgeVars, discVars, hand, lock, minted>>

SaveWrites(c) ==
    /\ Handles(c, {"callback", "data"}, "write")
    /\ Write(c)
    /\ Goto(c, "chmod")
    /\ UNCHANGED <<edgeVars, discVars, hand, lock, minted>>

\* chmod, and the answer; its FileNotFoundError is caught nowhere.
SaveEnds(c) ==
    /\ Handles(c, {"callback", "data"}, "chmod")
    /\ IF ChmodFails THEN Escapes(c) ELSE Ends(c, 200)
    /\ UNCHANGED <<discVars, fileVars>>

---------------------------------------------------------------------------
(* A disconnect, under the lock *)

NothingToDisconnect(c) ==
    /\ Handles(c, {"disconnect"}, "reload") /\ Loaded = NoToken
    /\ Ends(c, 200)
    /\ UNCHANGED <<discVars, fileVars>>

\* Seeded bug: the lock is held only around the load.
DisconnectAsksMutantUnlocks(c) ==
    /\ Handles(c, {"disconnect"}, "reload") /\ Loaded # NoToken
    /\ Keep(c, Loaded)
    /\ Queries(c, "endpoint")
    /\ Release(c)
    /\ UNCHANGED <<edgeVars, fileVars, minted>>

DisconnectAsks(c) ==
    /\ Handles(c, {"disconnect"}, "reload") /\ Loaded # NoToken
    /\ Keep(c, Loaded)
    /\ Queries(c, "endpoint")
    /\ UNCHANGED <<edgeVars, fileVars, lock, minted>>

Revoke(c) ==
    /\ Handles(c, {"disconnect"}, "endpoint")
    /\ Told(c)
    /\ Goto(c, "clear")
    /\ UNCHANGED <<edgeVars, fileVars, hand, lock, minted>>

RevokeFails(c) ==
    /\ Handles(c, {"disconnect"}, "endpoint")
    /\ Told(c)
    /\ Ends(c, 502) \/ Escapes(c)
    /\ UNCHANGED fileVars

Disconnected(c) ==
    /\ Handles(c, {"disconnect"}, "clear")
    /\ Clear
    /\ Ends(c, 200)
    /\ UNCHANGED discVars

---------------------------------------------------------------------------
Handle(c) ==
    \/ Health(c) \/ Confirm(c)
    \/ Declined(c) \/ StartOrCallbackAsks(c) \/ StartRedirects(c)
    \/ Load(c) \/ Lock(c) \/ Reload(c) \/ Exchange(c) \/ ExchangeFails(c)
    \/ SaveOpens(c) \/ SaveWrites(c) \/ SaveEnds(c)
    \/ NothingToDisconnect(c) \/ DisconnectAsks(c) \/ Revoke(c) \/ RevokeFails(c)
    \/ Disconnected(c)

Serve(c) ==
    \/ (Enter(c) \/ Admit(c) \/ Exit(c)) /\ UNCHANGED <<discVars, fileVars, procVars>>
    \/ GetDiscovery(c) /\ UNCHANGED <<edgeVars, fileVars, procVars>>
    \/ Handle(c)

BootUp == Boot /\ UNCHANGED <<discVars, fileVars, procVars>>
TimePasses == Tick /\ UNCHANGED <<edgeVars, fileVars, procVars>>

Over ==
    /\ phase = "refused" \/ \A c \in Arriving : at[c] = "done"
    /\ UNCHANGED vars

Next == BootUp \/ TimePasses \/ (\E c \in Arriving : Serve(c)) \/ Over

Spec == Init /\ [][Next]_vars

\* Some thread of a request that has arrived runs on: Intuit answers within
\* httpx's timeouts, and whoever has the lock gives it back.
FairSpec == Spec /\ WF_vars(\E c \in Arriving : at[c] # "client" /\ Serve(c))
---------------------------------------------------------------------------
(* Properties *)

\* Every variable has its type; the lock is held where the code holds it.
TypeOK ==
    /\ EdgeTypeOK /\ LookupTypeOK
    /\ file \in {Missing, Blank, Torn} \cup {Holds(t) : t \in 1 .. minted}
    /\ writers \cup clashed \subseteq Requests
    /\ saving \in [Requests -> 0 .. minted] /\ hand \in [Requests -> 0 .. minted]
    /\ lock \in Requests \cup {Free}
    /\ \A c \in Arriving :
          at[c] = "handler" /\ Path(c) \in {"data", "disconnect"}
              /\ pc[c] \in {"reload", "endpoint", "save", "write", "chmod", "clear"}
            => lock = c

\* A callback is between its exchange and the end of its save, or was.
CallbackExchanged == \E c \in Arriving : Path(c) = "callback" /\ hand[c] # NoToken

\* The file is spoilt only by a callback, the one writer that takes no lock;
\* else the file is empty only while a refresh writes it.
OnlyCallbacksTear ==
    /\ file = Torn => \E c \in clashed : Path(c) = "callback"
    /\ file = Blank => \E c \in writers : Path(c) = "callback" \/ lock = c

\* A refresh that ends finds its token in the file, unless a callback has come
\* in between: no disconnect removes it, no other refresh writes over it.
RefreshSaveLands ==
    \A c \in Arriving :
        at[c] = "handler" /\ Path(c) = "data" /\ pc[c] = "chmod" =>
            file = Holds(hand[c]) \/ CallbackExchanged

\* A disconnect says that there is no connection only if the file is not there,
\* or a callback is writing it or has torn it: it never mistakes the save of a
\* refresh for an empty store (admin_oauth.py:148).
NoConnectionIsTrue ==
    [][\A c \in Arriving :
          NothingToDisconnect(c) => \/ file = Missing
                                    \/ \E d \in writers \cup clashed : Path(d) = "callback"]_vars

InFlight == \E c \in Arriving : at[c] \notin {"client", "done"}

\* Whatever has arrived is answered in the end, in an outage of discovery too,
\* for which callers wait under the refresh_lock: no mix of requests leaves one
\* in flight for ever.
EveryRequestAnswered == InFlight ~> ~InFlight
=============================================================================
