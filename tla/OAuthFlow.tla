------------------------------ MODULE OAuthFlow ------------------------------
(***************************************************************************)
(* Connecting to QuickBooks through the browser (routes/admin_oauth.py,    *)
(* auth/oauth_state.py, auth/admin_launch.py and the two dependencies they *)
(* share in deps.py).                                                      *)
(*                                                                         *)
(* GET /admin/oauth/start mints a one-time state and sends the browser to  *)
(* Intuit; Intuit sends it back to /callback with the state and a code,    *)
(* which the callback exchanges for tokens.  The two requests meet in the  *)
(* OAuthStateStore of a process.  Cloud Run runs several processes (the    *)
(* instances, and their successors after a restart), sends each request to *)
(* any of them, and stops them when it likes.                              *)
(*                                                                         *)
(* A state is identified with the start request that minted it.  What      *)
(* becomes of the tokens in the store is in TokenLifecycle.                *)
(***************************************************************************)
EXTENDS Naturals, FiniteSets

CONSTANTS
    Starts,     \* the requests to /start
    Callbacks,  \* the requests to /callback
    Forged,     \* a state that no process minted, or none at all
    Expiry,     \* Expiry[s]: when the launch token of start s expires: 0 for no
                \* valid token, beyond MaxClock for an allowlisted operator or
                \* where the launch gate is off
    Processes,  \* the processes, one after another or side by side
    None,       \* no process has been reached, or no store has been built
    TTL,        \* oauth_state_ttl_seconds
    MaxClock    \* bound on the clock

Calls == Starts \cup Callbacks

ASSUME FlowAssumption ==
    /\ Starts \cap Callbacks = {}
    /\ Forged \notin Starts
    /\ Expiry \in [Starts -> Nat]
    /\ None \notin Calls \cup Processes
    /\ TTL \in Nat \ {0}
    /\ MaxClock \in Nat

Never == MaxClock + 1

VARIABLES
    clock,      \* time.monotonic() and time.time()
    up,         \* the processes that run
    memo,       \* per process: who built its memoized store (lru_cache)
    states,     \* per store (named by its builder): when each state was minted
    pc,         \* where each request is
    at,         \* per request: its process
    uses,       \* per request: who built the store it was given
    now,        \* per request: its reading of the clock
    state,      \* per callback: the state it carries
    answer      \* per request: its answer

vars == <<clock, up, memo, states, pc, at, uses, now, state, answer>>

Init ==
    /\ clock = 0
    /\ up = Processes
    /\ memo = [p \in Processes |-> None]
    /\ states = [b \in Calls |-> [s \in Starts |-> Never]]
    /\ pc = [c \in Calls |-> "browser"]
    /\ at = [c \in Calls |-> None]
    /\ uses = [c \in Calls |-> None]
    /\ now = [c \in Calls |-> 0]
    /\ state = [c \in Callbacks |-> Forged]
    /\ answer = [c \in Calls |-> "none"]

Answer(c, a) ==
    /\ answer' = [answer EXCEPT ![c] = a]
    /\ pc' = [pc EXCEPT ![c] = "done"]
---------------------------------------------------------------------------
(* A request reaches a process *)

\* require_launch_authorization(), verify_launch_token(): still unexpired.
Authorized(s) == clock < Expiry[s]

ArriveStart(s, p) ==
    /\ pc[s] = "browser"
    /\ at' = [at EXCEPT ![s] = p]
    /\ IF Authorized(s)
       THEN pc' = [pc EXCEPT ![s] = "store"] /\ UNCHANGED answer
       ELSE Answer(s, "forbidden")
    /\ UNCHANGED <<clock, up, memo, states, uses, now, state>>

\* The callback is exempt from the launch gate.  The browser knows a state
\* only from the redirect that carried it, and may send the same URL again.
ArriveCallback(c, p, s) ==
    /\ pc[c] = "browser"
    /\ s # Forged => answer[s] = "redirect"
    /\ at' = [at EXCEPT ![c] = p]
    /\ state' = [state EXCEPT ![c] = s]
    /\ pc' = [pc EXCEPT ![c] = "store"]
    /\ UNCHANGED <<clock, up, memo, states, uses, now, answer>>
---------------------------------------------------------------------------
(* get_oauth_state_store(): lru_cache around the constructor *)

Given(c, b) ==
    /\ uses' = [uses EXCEPT ![c] = b]
    /\ pc' = [pc EXCEPT ![c] = "handler"]

Hit(c) ==
    /\ pc[c] = "store"
    /\ memo[at[c]] # None
    /\ Given(c, memo[at[c]])
    /\ UNCHANGED <<clock, up, memo, states, at, now, state, answer>>

\* A miss runs the constructor, outside any lock.
Miss(c) ==
    /\ pc[c] = "store"
    /\ memo[at[c]] = None
    /\ pc' = [pc EXCEPT ![c] = "build"]
    /\ UNCHANGED <<clock, up, memo, states, at, uses, now, state, answer>>

\* The first to return fills the cache; another keeps what it built.
Build(c) ==
    /\ pc[c] = "build"
    /\ memo' = [memo EXCEPT ![at[c]] = IF @ = None THEN c ELSE @]
    /\ Given(c, c)
    /\ UNCHANGED <<clock, up, states, at, now, state, answer>>
---------------------------------------------------------------------------
(* OAuthStateStore: the clock is read before the lock is taken *)

ReadClock(c) ==
    /\ now' = [now EXCEPT ![c] = clock]
    /\ UNCHANGED <<clock, up, memo, states, at, uses, state, answer>>

\* Seeded bug: states live one tick longer than their TTL.
ExpiredMutantLate(minted, time) == minted # Never /\ minted + TTL < time

Expired(minted, time) == minted # Never /\ minted + TTL <= time

\* _purge_expired_locked().
Purged(minted, time) ==
    [s \in Starts |-> IF Expired(minted[s], time) THEN Never ELSE minted[s]]

Creating(s) ==
    /\ pc[s] = "handler"
    /\ pc' = [pc EXCEPT ![s] = "create"]
    /\ ReadClock(s)

Create(s) ==
    /\ pc[s] = "create"
    /\ states' = [states EXCEPT ![uses[s]] = [Purged(@, now[s]) EXCEPT ![s] = now[s]]]
    /\ pc' = [pc EXCEPT ![s] = "discover"]
    /\ UNCHANGED <<clock, up, memo, at, uses, now, state, answer>>

\* The authorize endpoint comes from the discovery document, or its fallback.
Redirect(s) ==
    /\ pc[s] = "discover"
    /\ Answer(s, "redirect")
    /\ UNCHANGED <<clock, up, memo, states, at, uses, now, state>>

\* Seeded bug: the error of one flow clears the store.
DeniedMutantClears(c) ==
    /\ pc[c] = "handler"
    /\ states' = [states EXCEPT ![uses[c]] = [s \in Starts |-> Never]]
    /\ Answer(c, "denied")
    /\ UNCHANGED <<clock, up, memo, at, uses, now, state>>

\* The URL brings an error of Intuit's (the user said no), which
\* "short-circuits before we consume state".
Denied(c) ==
    /\ pc[c] = "handler"
    /\ Answer(c, "denied")
    /\ UNCHANGED <<clock, up, memo, states, at, uses, now, state>>

\* The URL brings neither an error nor a state.
Stateless(c) ==
    /\ pc[c] = "handler"
    /\ state[c] = Forged
    /\ Answer(c, "mismatch")
    /\ UNCHANGED <<clock, up, memo, states, at, uses, now, state>>

\* The URL brings no error.
Consuming(c) ==
    /\ pc[c] = "handler"
    /\ pc' = [pc EXCEPT ![c] = "consume"]
    /\ ReadClock(c)

\* Seeded bug: the state is looked up and left where it is.
PoppedMutantKept(c) == Purged(states[uses[c]], now[c])

\* What the pop finds, and what it leaves.
Found(c) == state[c] # Forged /\ Purged(states[uses[c]], now[c])[state[c]] # Never
Popped(c) == [s \in Starts |->
    IF s = state[c] THEN Never ELSE Purged(states[uses[c]], now[c])[s]]

Consume(c) ==
    /\ pc[c] = "consume"
    /\ states' = [states EXCEPT ![uses[c]] = Popped(c)]
    /\ IF Found(c)
       THEN pc' = [pc EXCEPT ![c] = "consumed"] /\ UNCHANGED answer
       ELSE Answer(c, "mismatch")
    /\ UNCHANGED <<clock, up, memo, at, uses, now, state>>
---------------------------------------------------------------------------
(* The rest of the callback *)

\* The URL brings no code or no realm: the state is spent all the same.
Incomplete(c) ==
    /\ pc[c] = "consumed"
    /\ Answer(c, "incomplete")
    /\ UNCHANGED <<clock, up, memo, states, at, uses, now, state>>

\* exchange_code(): Intuit hands out tokens, or refuses.
Exchange(c) ==
    /\ pc[c] = "consumed"
    /\ \/ pc' = [pc EXCEPT ![c] = "save"] /\ UNCHANGED answer
       \/ Answer(c, "failed")
    /\ UNCHANGED <<clock, up, memo, states, at, uses, now, state>>

Save(c) ==
    /\ pc[c] = "save"
    /\ Answer(c, "connected") \/ Answer(c, "failed")
    /\ UNCHANGED <<clock, up, memo, states, at, uses, now, state>>
---------------------------------------------------------------------------
(* The platform *)

Tick ==
    /\ clock < MaxClock
    /\ clock' = clock + 1
    /\ UNCHANGED <<up, memo, states, pc, at, uses, now, state, answer>>

\* A process is stopped: its requests go no further, and its states are gone.
Stop(p) ==
    /\ p \in up
    /\ up # {p}
    /\ up' = up \ {p}
    /\ UNCHANGED <<clock, memo, states, pc, at, uses, now, state, answer>>

Resolve(c) == Hit(c) \/ Miss(c) \/ Build(c)
StartStep(s) ==
    \/ \E p \in up : ArriveStart(s, p)
    \/ /\ at[s] \in up
       /\ Resolve(s) \/ Creating(s) \/ Create(s) \/ Redirect(s)
CallbackStep(c) ==
    \/ \E p \in up, s \in Starts \cup {Forged} : ArriveCallback(c, p, s)
    \/ /\ at[c] \in up
       /\ \/ Resolve(c) \/ Denied(c) \/ Stateless(c) \/ Consuming(c)
          \/ Consume(c) \/ Incomplete(c) \/ Exchange(c) \/ Save(c)

\* Nothing more need happen once every request is answered or cut off.
Finished ==
    /\ \A c \in Calls : pc[c] \in {"browser", "done"} \/ at[c] \notin up
    /\ UNCHANGED vars

Next ==
    \/ \E s \in Starts : StartStep(s)
    \/ \E c \in Callbacks : CallbackStep(c)
    \/ Tick
    \/ \E p \in Processes : Stop(p)
    \/ Finished

Spec == Init /\ [][Next]_vars
---------------------------------------------------------------------------
(* Properties *)

Pcs == {"browser", "store", "build", "handler", "create", "discover", "consume",
        "consumed", "save", "done"}
Answers == {"none", "forbidden", "redirect", "denied", "mismatch", "incomplete",
            "failed", "connected"}

\* The callbacks whose state was accepted.
Accepted == {c \in Callbacks : \/ pc[c] \in {"consumed", "save"}
                               \/ answer[c] \in {"incomplete", "failed", "connected"}}

\* "The one-time-ness of the actual OAuth handshake is enforced downstream by
\* the CSRF state token" (admin_launch.py:20): however often and wherever a
\* callback URL is sent, concurrently or again later, its state is accepted
\* once.
AcceptedOnce == \A c, d \in Accepted : state[c] = state[d] => c = d

\* A code is only exchanged for a flow that a /start of the same process, on the
\* same store, began less than the TTL ago, going by the readings that the two
\* requests took before they waited for the store's lock.
OnlyFreshFlows ==
    \A c \in Accepted :
        /\ state[c] \in Starts
        /\ at[c] = at[state[c]] /\ uses[c] = uses[state[c]]
        /\ now[c] < now[state[c]] + TTL

\* What a refused callback can be blamed on.
TooLate(s) == \E d \in Calls : uses[d] = uses[s] /\ now[d] >= now[s] + TTL
Elsewhere(c, s) == at[c] # at[s]
LostRace(c) == uses[c] = c /\ memo[at[c]] # c

\* "leaving the state intact lets the operator retry from the same /start
\* link" (admin_oauth.py:71-73): a state stays good through denials, other
\* flows and their purges.  It is refused only if it was forged, used, or
\* minted a TTL ago; if the callback reached another process; or if either
\* request lost the race to build a cold process's store.
RefusalsExplained ==
    \A c \in Callbacks : answer[c] = "mismatch" =>
        LET s == state[c] IN
        \/ s = Forged
        \/ \E d \in Accepted : state[d] = s
        \/ TooLate(s) \/ Elsewhere(c, s) \/ LostRace(c) \/ LostRace(s)
=============================================================================
