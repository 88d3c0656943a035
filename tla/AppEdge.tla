------------------------------- MODULE AppEdge -------------------------------
(***************************************************************************)
(* The edge of the application, between uvicorn and the route handlers:    *)
(* the check at startup (main.py, auth/admin_gate.py), the middleware      *)
(* stack (middleware.py, admin_gate.py), the route groups (main.py) and    *)
(* the launch gate (deps.py).                                              *)
(*                                                                         *)
(* A request that arrives runs through the stack without an await that     *)
(* gives way, so Arrive is one step: it ends in a refusal, or in the       *)
(* handler, which answers or raises.  The answer goes out through the      *)
(* layers that enclose the one that sent it.                               *)
(***************************************************************************)
EXTENDS Naturals, Sequences

CONSTANTS
    Requests,       \* the requests of a run
    Scenarios       \* the settings and requests of the runs: [config, incoming]

AdminRoutes == {"start", "callback", "confirm", "disconnect"}
AdminPaths == AdminRoutes \cup {"admin_other"}
Paths == AdminPaths \cup {"data", "health"}

\* QBSVC_ADMIN_ALLOWLIST is not set, only blanks and commas, or the operator's.
Configs == [cloudRun : BOOLEAN, admin : BOOLEAN, data : BOOLEAN,
            allowlist : {"empty", "blank", "listed"}, secret : BOOLEAN]

\* What a request carries: the identity in its JWT, launch tokens in the header
\* and the query, and an X-Request-ID.
Launch == {"none", "bad", "valid"}
Messages == [path : Paths, identity : {"none", "malformed", "other", "listed"},
         header : Launch, query : Launch, id : {"none", "odd", "sane"}]

ASSUME ScenariosAssumption ==
    \A s \in Scenarios :
        /\ s.config \in Configs
        /\ DOMAIN s.incoming \subseteq Requests
        /\ \A r \in DOMAIN s.incoming : s.incoming[r] \in Messages

VARIABLES
    config,     \* the settings, and whether K_SERVICE is set
    incoming,   \* the requests that arrive, and what each carries
    phase,      \* the process: "down", "refused" or "up"
    at,         \* where a request is
    bound,      \* the request id in its context
    holder,     \* status_holder of RequestIDMiddleware
    answer,     \* what the client got: a status and the id in its header
    logs        \* the statuses in the request's access log lines

settled == <<config, incoming>>
edgeVars == <<settled, phase, at, bound, holder, answer, logs>>

Arriving == DOMAIN incoming
Nothing == [status |-> 0, id |-> "none"]

EdgeInit ==
    /\ \E s \in Scenarios : config = s.config /\ incoming = s.incoming
    /\ phase = "down"
    /\ at = [c \in Requests |-> "client"]
    /\ bound = [c \in Requests |-> "none"]
    /\ holder = [c \in Requests |-> 500]
    /\ answer = [c \in Requests |-> Nothing]
    /\ logs = [c \in Requests |-> <<>>]

---------------------------------------------------------------------------
(* Startup *)

\* Blank entries do not count (_split_admin_allowlist, _normalize_allowlist).
Allowlist == IF config.allowlist = "listed" THEN {"listed"} ELSE {}

\* Seeded bug: any entry counts, a blank one too.
GateMissingMutantRaw ==
    config.cloudRun /\ config.admin /\ config.allowlist = "empty" /\ ~config.secret

\* ensure_admin_gate_configured raises.
GateMissing ==
    config.cloudRun /\ config.admin /\ Allowlist = {} /\ ~config.secret

Boot ==
    /\ phase = "down"
    /\ phase' = IF GateMissing THEN "refused" ELSE "up"
    /\ UNCHANGED <<settled, at, bound, holder, answer, logs>>

---------------------------------------------------------------------------
(* The stack *)

\* Seeded bug: the middlewares are added in the other order.
StackMutantGateOutermost == <<"AdminGate", "RequestID", "Routes">>

\* Starlette runs the middleware that was added last first.
Stack == <<"RequestID", "AdminGate", "Routes">>

\* The layers that a message of this layer passes on its way out.
Enclosing(layer) ==
    {Stack[i] : i \in {j \in DOMAIN Stack : \A k \in 1 .. j : Stack[k] # layer}}

\* _resolve_request_id: the client's, if it looks like one, or a new one.
ResolvedId(c) == IF incoming[c].id = "sane" THEN "supplied" ELSE "minted"

IdAt(c, layer) == IF "RequestID" \in Enclosing(layer) THEN ResolvedId(c) ELSE "none"

\* The head of a response leaves a layer: the wrapper notes its status and adds
\* the id.
StartResponse(c, layer, status) ==
    /\ answer' = [answer EXCEPT ![c] = [status |-> status, id |-> IdAt(c, layer)]]
    /\ holder' = [holder EXCEPT ![c] =
                    IF "RequestID" \in Enclosing(layer) THEN status ELSE @]
    /\ at' = [at EXCEPT ![c] = "leaving"]

\* extract_email_from_bearer
Email(c) == IF incoming[c].identity \in {"other", "listed"} THEN incoming[c].identity ELSE "none"

\* AdminGateMiddleware
Forbidden(c) ==
    incoming[c].path \in AdminPaths /\ Allowlist # {} /\ Email(c) \notin Allowlist

Served(c) ==
    \/ incoming[c].path \in AdminRoutes /\ config.admin
    \/ incoming[c].path = "data" /\ config.data
    \/ incoming[c].path = "health"

\* The header is preferred to the query.
Presented(c) == IF incoming[c].header # "none" THEN incoming[c].header ELSE incoming[c].query

\* require_launch_authorization, a dependency of the admin router.
Launched(c) ==
    \/ incoming[c].path \notin AdminRoutes
    \/ ~config.secret
    \/ incoming[c].path = "callback"
    \/ Presented(c) = "valid"
    \/ Email(c) \in Allowlist

\* The request reaches this layer, and has passed those around it.
Arrive(c, layer) ==
    /\ phase = "up" /\ at[c] = "client"
    /\ bound' = [bound EXCEPT ![c] = IdAt(c, layer)]
    /\ UNCHANGED <<settled, phase, logs>>

\* _send_forbidden
Forbid(c) ==
    /\ Forbidden(c)
    /\ Arrive(c, "AdminGate")
    /\ StartResponse(c, "AdminGate", 403)

NotFound(c) ==
    /\ ~Forbidden(c) /\ ~Served(c)
    /\ Arrive(c, "Routes")
    /\ StartResponse(c, "Routes", 404)

LaunchDenied(c) ==
    /\ ~Forbidden(c) /\ Served(c) /\ ~Launched(c)
    /\ Arrive(c, "Routes")
    /\ StartResponse(c, "Routes", 403)

Admit(c) ==
    /\ ~Forbidden(c) /\ Served(c) /\ Launched(c)
    /\ Arrive(c, "Routes")
    /\ at' = [at EXCEPT ![c] = "handler"]
    /\ UNCHANGED <<holder, answer>>

---------------------------------------------------------------------------
(* The way out *)

\* The handler returns, or raises what an exception handler turns into an
\* envelope.
Respond(c, status) ==
    /\ at[c] = "handler"
    /\ StartResponse(c, "Routes", status)
    /\ UNCHANGED <<settled, phase, bound, logs>>

\* An exception that no handler of errors.py names.
Raise(c) ==
    /\ at[c] = "handler"
    /\ at' = [at EXCEPT ![c] = "raised"]
    /\ UNCHANGED <<settled, phase, bound, holder, answer, logs>>

\* The body of a response cannot be sent.
BreakOff(c) ==
    /\ at[c] = "leaving" /\ answer[c].status = 200
    /\ at' = [at EXCEPT ![c] = "raised"]
    /\ UNCHANGED <<settled, phase, bound, holder, answer, logs>>

\* The exception reaches RequestIDMiddleware before a response has started.
InternalError(c) ==
    /\ at[c] = "raised" /\ answer[c] = Nothing
    /\ answer' = [answer EXCEPT ![c] = [status |-> 500, id |-> bound[c]]]
    /\ holder' = [holder EXCEPT ![c] = 500]
    /\ at' = [at EXCEPT ![c] = "leaving"]
    /\ UNCHANGED <<settled, phase, bound, logs>>

\* The `finally` of RequestIDMiddleware, for a request that got that far.
Log(c) ==
    /\ at' = [at EXCEPT ![c] = "done"]
    /\ logs' = [logs EXCEPT ![c] =
                  IF bound[c] = "none" THEN @ ELSE Append(@, holder[c])]
    /\ bound' = [bound EXCEPT ![c] = "none"]
    /\ UNCHANGED <<settled, phase, holder, answer>>

Leave(c) == at[c] = "leaving" /\ Log(c)

\* Seeded bug: an exception that is raised again is not logged.
LeaveRaisingMutantSilent(c) ==
    /\ at[c] = "raised" /\ answer[c] # Nothing
    /\ at' = [at EXCEPT ![c] = "done"]
    /\ bound' = [bound EXCEPT ![c] = "none"]
    /\ UNCHANGED <<settled, phase, holder, answer, logs>>

\* The response has started: the exception is raised again.
LeaveRaising(c) == at[c] = "raised" /\ answer[c] # Nothing /\ Log(c)

Enter(c) == Forbid(c) \/ NotFound(c) \/ LaunchDenied(c)
Exit(c) == BreakOff(c) \/ InternalError(c) \/ Leave(c) \/ LeaveRaising(c)
---------------------------------------------------------------------------
(* Properties *)

EdgeTypeOK ==
    /\ phase \in {"down", "refused", "up"}
    /\ at \in [Requests -> {"client", "handler", "raised", "leaving", "done"}]
    /\ bound \in [Requests -> {"none", "supplied", "minted"}]
    /\ \A c \in Requests : holder[c] \in Nat /\ answer[c].status \in Nat /\ Len(logs[c]) <= 1

\* "that would let any roles/run.invoker caller reach the OAuth admin routes"
\* (admin_gate.py:86): whatever the settings, on Cloud Run an admin handler runs
\* only for an identity on the allowlist or a click the launch secret vouches
\* for, but for Intuit's callback on the service that has the launch gate.
NoOpenAdmin ==
    \A c \in Arriving :
        config.cloudRun /\ at[c] = "handler" /\ incoming[c].path \in AdminRoutes =>
            \/ Email(c) = "listed" /\ config.allowlist = "listed"
            \/ config.secret /\ (Presented(c) = "valid" \/ incoming[c].path = "callback")

\* Every answer, a refusal of the gate and a 500 too, carries the id of its
\* request (main.py:65-70, middleware.py:81-86).
EveryAnswerCarriesItsId ==
    \A c \in Arriving : answer[c] # Nothing => answer[c].id = ResolvedId(c)

\* One access log line per request, with the status that the client was sent,
\* even when the handler raised or the response broke off.
LogTellsTheTruth ==
    \A c \in Arriving : at[c] = "done" => logs[c] = <<answer[c].status>>
=============================================================================
