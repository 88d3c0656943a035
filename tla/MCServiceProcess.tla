--------------------------- MODULE MCServiceProcess ---------------------------
(* One request under all settings, or a few on a developer's machine. *)
EXTENDS ServiceProcess, TLC

CONSTANTS a, b, c

Local == [cloudRun |-> FALSE, admin |-> TRUE, data |-> TRUE,
          allowlist |-> "empty", secret |-> FALSE]

Plain(path) == [path |-> path, identity |-> "none", header |-> "none",
                query |-> "none", id |-> "none"]

\* Requests of kinds that share the lock, the file or the cache.
Mix(paths) == [config |-> Local, incoming |-> [r \in DOMAIN paths |-> Plain(paths[r])]]
Three(p, q, r) == Mix((a :> p) @@ (b :> q) @@ (c :> r))
Two(p, q) == Mix((a :> p) @@ (b :> q))
Mixes == {Three("data", "data", "callback"), Three("data", "disconnect", "data"),
          Three("start", "start", "disconnect"),
          Two("callback", "callback"), Two("callback", "disconnect")}

\* a asks for anything, under any settings.
Tokens == {<<"none", "none">>, <<"none", "valid">>, <<"valid", "none">>, <<"bad", "valid">>}
People == {<<"malformed", "sane">>, <<"other", "odd">>, <<"listed", "sane">>}
Whole(path, who, tokens) ==
    [path |-> path, identity |-> who[1], header |-> tokens[1], query |-> tokens[2], id |-> who[2]]
Alone == {[config |-> g, incoming |-> a :> Whole(p, w, t)] :
             g \in Configs, p \in Paths, w \in People, t \in Tokens}

MCScenarios == Mixes \cup Alone
MCInitially == {Missing, Holds(1)}
=============================================================================
