--------------------------------- MODULE MCPipeline ---------------------------------
(* An instance of Pipeline for TLC. *)
EXTENDS Pipeline, TLC

All == Methods \X Paths

\* Two middlewares with both hooks, and one that rejects posts.
Logger == [name |-> "logger", scope |-> All, before |-> "log", after |-> "run"]
Timer  == [name |-> "timer", scope |-> All, before |-> "log", after |-> "run"]
Gate   == [name |-> "gate", scope |-> {<<"POST", "app">>}, before |-> "reject", after |-> "run"]

MCNames == {"logger", "timer", "gate"}
MCScopes == {All, {<<"POST", "app">>}}
MCStartHooks == <<Logger, Timer>>

MCStartRules == [r \in {<<"GET", Star>>, <<Star, Star>>} |-> 1]

Ask(method, path, token, body, op, arg) ==
  [route |-> <<method, path>>, token |-> token, body |-> body, op |-> op, arg |-> arg]

MCRequests ==
  {Ask("GET", "app", None, "good", "other", None),
   Ask("POST", "auth", None, "good", "auth", "secret"),
   Ask("POST", "auth", None, "good", "auth", None),
   Ask("POST", "app", "secret", "good", "hook_add", Gate),
   Ask("POST", "app", "secret", "bad", "hook_remove", "timer"),
   Ask("POST", "app", None, "good", "rule_add", <<"GET", "app">>),
   Ask("POST", "app", None, "good", "rule_remove", <<Star, Star>>),
   Ask("POST", "app", None, "good", "schema_add", <<"POST", "app">>),
   Ask("POST", "app", None, "good", "schema_remove", <<"POST", "app">>)}

=====================================================================================
