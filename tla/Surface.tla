--------------------------------- MODULE Surface ---------------------------------
(***************************************************************************)
(* The routing table of the HTTP API (daemon/src/http.rs) and the catalog  *)
(* of tools an MCP client calls it through (mcp.rs), with the token that   *)
(* guards both.                                                            *)
(*                                                                         *)
(* A path is the sequence of its segments; "v1" stands for /api/v1.  What  *)
(* a handler does is in the component's own module: here it is known by    *)
(* the method and the pattern of its arm.                                  *)
(***************************************************************************)
EXTENDS Naturals, Sequences, SequencesExt, FiniteSets

CONSTANTS Names   \* segments that stand for ids, keys, names

VARIABLES
  token_set,   \* whether State.auth_token is set
  answered     \* the request just answered: [by, asked, method, path, status, handler]

vars == <<token_set, answered>>

---------------------------------------------------------------------------------
\* route_inner, in the order of its arms; the methods of one pattern are written
\* together.

At(path, methods) == [path |-> path, kind |-> "at", suffix |-> "", methods |-> methods]
Under(path, methods) == [path |-> path, kind |-> "under", suffix |-> "", methods |-> methods]
Ending(path, suffix, methods) == [path |-> path, kind |-> "under", suffix |-> suffix, methods |-> methods]
From(path, methods) == [path |-> path, kind |-> "from", suffix |-> "", methods |-> methods]

LegacyArms == <<
  At(<<"health">>, {"GET"}), At(<<"mode">>, {"GET", "POST"}), At(<<"compile">>, {"POST"}),
  At(<<"services">>, {"GET"}), At(<<"routes">>, {"GET"}), At(<<"codegen", "latest">>, {"GET"}),
  At(<<"db", "status">>, {"GET"}), At(<<"db", "create">>, {"POST"}), At(<<"db", "migrate">>, {"POST"}),
  At(<<"db", "destroy">>, {"DELETE"}), At(<<"redis", "status">>, {"GET"})>>
CoreArms == <<
  At(<<"v1", "health">>, {"GET"}), At(<<"v1", "version">>, {"GET"}),
  At(<<"v1", "mode">>, {"GET", "POST"}), At(<<"v1", "compile">>, {"POST"}),
  At(<<"v1", "services">>, {"GET"}), At(<<"v1", "routes">>, {"GET"}),
  At(<<"v1", "codegen", "latest">>, {"GET"}), At(<<"v1", "pg", "status">>, {"GET"}),
  At(<<"v1", "pg", "create">>, {"POST"}), At(<<"v1", "pg", "migrate">>, {"POST"}),
  At(<<"v1", "pg", "destroy">>, {"DELETE"}), At(<<"v1", "redis", "status">>, {"GET"}),
  At(<<"v1", "auth", "status">>, {"GET"}), At(<<"v1", "auth", "set">>, {"POST"}),
  At(<<"v1", "auth", "clear">>, {"DELETE"}), At(<<"v1", "traces">>, {"DELETE", "GET"}),
  Under(<<"v1", "traces">>, {"GET"}), At(<<"v1", "metrics">>, {"DELETE", "GET"}),
  At(<<"v1", "metrics", "prometheus">>, {"GET"}), At(<<"v1", "openapi">>, {"GET"}),
  At(<<"v1", "sampling">>, {"POST"}), At(<<"v1", "stream", "traces">>, {"GET"}),
  At(<<"v1", "stream", "metrics">>, {"GET"}), At(<<"v1", "stream", "services">>, {"GET"})>>
PipelineArms == <<
  At(<<"v1", "middleware">>, {"DELETE", "GET", "POST"}), At(<<"v1", "watch">>, {"GET"}),
  At(<<"v1", "watch", "files">>, {"DELETE", "POST"}), At(<<"v1", "watch", "dirs">>, {"POST"}),
  At(<<"v1", "ratelimit">>, {"DELETE", "GET", "POST"}), At(<<"v1", "config">>, {"GET"}),
  At(<<"v1", "validate">>, {"DELETE", "GET", "POST"}),
  At(<<"v1", "static">>, {"DELETE", "GET", "POST"}), At(<<"v1", "auth", "token">>, {"DELETE", "POST"}),
  From(<<"v1", "auth", "whoami">>, {"GET"})>>
StoreArms == <<
  At(<<"v1", "tx">>, {"GET", "POST"}), Under(<<"v1", "tx">>, {"PUT"}),
  Ending(<<"v1", "tx">>, "commit", {"POST"}), Ending(<<"v1", "tx">>, "rollback", {"POST"}),
  At(<<"v1", "tx", "prune">>, {"GET"}), At(<<"v1", "storage">>, {"GET"}),
  At(<<"v1", "storage", "buckets">>, {"POST"}), Under(<<"v1", "storage", "buckets">>, {"DELETE"}),
  Ending(<<"v1", "storage", "buckets">>, "sign", {"POST"}),
  Under(<<"v1", "storage", "objects">>, {"DELETE", "GET", "PUT"}),
  At(<<"v1", "storage", "objects">>, {"GET"})>>
PubSubArms == <<
  At(<<"v1", "pubsub">>, {"GET"}), At(<<"v1", "pubsub", "subscriptions">>, {"GET", "POST"}),
  At(<<"v1", "pubsub", "topics">>, {"POST"}), At(<<"v1", "pubsub", "publish">>, {"POST"}),
  Under(<<"v1", "pubsub", "subscriptions">>, {"GET"}),
  Ending(<<"v1", "pubsub", "subscriptions">>, "pull", {"POST"}),
  At(<<"v1", "pubsub", "ack">>, {"POST"}), At(<<"v1", "pubsub", "nack">>, {"POST"}),
  Under(<<"v1", "pubsub", "dlq">>, {"GET"})>>
ControlArms == <<
  At(<<"v1", "infra">>, {"GET"}), At(<<"v1", "infra", "env">>, {"DELETE", "POST"}),
  At(<<"v1", "infra", "services">>, {"GET", "POST"}),
  At(<<"v1", "infra", "databases">>, {"GET", "POST"}), At(<<"v1", "infra", "tls">>, {"POST"}),
  At(<<"v1", "testing">>, {"GET"}), At(<<"v1", "testing", "mode", "enter">>, {"POST"}),
  At(<<"v1", "testing", "mode", "exit">>, {"POST"}),
  At(<<"v1", "testing", "databases">>, {"DELETE", "POST"}),
  At(<<"v1", "testing", "mocks", "auth">>, {"POST"}),
  At(<<"v1", "testing", "mocks", "services">>, {"POST"}), At(<<"v1", "testing", "mocks">>, {"DELETE"}),
  At(<<"v1", "deploy">>, {"GET", "POST"}), At(<<"v1", "deploy", "status">>, {"POST"}),
  At(<<"v1", "deploy", "rollback">>, {"POST"}), At(<<"v1", "deploy", "dockerfile">>, {"GET"}),
  At(<<"v1", "mcp">>, {"POST"}), At(<<"v1", "ws">>, {"GET"}),
  At(<<"v1", "ws", "handshake">>, {"POST"}), At(<<"v1", "ws", "join">>, {"POST"}),
  At(<<"v1", "ws", "leave">>, {"POST"}), At(<<"v1", "ws", "broadcast">>, {"POST"})>>
DataArms == <<
  At(<<"v1", "secrets">>, {"GET"}), At(<<"v1", "secrets", "set">>, {"POST"}),
  At(<<"v1", "secrets", "get">>, {"POST"}), At(<<"v1", "secrets", "check">>, {"POST"}),
  Under(<<"v1", "secrets">>, {"DELETE"}), At(<<"v1", "cache">>, {"GET"}),
  At(<<"v1", "cache", "keyspaces">>, {"GET", "POST"}),
  At(<<"v1", "cache", "keyspaces", "entries">>, {"GET"}),
  Under(<<"v1", "cache", "keyspaces">>, {"DELETE", "GET"}),
  Under(<<"v1", "cache", "entry">>, {"DELETE", "GET", "PUT"}), At(<<"v1", "cache", "mget">>, {"POST"}),
  At(<<"v1", "cache", "mset">>, {"POST"})>>
Arms == LegacyArms \o CoreArms \o PipelineArms \o StoreArms \o PubSubArms \o ControlArms \o DataArms

Fits(arm, path) ==
  /\ IsPrefix(arm.path, path)
  /\ CASE arm.kind = "at" -> path = arm.path
       [] arm.kind = "under" -> path # arm.path /\ arm.suffix \in {"", path[Len(path)]}
       [] OTHER -> TRUE

\* A legacy path is served by the function of its twin below /api/v1.
Twin(path) ==
  IF path[1] = "v1" THEN path ELSE <<"v1", IF path[1] = "db" THEN "pg" ELSE path[1]>> \o Tail(path)
Handler(method, arm) == <<method, Twin(arm.path), arm.kind, arm.suffix>>
Absent == <<"none">>

\* Mutation: the arm with a pattern is asked before the one with the very path.
RouteInnerPatternsFirst(method, path) ==
  LET arms == SelectSeq(Arms, LAMBDA a : method \in a.methods /\ Fits(a, path))
      patterns == SelectSeq(arms, LAMBDA a : a.kind # "at")
  IN IF arms = <<>> THEN Absent ELSE Handler(method, (patterns \o arms)[1])

RouteInner(method, path) ==
  LET arms == SelectSeq(Arms, LAMBDA a : method \in a.methods /\ Fits(a, path))
  IN IF arms = <<>> THEN Absent ELSE Handler(method, arms[1])

\* should_enforce_auth
Public == {<<"health">>, <<"v1", "health">>, <<"v1", "version">>, <<"v1", "auth", "status">>,
           <<"v1", "auth", "set">>, <<"v1", "auth", "clear">>}

\* route, as far as the token goes: what is answered to a request with or without it.
Status(method, path, credentials) ==
  IF token_set /\ path \notin Public /\ ~credentials THEN 401
  ELSE IF RouteInner(method, path) = Absent THEN 404 ELSE 200

---------------------------------------------------------------------------------
\* mcp.rs

Tool(method, path) == [method |-> method, path |-> <<"v1">> \o path]
Tools == {
  Tool("POST", <<"compile">>), Tool("GET", <<"services">>), Tool("GET", <<"routes">>),
  Tool("GET", <<"traces">>), Tool("GET", <<"metrics">>), Tool("GET", <<"logs">>),
  Tool("POST", <<"secrets", "set">>), Tool("POST", <<"secrets", "check">>),
  Tool("POST", <<"cache", "keyspaces", "kv", "entries">>), Tool("POST", <<"pubsub", "publish">>),
  Tool("GET", <<"infra">>), Tool("POST", <<"testing", "databases">>),
  Tool("POST", <<"testing", "mocks", "auth">>), Tool("POST", <<"deploy">>)}

---------------------------------------------------------------------------------

Nothing == [by |-> "nobody", asked |-> Absent, method |-> "GET", path |-> <<"health">>, status |-> 200, handler |-> Absent]

Init == token_set = FALSE /\ answered = Nothing

\* What the handler of a request that got through does to the token.
TokenAfter(status, method, path) ==
  token_set' = CASE status = 200 /\ method = "POST" /\ path = <<"v1", "auth", "set">> -> TRUE
                 [] status = 200 /\ method = "DELETE" /\ path = <<"v1", "auth", "clear">> -> FALSE
                 [] OTHER -> token_set

Answer(by, asked, method, path, credentials) ==
  LET status == Status(method, path, credentials)
  IN /\ answered = Nothing
     /\ answered' = [by |-> by, asked |-> asked, method |-> method, path |-> path, status |-> status,
                     handler |-> IF status = 200 THEN RouteInner(method, path) ELSE Absent]
     /\ TokenAfter(status, method, path)

\* The paths that are written for an arm.
PathsOf(arm) ==
  LET rests == IF arm.kind = "at" THEN {<<>>}
               ELSE (IF arm.kind = "from" THEN {<<>>} ELSE {}) \cup {<<n>> : n \in Names}
  IN {arm.path \o r \o IF arm.suffix = "" THEN <<>> ELSE <<arm.suffix>> : r \in rests}

\* A client asks for what an arm is there for ...
Request(arm, method, credentials) ==
  \E path \in PathsOf(arm) : Answer("client", Handler(method, arm), method, path, credentials)

\* ... or for something else.
Stray(method, path, credentials) == Answer("client", Absent, method, path, credentials)

\* mcp_request and call_tool: the request it makes carries the tool's method and path,
\* or others the caller gives, and no header of the caller's.
ToolCall(tool, credentials) ==
  IF Status("POST", <<"v1", "mcp">>, credentials) = 200
  THEN Answer("tool", <<IF credentials THEN "with" ELSE "without">>, tool.method, tool.path, FALSE)
  ELSE Answer("client", Absent, "POST", <<"v1", "mcp">>, credentials)

\* The answer has arrived.
Read == answered' = Nothing /\ UNCHANGED token_set

Next ==
  \/ Read
  \/ \E credentials \in BOOLEAN :
      \/ \E i \in DOMAIN Arms : \E method \in Arms[i].methods : Request(Arms[i], method, credentials)
      \/ \E method \in {"GET", "PATCH"}, n \in Names : Stray(method, <<"v1", n>>, credentials)
      \/ \E tool \in Tools \cup {Tool("DELETE", <<"auth", "clear">>)} : ToolCall(tool, credentials)

Spec == Init /\ [][Next]_vars

---------------------------------------------------------------------------------
\* Properties

\* Every arm of the table serves the requests it is written for: none is shadowed by
\* an earlier one, whatever its pattern, and a legacy path is served by the function
\* of its twin.  The code's exception: a keyspace named "entries" is not shown.
ArmsAreNotShadowed ==
  answered.by = "client" /\ answered.status # 401 =>
    \/ answered.handler = answered.asked
    \/ /\ answered.path = <<"v1", "cache", "keyspaces", "entries">>
       /\ answered.asked[3] = "under"

\* "Tool invocations dispatch through the same router the REST routes use - exactly one
\* behavior surface" (mcp.rs:7): a tool answers its caller as its route would.
ToolsActAsTheirRoutes ==
  answered.by = "tool" => answered.status = Status(answered.method, answered.path, answered.asked = <<"with">>)

=================================================================================
