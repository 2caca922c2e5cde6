----------------------------------- MODULE Wire -----------------------------------
(***************************************************************************)
(* The line protocol between the command line client (cli/src/main.rs) and *)
(* the daemon: build_command, parse_command and the percent coding of      *)
(* protocol/src/lib.rs, one connection of tcp.rs, and the token it sets    *)
(* with its HTTP twin in http.rs.                                          *)
(*                                                                         *)
(* Text is a sequence of symbols: a keyword is one symbol, "z" stands for  *)
(* the characters that are sent as they are, "eacute" for those up to      *)
(* U+00FF and "euro" for those beyond, and the two digits after a % are    *)
(* one symbol as well.                                                     *)
(***************************************************************************)
EXTENDS Strings, TLC

CONSTANTS Calls     \* what users of the client type: [cmd, rest]

VARIABLES
  call,         \* the invocation whose line is under way, or Idle
  auth_token,   \* State.auth_token, or Absent
  meant         \* history: the token the last user who set one wants to use

vars == <<call, auth_token, meant>>

Idle == [cmd |-> "idle", rest |-> <<>>]
Absent == <<"none">>

---------------------------------------------------------------------------------
\* Text

Text(ws) == Join(ws, <<" ">>)

\* percent_encode: `other as u8` keeps the low byte of a character.
Low == " " :> "20" @@ "newline" :> "0A" @@ "%" :> "25" @@ "eacute" :> "E9" @@ "euro" :> "AC"
Char == "20" :> " " @@ "0A" :> "newline" @@ "25" :> "%" @@ "E9" :> "eacute" @@ "AC" :> "not"

\* Mutation: the sign that introduces a code is sent as it is.
EncodeKeepsPercent(s) ==
  FlattenSeq([i \in DOMAIN s |-> IF s[i] \in DOMAIN Low \ {"%"} THEN <<"%", Low[s[i]]>> ELSE <<s[i]>>])

Encode(s) == FlattenSeq([i \in DOMAIN s |-> IF s[i] \in DOMAIN Low THEN <<"%", Low[s[i]]>> ELSE <<s[i]>>])

\* percent_decode: a % needs two hex digits; other bytes become characters one by
\* one, so what was not encoded loses its UTF-8.
Malformed(s) == \E i \in DOMAIN s : s[i] = "%" /\ (i = Len(s) \/ s[i + 1] \notin DOMAIN Char)
Bytes(c) == CASE c = "eacute" -> <<"Atilde", "copyright">>
              [] c = "euro" -> <<"acirc", "u82", "not">>
              [] OTHER -> <<c>>
Decode(s) == FlattenSeq([i \in DOMAIN s |->
               IF s[i] = "%" THEN <<>> ELSE IF s[i] \in DOMAIN Char THEN <<Char[s[i]]>> ELSE Bytes(s[i])])

---------------------------------------------------------------------------------
\* The client

\* build_command, the arms without an argument ...
Fixed ==
  "ping" :> <<"PING">> @@ "version" :> <<"VERSION">> @@ "health" :> <<"HEALTH">> @@
  "help" :> <<"HELP">> @@ "stop" :> <<"STOP">> @@ "mode-get" :> <<"MODE", "GET">> @@
  "services" :> <<"SERVICES", "LIST">> @@ "routes" :> <<"ROUTES", "LIST">> @@
  "auth-status" :> <<"AUTH", "STATUS">> @@ "auth-clear" :> <<"AUTH", "CLEAR">> @@
  "pg-status" :> <<"PG", "STATUS">> @@ "redis-status" :> <<"REDIS", "STATUS">> @@
  "redis-ping" :> <<"REDIS", "PING">> @@ "redis-flush" :> <<"REDIS", "FLUSH">> @@
  "trace-clear" :> <<"TRACE", "CLEAR">> @@ "metrics" :> <<"METRICS", "LIST">> @@
  "metrics-clear" :> <<"METRICS", "CLEAR">>

\* ... and those with: how many arguments are sent as they are, and whether the
\* rest of them follows encoded.
F(head, names, payload) == [head |-> head, names |-> names, payload |-> payload]
Forms ==
  "mode-set" :> F(<<"MODE", "SET">>, 1, FALSE) @@ "compile" :> F(<<"COMPILE">>, 0, TRUE) @@
  "db-put" :> F(<<"DB", "PUT">>, 2, TRUE) @@ "db-get" :> F(<<"DB", "GET">>, 2, FALSE) @@
  "db-del" :> F(<<"DB", "DEL">>, 2, FALSE) @@ "db-keys" :> F(<<"DB", "KEYS">>, 1, FALSE) @@
  "db-flush" :> F(<<"DB", "FLUSH">>, 1, FALSE) @@ "pg-create" :> F(<<"PG", "CREATE">>, 1, FALSE) @@
  "pg-migrate" :> F(<<"PG", "MIGRATE">>, 0, TRUE) @@ "pg-destroy" :> F(<<"PG", "DESTROY">>, 1, FALSE) @@
  "redis-get" :> F(<<"REDIS", "GET">>, 1, FALSE) @@ "redis-set" :> F(<<"REDIS", "SET">>, 1, TRUE) @@
  "redis-del" :> F(<<"REDIS", "DEL">>, 1, FALSE) @@ "trace-get" :> F(<<"TRACE", "GET">>, 1, FALSE)

Keywords(ws) == [i \in DOMAIN ws |-> <<ws[i]>>]

Line(c) ==
  CASE c.cmd \in DOMAIN Fixed -> Text(Keywords(Fixed[c.cmd]))
    [] c.cmd \in DOMAIN Forms ->
         LET f == Forms[c.cmd]
             payload == Encode(Text(SubSeq(c.rest, f.names + 1, Len(c.rest))))
         IN Text(Keywords(f.head) \o SubSeq(c.rest, 1, f.names)
                 \o IF f.payload THEN <<payload>> ELSE <<>>)
    [] c.cmd = "auth-set" -> Text(Keywords(<<"AUTH", "SET">>) \o c.rest)
    [] c.cmd = "redis-keys" ->
         Text(Keywords(<<"REDIS", "KEYS">>) \o <<IF c.rest = <<>> THEN <<"*">> ELSE c.rest[1]>>)
    [] c.cmd = "trace-list" -> Text(Keywords(<<"TRACE", "LIST">>) \o IF c.rest = <<>> THEN <<>> ELSE <<c.rest[1]>>)
    [] c.cmd = "trace-export" ->
         Text(Keywords(<<"TRACE", "EXPORT">>) \o <<IF c.rest = <<>> THEN <<"json">> ELSE c.rest[1]>>)
    [] OTHER -> Text(c.rest)    \* raw

\* need, need_min
Accepted(c) == LET min == CASE c.cmd \in DOMAIN Forms -> Forms[c.cmd].names + IF Forms[c.cmd].payload THEN 1 ELSE 0
                            [] c.cmd \in {"auth-set", "raw"} -> 1
                            [] OTHER -> 0
               IN Len(c.rest) >= min

---------------------------------------------------------------------------------
\* The daemon

\* parse_command: the words a command wants, and what it does with the others:
\* "ignored", "decoded" together, "one" optional word, or read as said there.
P(cmd, words, others) == [cmd |-> cmd, words |-> words, others |-> others]
CompoundCore ==
  <<"MODE", "GET">> :> P("GetMode", 0, "ignored") @@ <<"MODE", "SET">> :> P("SetMode", 1, "mode") @@
  <<"DB", "PUT">> :> P("DbPut", 2, "decoded") @@ <<"DB", "GET">> :> P("DbGet", 2, "ignored") @@
  <<"DB", "DEL">> :> P("DbDel", 2, "ignored") @@ <<"DB", "KEYS">> :> P("DbKeys", 1, "ignored") @@
  <<"DB", "FLUSH">> :> P("DbFlush", 1, "ignored") @@ <<"AUTH", "STATUS">> :> P("AuthStatus", 0, "ignored") @@
  <<"AUTH", "SET">> :> P("AuthSet", 0, "decoded") @@ <<"AUTH", "CLEAR">> :> P("AuthClear", 0, "ignored") @@
  <<"TRACE", "LIST">> :> P("TraceList", 0, "ignored") @@ <<"TRACE", "GET">> :> P("TraceGet", 1, "ignored") @@
  <<"TRACE", "CLEAR">> :> P("TraceClear", 0, "ignored") @@ <<"TRACE", "EXPORT">> :> P("TraceExport", 0, "format") @@
  <<"METRICS", "LIST">> :> P("MetricsList", 0, "ignored") @@ <<"METRICS", "GET">> :> P("MetricsGet", 1, "ignored") @@
  <<"METRICS", "CLEAR">> :> P("MetricsClear", 0, "ignored") @@ <<"METRICS", "EXPORT">> :> P("MetricsExport", 0, "format")
CompoundStores ==
  <<"SERVICES", "LIST">> :> P("ServicesList", 0, "ignored") @@ <<"ROUTES", "LIST">> :> P("RoutesList", 0, "ignored") @@
  <<"COMPILE", "FILE">> :> P("CompileFile", 1, "ignored") @@ <<"PG", "CREATE">> :> P("PgCreate", 1, "ignored") @@
  <<"PG", "STATUS">> :> P("PgStatus", 0, "ignored") @@ <<"PG", "MIGRATE">> :> P("PgMigrate", 0, "decoded") @@
  <<"PG", "DESTROY">> :> P("PgDestroy", 1, "ignored") @@ <<"REDIS", "STATUS">> :> P("RedisStatus", 0, "ignored") @@
  <<"REDIS", "PING">> :> P("RedisPing", 0, "ignored") @@ <<"REDIS", "GET">> :> P("RedisGet", 1, "ignored") @@
  <<"REDIS", "SET">> :> P("RedisSet", 1, "decoded") @@ <<"REDIS", "DEL">> :> P("RedisDel", 1, "ignored") @@
  <<"REDIS", "KEYS">> :> P("RedisKeys", 0, "pattern") @@ <<"REDIS", "TTL">> :> P("RedisTtl", 1, "ignored") @@
  <<"REDIS", "EXPIRE">> :> P("RedisExpire", 2, "seconds") @@ <<"REDIS", "FLUSH">> :> P("RedisFlush", 0, "ignored")
Compound == CompoundCore @@ CompoundStores

\* The one-word forms; those that only repeat a compound one with a hyphen are left
\* out, but for AUTH-SET, which reads its words otherwise.
Simple ==
  "PING" :> P("Ping", 0, "ignored") @@ "HELP" :> P("Help", 0, "ignored") @@ "STOP" :> P("Stop", 0, "ignored") @@
  "VERSION" :> P("Version", 0, "ignored") @@ "HEALTH" :> P("Health", 0, "ignored") @@
  "COMPILE" :> P("Compile", 0, "decoded") @@ "AUTH-SET" :> P("AuthSet", 1, "scheme") @@
  "REDIS-SETEX" :> P("RedisSetEx", 2, "seconds and decoded") @@
  "SECRET-SET" :> P("SecretSet", 1, "decoded") @@ "SECRET-CHECK" :> P("SecretCheck", 0, "names") @@
  "PUBSUB-PUBLISH" :> P("PubSubPublish", 1, "decoded") @@ "PUBSUB-NACK" :> P("PubSubNack", 1, "reason") @@
  "STREAM-OPEN" :> P("StreamOpen", 1, "ignored") @@ "STREAM-CLOSE" :> P("StreamClose", 1, "ignored")

Modes == {<<"lite">>, <<"full">>, <<"ultra">>, <<"off">>}
Formats == {<<"json">>, <<"csv">>, <<"text">>}
Schemes == {<<"bearer">>, <<"api_key">>}
Numbers == {<<"5">>}

Cmd(cmd, args) == [cmd |-> cmd, args |-> args]
Err == Cmd("error", <<>>)

Take(p, ws) ==
  LET args == SubSeq(ws, 1, p.words)
      others == SubSeq(ws, p.words + 1, Len(ws))
      decoded(s, before) == IF Malformed(s) THEN Err ELSE Cmd(p.cmd, Append(before, Decode(s)))
      known(set, default) == IF others = <<>> THEN Cmd(p.cmd, <<default>>)
                             ELSE IF others[1] \in set THEN Cmd(p.cmd, <<others[1]>>) ELSE Err
  IN IF Len(ws) < p.words THEN Err
     ELSE CASE p.others = "ignored" -> Cmd(p.cmd, args)
            [] p.others = "decoded" /\ p.cmd = "AuthSet" -> decoded(Text(others), <<<<"bearer">>>>)
            [] p.others = "decoded" -> decoded(Text(others), args)
            [] p.others = "mode" -> IF args[1] \in Modes THEN Cmd(p.cmd, args) ELSE Err
            [] p.others = "format" -> known(Formats, <<"json">>)
            [] p.others = "pattern" -> Cmd(p.cmd, <<IF others = <<>> THEN <<"*">> ELSE others[1]>>)
            [] p.others = "seconds" -> IF args[2] \in Numbers THEN Cmd(p.cmd, args) ELSE Err
            [] p.others = "seconds and decoded" -> IF args[2] \in Numbers THEN decoded(Text(others), args) ELSE Err
            [] p.others = "names" -> Cmd(p.cmd, others)
            [] p.others = "reason" -> Cmd(p.cmd, Append(args, Text(others)))
            [] OTHER ->    \* "scheme": a single word is a bearer token
                 IF others = <<>> THEN decoded(args[1], <<<<"bearer">>>>)
                 ELSE IF args[1] \in Schemes THEN decoded(Text(others), args) ELSE Err

Upper(w) == IF w = <<"file">> THEN <<"FILE">> ELSE w
Parse(s) ==
  LET ws == Words(s)
      pair == IF Len(ws) < 2 THEN <<>> ELSE Upper(ws[1]) \o Upper(ws[2])
  IN CASE ws = <<>> -> Err
       [] pair \in DOMAIN Compound -> Take(Compound[pair], SubSeq(ws, 3, Len(ws)))
       [] Len(ws[1]) = 1 /\ ws[1][1] \in DOMAIN Simple -> Take(Simple[ws[1][1]], Tail(ws))
       [] OTHER -> Err

\* handle reads up to the end of the line.
ReadLine(s) == IF \E i \in DOMAIN s : s[i] = "newline"
               THEN SubSeq(s, 1, (CHOOSE i \in DOMAIN s : s[i] = "newline" /\ \A j \in 1 .. i - 1 : s[j] # "newline") - 1)
               ELSE s

\* A DATA reply and what the client prints of it; without data the line is trimmed
\* to the bare word, which is what it prints.
Printed(data) == IF data = <<>> THEN <<"DATA">> ELSE Decode(Encode(data))

\* check_auth: the request's token against the configured one, all headers alike.
Lets(token) == auth_token = Absent \/ token = auth_token

---------------------------------------------------------------------------------

Init == call = Idle /\ auth_token = Absent /\ meant = Absent

\* What the words of auth-set mean to its user.
Wanted(rest) == IF Len(rest) > 1 /\ rest[1] \in Schemes THEN Text(Tail(rest)) ELSE Text(rest)

\* The client connects and writes its line ...
Send(c) ==
  /\ call = Idle /\ Accepted(c)
  /\ call' = c
  /\ UNCHANGED <<auth_token, meant>>

\* ... which the daemon reads, parses and executes; only the commands that touch
\* the token are told apart here.
Execute ==
  LET command == Parse(ReadLine(Line(call)))
  IN /\ call # Idle
     /\ auth_token' = CASE command.cmd = "AuthSet" -> command.args[2]
                        [] command.cmd = "AuthClear" -> Absent
                        [] OTHER -> auth_token
     /\ meant' = CASE command.cmd = "AuthClear" -> Absent
                   [] call.cmd = "auth-set" /\ command # Err -> Wanted(call.rest)
                   [] OTHER -> meant
     /\ call' = Idle

\* POST /api/v1/auth/set takes the token out of its body.
HttpAuthSet(token) ==
  /\ call = Idle /\ token # <<>>
  /\ auth_token' = token /\ meant' = token
  /\ UNCHANGED call

Next == (\E c \in Calls : Send(c)) \/ Execute \/ \E t \in Schemes : HttpAuthSet(t)

Spec == Init /\ [][Next]_vars

---------------------------------------------------------------------------------
\* Properties

\* The command a client call stands for.
NamesOf(c) == SubSeq(c.rest, 1, Forms[c.cmd].names)
Meant(c) ==
  LET f == Forms[c.cmd]
      p == IF Len(f.head) = 1 THEN Simple[f.head[1]] ELSE Compound[<<f.head[1], f.head[2]>>]
  IN Cmd(p.cmd, NamesOf(c) \o IF f.payload THEN <<Text(SubSeq(c.rest, f.names + 1, Len(c.rest)))>> ELSE <<>>)
Plain(w) == w # <<>> /\ ToSet(w) \subseteq {"z", "eacute", "full"}
Short(s) == "euro" \notin ToSet(s)

\* "any payload (source code, SQL, tokens) can safely be sent over a single TCP line"
\* (protocol/src/lib.rs): whatever blanks, line ends and percent signs a payload is
\* made of, the daemon parses the very call the user made, and data come back as they
\* were.  The code's exceptions: characters beyond U+00FF, names that are not one
\* plain word, the source "file", and an answer without data.
CommandsArriveAsMeant ==
  /\ \/ call.cmd \notin DOMAIN Forms
     \/ \E i \in DOMAIN NamesOf(call) : ~Plain(NamesOf(call)[i])
     \/ \E i \in DOMAIN call.rest : ~Short(call.rest[i])
     \/ call.cmd = "mode-set" /\ call.rest[1] \notin Modes
     \/ call.cmd = "compile" /\ Text(call.rest) = <<"file">>
     \/ Parse(ReadLine(Line(call))) = Meant(call)
  /\ \A i \in DOMAIN call.rest :
       Short(call.rest[i]) /\ call.rest[i] # <<>> => Printed(call.rest[i]) = call.rest[i]

\* "AUTH SET <scheme> <token>" (HELP_TEXT, docs/api-reference.md): the token a user
\* set last lets the requests in that carry it.
TokensTakeEffect == call = Idle /\ meant # Absent => Lets(meant)

==================================================================================
