------------------------------ MODULE MCRegistries ------------------------------
(***************************************************************************)
(* The registries, and with them the parts of the project that read and    *)
(* write text, on small instances: the control protocol, the compiler and  *)
(* its generators, validation, the HTTP messages, bodies and arms, tokens, *)
(* frames and the configuration file.  They do not meet each other; a      *)
(* behaviour exercises one of them, the one in focus, and leaves the       *)
(* others in their initial states.                                         *)
(***************************************************************************)
EXTENDS Registries, TLC

VARIABLES
  call, auth_token, meant,                          \* Wire
  length, strict, rich, file,                       \* Compiler
  schemas, violations, asked,                       \* Validation
  token_set, answered,                              \* Surface
  lines, parser, daemon,                            \* Config
  clock, signed, verdict,                           \* Jwt
  stored, told, values,                             \* JsonBodies
  peer, frame, arrived, got,                        \* WsFrames
  taken, sent, have, closed, served, reply          \* HttpMessages

---------------------------------------------------------------------------------
\* The registries: what a configuration file has no way to write.

MCTtls == {0 - 1, 1}
\* Two endpoints with one label.
MCLabel == [e \in Endpoints |-> "GET__a_b"]
\* Keys with a hash tag, with an empty one, with brackets in the wrong order, and without.
MCKeys == {<<97>>, <<255, 0, 128>>, <<123, 97, 125, 98>>, <<123, 125>>, <<125, 123, 98, 125>>}

\* Static mounts at the root and below, one directory, a path and two contents.
MCMountPrefixes == {<<>>, <<"assets">>}
MCDirs == {<<"d">>}
MCFallbacks == {<<"i">>}
MCPaths == {<<"assets", "x">>}
MCContents == {<<"v1">>, <<"v2">>}

\* Manifests: two builders that declare in any order, and names, apps and sources of
\* which some are refused.
MCApps == {<<"a">>, <<"A">>}
MCLanguages == {<<"rs">>}
MCItemNames == {<<"a">>, <<"b">>, <<"-">>}
MCImages == {<<>>, <<"i">>}
MCResources == {[type |-> "bucket", public |-> TRUE], [type |-> "cron", schedule |-> <<"a">>]}
MCSpecCalls ==
  {<<<<"port", 2, 1>>, <<"port", 1, 2>>, <<"bucket", <<"a">>>>>>, <<<<"port", 1, 2>>, <<"port", 2, 1>>, <<"topic", <<"a">>>>>>}
MCBridgeFiles == {<<<<"a">>>>, <<<<"a">>, <<"b", "A">>>>}

---------------------------------------------------------------------------------
\* Wire: every command of the client, on payloads that need escaping and some that
\* look like something else.

Payloads == {<<"z">>, <<"z", " ", "z">>, <<"%">>, <<"eacute", "newline">>, <<"euro">>, <<>>, <<"file">>, <<" ", " ">>}
NameTexts == {<<"z">>, <<"z", " ", "z">>, <<"eacute">>}
Lists(S) == {<<x>> : x \in S}
MCCalls ==
  [cmd : {"mode-set"}, rest : {<<<<"full">>>>, <<<<"z">>>>}]
  \cup [cmd : {"compile", "pg-migrate"}, rest : Lists(Payloads) \cup {<<p, q>> : p, q \in Payloads}]
  \cup [cmd : {"db-put"}, rest : {<<n, m, p>> : n, m \in NameTexts, p \in Payloads}]
  \cup [cmd : {"redis-set"}, rest : {<<n, p>> : n \in NameTexts, p \in Payloads}]
  \cup [cmd : {"db-get", "db-del"}, rest : {<<n, m>> : n, m \in NameTexts}]
  \cup [cmd : {"db-keys", "db-flush", "pg-create", "redis-get", "redis-del", "trace-get"}, rest : Lists(NameTexts)]
  \cup [cmd : {"auth-set"}, rest : {<<<<"z">>>>, <<<<"%">>>>, <<<<"bearer">>, <<"z">>>>}]
  \cup [cmd : {"redis-keys", "trace-list", "trace-export"}, rest : {<<>>, <<<<"z">>>>}]
  \cup [cmd : {"raw"},
        rest : {<<<<"AUTH-SET">>, <<"bearer">>, <<"z">>>>, <<<<"REDIS-SETEX">>, <<"z">>, <<"5">>, <<"z">>>>,
                <<<<"SECRET-CHECK">>, <<"z">>>>, <<<<"PUBSUB-NACK">>, <<"z">>, <<"z">>>>,
                <<<<"REDIS">>, <<"EXPIRE">>, <<"z">>, <<"5">>>>}]
Commands == INSTANCE Wire WITH Calls <- MCCalls
FixedCalls == [cmd : DOMAIN Commands!Fixed, rest : {<<>>}]

\* Compiler: every directive, right and wrong, two services and three shapes of endpoint.
Endpoint(name, method, path, qualifiers) == <<<<"endpoint">>, name, <<method>>, path>> \o qualifiers
MCLines ==
  {<<>>, <<<<"service">>>>, <<<<"service">>, <<"a">>>>, <<<<"service">>, <<"b">>>>,
   <<<<"auth">>>>, <<<<"auth">>, <<"Bearer">>>>, <<<<"middleware">>, <<"m", "!">>>>,
   Endpoint(<<"e">>, "get", <<"/", ":", "id", "/", ":", "id", "x">>, <<>>),
   Endpoint(<<"e">>, "POST", <<"/", ":", "id", "/", "u">>, <<<<"auth", "=", "apikey">>, <<"tags", "=", "t", ",", "u">>>>),
   Endpoint(<<"f">>, "POST", <<"/", ":", "id", "/", "u">>, <<<<"auth", "=", "none">>>>),
   Endpoint(<<"f">>, "PUT", <<"u">>, <<<<"auth", "=", "x">>>>)}
Files == INSTANCE Compiler WITH Lines <- MCLines, MaxLines <- 4

\* Validation: rules of every kind, patterns with every construct, values up to two
\* characters and some longer.
Matches(pattern) == <<"matches", ":">> \o pattern
MCSpecs == {
  <<<<"required">>, <<"maxLen", ":", "3">>, <<"min", ":", "1">>, <<"max", ":", "1", "2">>>>,
  <<<<"isEmail">>, <<"isURL">>, <<"startsWith", ":", "a", ",", "required">>, <<"endsWith", ":", "b">>>>,
  <<<<"minLen", ":", "x">>>>,
  <<Matches(<<"^", "(", "a", "|", "b", "b", ")", "{", "1", ",", "2", "}", "c", "?", "$">>),
    Matches(<<"(", "a", "?", ")", "*", "b", "+">>),
    Matches(<<"[", "a", "-", "c", "]", "{", "2", "}", "\\", "S", "\\", "\"">>)>>,
  <<Matches(<<"(", "a", "?", ")", "{", "2", "}">>),
    Matches(<<"[", "^", "]", "a", ",", "\\", "d", "]", "*", "\\", "w", "{", "2", ",", "}">>),
    Matches(<<"(", "(", "a", "|", "a", "b", ")", "c", "?", ")", "+", ".", "{">>)>>,
  <<Matches(<<"(", "a">>)>>}
MCInputs ==
  UNION {[1 .. n -> {"a", "b", "c"}] : n \in 0 .. 1} \cup [1 .. 2 -> {"a", "b"}]
  \cup {<<"1", "c">>, <<"b", "c">>, <<"c", "a">>, <<"a", "b", "c">>, <<"b", "b", "c">>, <<"a", "a", "b">>, <<"a", "b", " ", "\"">>, <<"a", "{">>, <<"newline">>}
Field(key, value) == [key |-> key, value |-> value]
MCBodies == {
  <<>>,
  <<Field("f", <<"a", "\"", "b">>), Field("g", <<"a", "@", "b", ".", "c">>)>>,
  <<Field("f", <<"1", "2">>), Field("f", <<"1">>)>>,
  <<Field("f", <<"a", ":", "/", "/", "b", ".", "c", ":", "1", "/">>)>>}
MCEndpoints == {[method |-> "POST", path |-> "/a"], [method |-> "bare", path |-> "/a"]}
Rules == INSTANCE Validation WITH
  Endpoints <- MCEndpoints, Fields <- {"f", "g"}, SpecLists <- MCSpecs, Inputs <- MCInputs,
  Bodies <- MCBodies, answer <- violations

\* Surface: a name that is nobody's, and one that is also a segment of an arm.
Arms == INSTANCE Surface WITH Names <- {"x", "entries"}

\* Config: both kinds of rule table, a section, one with a comment after it, and keys
\* with and without errors.
Entry(key, value) == <<key, " ", "=", " ">> \o value
Quoted(w) == <<"quote", w, "quote">>
MCConfigLines ==
  {<<"[", "[", "ratelimit.rules", "]", "]">>, <<"[", "[", "middleware.rules", "]", "]">>,
   <<"[", "watch", "]">>, <<"[", "cache", "]", " ", "#", "x">>,
   Entry("capacity", <<"60", "#", "0">>), Entry("capacity", <<"x">>), Entry("path", Quoted("a")),
   Entry("name", Quoted("m")), Entry("scope", Quoted("global")), Entry("before", Quoted("log")),
   Entry("dirs", <<"[">> \o Quoted("a") \o <<",">> \o Quoted("b") \o <<"]", " ", "#", "c">>)}
Settings == INSTANCE Config WITH Lines <- MCConfigLines, MaxLines <- 4

\* Jwt: claims whose text has quotes, backslashes, newlines and brackets.
Tokens == INSTANCE Jwt WITH
  Texts <- {<<"quote", "}">>, <<"backslash">>, <<"a", "newline", "backslash", "n", ":">>},
  ScopeLists <- {<<<<"a">>, <<"b">>>>}, CustomKeys <- {<<"b">>, <<"quote">>}, Secrets <- {1, 2},
  MaxNow <- 1, now <- clock

\* JsonBodies: a number, and strings with the characters that end things.
Bodies == INSTANCE JsonBodies WITH
  Values <- {<<"1">>, <<"quote", "backslash", "quote", ",", "}", "quote">>,
             <<"quote", "backslash", "backslash", "quote">>, <<"quote", "{", ":", "quote">>},
  Keys <- {"a", "b"}, Keyspaces <- {"k"}, TtlTexts <- {<<"none">>, <<"5">>},
  store <- stored, sent <- told, answer <- values

\* WsFrames: upgrades with and without what they need, every length of length, one over
\* the limit and an opcode that does not exist.
Upgrade == <<"upgrade", "websocket">>
KeepAlive == <<"connection", "keep-alive, upgrade">>
Key == <<"sec-websocket-key", "k">>
Frames == INSTANCE WsFrames WITH
  Requests <- {<<Upgrade, KeepAlive, Key, <<>>>>, <<Upgrade, KeepAlive, <<>>, Key>>, <<KeepAlive, Key>>,
               <<Key, <<"sec-websocket-key", "">>, Upgrade, KeepAlive>>},
  Codes <- {1, 10, 3}, Lengths <- {0, 125, 126, 65535, 65536, 1048576, 1048577},
  have <- arrived

\* HttpMessages: a body with blank lines, a key with every escape, no body, a preflight.
Message(method, bucket, key, headers, body) ==
  [method |-> method, bucket |-> bucket, key |-> key, headers |-> headers, body |-> body]
Host == <<<<"host">>, <<"h", ":", "1">>>>
MCMessages ==
  {Message("put", <<"b">>, <<"a", "+", " ", "/", "%", "2", "5">>, <<Host>>, <<"x", "newline", "newline", "y">>),
   Message("GET", <<"b">>, <<>>, <<Host, <<<<"x-api-key">>, <<>>>>>>, <<>>),
   Message("OPTIONS", <<"%">>, <<"k">>, <<>>, <<>>)}
Http == INSTANCE HttpMessages WITH
  Messages <- MCMessages, Extras <- {<<>>, <<<<"X-Hook", "v">>>>}, MaxRequests <- 2, counter <- taken

---------------------------------------------------------------------------------

wireVars == <<call, auth_token, meant>>
compilerVars == <<length, strict, rich, file>>
rulesVars == <<schemas, violations, asked>>
surfaceVars == <<token_set, answered>>
configVars == <<lines, parser, daemon>>
jwtVars == <<clock, signed, verdict>>
jsonVars == <<stored, told, values>>
framesVars == <<peer, frame, arrived, got>>
httpVars == <<taken, sent, have, closed, served, reply>>
textVars == <<wireVars, compilerVars, rulesVars, surfaceVars, configVars, jwtVars,
              jsonVars, framesVars, httpVars>>

\* The part in focus moves; the others stay as they are.
InText(part) ==
  /\ focus = part
  /\ IF part = "wire" THEN TRUE ELSE UNCHANGED wireVars
  /\ IF part = "compiler" THEN TRUE ELSE UNCHANGED compilerVars
  /\ IF part = "rules" THEN TRUE ELSE UNCHANGED rulesVars
  /\ IF part = "surface" THEN TRUE ELSE UNCHANGED surfaceVars
  /\ IF part = "config" THEN TRUE ELSE UNCHANGED configVars
  /\ IF part = "jwt" THEN TRUE ELSE UNCHANGED jwtVars
  /\ IF part = "json" THEN TRUE ELSE UNCHANGED jsonVars
  /\ IF part = "frames" THEN TRUE ELSE UNCHANGED framesVars
  /\ IF part = "http" THEN TRUE ELSE UNCHANGED httpVars

TextInit ==
  /\ Commands!Init /\ Files!Init /\ Rules!Init /\ Arms!Init
  /\ Settings!Init /\ Tokens!Init /\ Bodies!Init /\ Frames!Init /\ Http!Init

TextNext ==
  \/ InText("wire") /\ (Commands!Next \/ \E c \in FixedCalls : Commands!Send(c))
  \/ InText("compiler") /\ Files!Next
  \/ InText("rules") /\ Rules!Next
  \/ InText("surface") /\ Arms!Next
  \/ InText("config") /\ Settings!Next
  \/ InText("jwt") /\ Tokens!Next
  \/ InText("json") /\ Bodies!Next
  \/ InText("frames") /\ Frames!Next
  \/ InText("http") /\ Http!Next

allVars == <<registryVars, textVars>>

MCInit == RegistriesInit /\ TextInit

MCNext == (RegistriesNext /\ UNCHANGED textVars) \/ (TextNext /\ UNCHANGED registryVars)

MCSpec == MCInit /\ [][MCNext]_allVars /\ Broker!Consuming /\ Streams!Fairness

---------------------------------------------------------------------------------
\* The properties of the parts, each looked at where its part moves.

TokensTakeEffect == focus = "wire" => Commands!TokensTakeEffect

\* Wire: what a user types on the command line is what the daemon carries out, and what
\* it answers is what is printed.
CommandsArriveAsMeant == focus = "wire" => Commands!CommandsArriveAsMeant

\* Validation: rules are applied as they were registered, and a pattern accepts the
\* values it denotes from end to end, not those in which it could be found.
RulesKeepTheirMeaning ==
  focus = "rules" => Rules!RulesSurvive /\ Rules!PatternsDenoteTheirValues

\* Surface: what is asked for is what answers.
PathsLeadWhereTheySay == focus = "surface" => Arms!ArmsAreNotShadowed

\* The service files and the configuration file: what is declared is what is generated or
\* set up.  The two parsers of service files accept the same and read the same, the
\* generated clients call what the document states, and every rule comes from its own
\* table.
DeclarationsAreKept ==
  CASE focus = "compiler" -> Files!ParsersAgree /\ Files!ClientsFollowTheDocument
    [] focus = "config"   -> Settings!RulesComeFromTheirTables
    [] OTHER              -> TRUE

\* JWTs, JSON bodies, WebSocket frames and HTTP messages: what is read is what was
\* written, in whatever pieces it comes.
ReadAsWritten ==
  CASE focus = "jwt"    -> Tokens!TokensSayWhatWasSigned
    [] focus = "json"   -> Bodies!BodiesAreReadAsPrinted
    [] focus = "frames" -> Frames!FramesAreWhole
    [] focus = "http"   -> Http!RequestsArriveAsSent /\ Http!AnswersNameTheirRequest
    [] OTHER            -> TRUE
==================================================================================
