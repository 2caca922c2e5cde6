-------------------------------- MODULE Compiler --------------------------------
(***************************************************************************)
(* The compiler of .bridge files (compiler/src/lib.rs) with its two        *)
(* parsers, parse, which stops at the first error, and parse_with_errors,  *)
(* which collects them, and what codegen/src/lib.rs derives from a file:   *)
(* the TypeScript client and the OpenAPI document.                         *)
(*                                                                         *)
(* A line is the sequence of its words; a word is text (see Strings) in    *)
(* which "/", ":", "=", "," and "!" are symbols of their own.              *)
(***************************************************************************)
EXTENDS Strings, TLC

CONSTANTS
  Lines,      \* the lines files are made of
  MaxLines    \* bound: how many lines a file has; one file is compiled

VARIABLES
  length,     \* how many lines have been read
  strict,     \* how far parse is
  rich,       \* how far parse_with_errors is
  file        \* the services of the file compiled last

vars == <<length, strict, rich, file>>

---------------------------------------------------------------------------------
\* The syntax tree

\* Method::parse and Auth::parse do not look at the case.
MethodOf == "GET" :> "GET" @@ "get" :> "GET" @@ "POST" :> "POST" @@ "PUT" :> "PUT" @@ "PATCH" :> "PATCH"
            @@ "DELETE" :> "DELETE" @@ "HEAD" :> "HEAD" @@ "OPTIONS" :> "OPTIONS"
AuthOf == "none" :> "none" @@ "bearer" :> "bearer" @@ "Bearer" :> "bearer"
          @@ "api_key" :> "api_key" @@ "apikey" :> "api_key"
IsMethod(w) == Len(w) = 1 /\ w[1] \in DOMAIN MethodOf
IsAuth(w) == Len(w) = 1 /\ w[1] \in DOMAIN AuthOf
Inherited == "inherited"    \* an endpoint without an auth of its own

Service(name) == [name |-> name, auth |-> "none", middleware |-> <<>>, endpoints |-> <<>>]
NoService == Service(<<>>)
PathParams(path) ==
  LET segments == SelectSeq(Split(path, "/"), LAMBDA s : s # <<>> /\ s[1] = ":")
  IN [i \in DOMAIN segments |-> Tail(segments[i])]

\* validate_ident, also of middleware names
IsIdent(w) == w # <<>> /\ ToSet(w) \cap {"/", ":", "=", ",", "!"} = {}

Repeats(s) == \E i, j \in DOMAIN s : i # j /\ s[i] = s[j]
SameName(eps) == Repeats([i \in DOMAIN eps |-> eps[i].name])
SameRoute(eps) == Repeats([i \in DOMAIN eps |-> <<eps[i].method, eps[i].path>>])

---------------------------------------------------------------------------------
\* What the words of a line say

Keyword(l) == IF Len(l[1]) = 1 THEN l[1][1] ELSE "?"
Skipped(l) == l = <<>> \/ l[1][1] \in {"#", "//"}
Schemes(l) == SelectSeq(SubSeq(l, 5, Len(l)), LAMBDA w : IsPrefix(<<"auth", "=">>, w))
SchemeOf(w) == SubSeq(w, 3, Len(w))
Tags(l) ==
  LET lists == SelectSeq(SubSeq(l, 5, Len(l)), LAMBDA w : IsPrefix(<<"tags", "=">>, w))
  IN FlattenSeq([i \in DOMAIN lists |-> Split(SchemeOf(lists[i]), ",")])

\* The last auth= that names a scheme counts.
EndpointOf(l) ==
  LET known == SelectSeq(Schemes(l), LAMBDA w : IsAuth(SchemeOf(w)))
  IN [name |-> l[2], method |-> MethodOf[l[3][1]], path |-> l[4], tags |-> Tags(l),
      auth |-> IF known = <<>> THEN Inherited ELSE AuthOf[SchemeOf(Last(known))[1]]]

---------------------------------------------------------------------------------
\* parse

Fail(p) == [p EXCEPT !.failed = TRUE]

\* validate_service
Valid(s) ==
  /\ s.endpoints # <<>> /\ ~SameName(s.endpoints) /\ ~SameRoute(s.endpoints)
  /\ \A i \in DOMAIN s.middleware : IsIdent(s.middleware[i])

Flush(p) ==
  IF p.current = NoService THEN p
  ELSE IF ~Valid(p.current) THEN Fail(p)
  ELSE [p EXCEPT !.services = Append(@, p.current), !.current = NoService]

StrictLine(p, l) ==
  LET inside == p.current # NoService
      keyword == Keyword(l)
  IN IF p.failed \/ Skipped(l) THEN p
     ELSE CASE keyword = "service" ->
                 LET q == Flush(p)
                 IN IF q.failed \/ Len(l) < 2 THEN Fail(q)
                    ELSE IF ~IsIdent(l[2]) THEN Fail(q) ELSE [q EXCEPT !.current = Service(l[2])]
            [] keyword = "auth" /\ inside /\ Len(l) > 1 /\ IsAuth(l[2]) ->
                 [p EXCEPT !.current.auth = AuthOf[l[2][1]]]
            [] keyword = "middleware" /\ inside /\ Len(l) > 1 ->
                 [p EXCEPT !.current.middleware = @ \o Tail(l)]
            [] keyword = "endpoint" /\ inside /\ Len(l) > 3 ->
                 IF /\ IsIdent(l[2]) /\ IsMethod(l[3]) /\ l[4][1] = "/"
                    /\ \A i \in DOMAIN Schemes(l) : IsAuth(SchemeOf(Schemes(l)[i]))
                 THEN [p EXCEPT !.current.endpoints = Append(@, EndpointOf(l))]
                 ELSE Fail(p)
            [] OTHER -> Fail(p)

SameService(services) == Repeats([i \in DOMAIN services |-> services[i].name])
StrictEnd(p) ==
  LET q == IF p.failed THEN p ELSE Flush(p)
  IN IF q.failed \/ q.services = <<>> \/ SameService(q.services) THEN Fail(q) ELSE q

---------------------------------------------------------------------------------
\* parse_with_errors

Report(p, codes) == [p EXCEPT !.errors = @ \cup codes]

\* Mutation: conflicting routes are not looked for.
CheckServiceNames(s) ==
  IF s.endpoints = <<>> THEN {"E0009"} ELSE IF SameName(s.endpoints) THEN {"E0004"} ELSE {}

\* check_service: the first thing wrong with it.
CheckService(s) ==
  IF s.endpoints = <<>> THEN {"E0009"}
  ELSE IF SameName(s.endpoints) THEN {"E0004"}
  ELSE IF SameRoute(s.endpoints) THEN {"E0006"} ELSE {}

\* A service with errors is kept all the same.
RichFlush(p) ==
  IF p.current = NoService THEN p
  ELSE [Report(p, CheckService(p.current)) EXCEPT !.services = Append(@, p.current), !.current = NoService]

\* The words after the path, whose bad schemes do not keep the endpoint out.
RichEndpoint(p, l) ==
  LET path == IF l[4][1] # "/" THEN {"E0002"} ELSE {}
      auth == IF \E i \in DOMAIN Schemes(l) : ~IsAuth(SchemeOf(Schemes(l)[i])) THEN {"E0005"} ELSE {}
  IN IF p.current = NoService THEN Report(p, path \cup auth \cup {"E0007"})
     ELSE [Report(p, path \cup auth) EXCEPT !.current.endpoints = Append(@, EndpointOf(l))]

RichLine(p, l) ==
  LET inside == p.current # NoService
      keyword == Keyword(l)
  IN IF Skipped(l) THEN p
     ELSE CASE keyword = "service" ->
                 IF Len(l) < 2 THEN Report(RichFlush(p), {"E0010"})
                 ELSE [RichFlush(p) EXCEPT !.current = Service(l[2])]
            [] keyword = "auth" ->
                 IF Len(l) < 2 \/ ~IsAuth(l[IF Len(l) < 2 THEN 1 ELSE 2]) THEN Report(p, {"E0005"})
                 ELSE IF ~inside THEN Report(p, {"E0008"})
                 ELSE [p EXCEPT !.current.auth = AuthOf[l[2][1]]]
            [] keyword = "middleware" ->
                 IF Len(l) < 2 \/ ~inside THEN Report(p, {"E0008"})
                 ELSE [p EXCEPT !.current.middleware = @ \o Tail(l)]
            [] keyword = "endpoint" ->
                 IF Len(l) < 4 THEN Report(p, {"E0001"})
                 ELSE IF ~IsMethod(l[3]) THEN Report(p, {"E0001"}) ELSE RichEndpoint(p, l)
            [] OTHER -> Report(p, {"E0001"})

RichEnd(p) ==
  LET q == RichFlush(p)
  IN Report(q, IF (q.services = <<>> /\ q.errors = {}) \/ SameService(q.services) THEN {"E0003"} ELSE {})

---------------------------------------------------------------------------------
\* codegen

HasBody(e) == e.method \in {"POST", "PUT", "PATCH"}
Effective(s, e) == IF e.auth = Inherited THEN s.auth ELSE e.auth

\* The placeholders are put in by name, one after the other.
Template(path, open, close) ==
  FoldLeft(LAMBDA text, p : Replace(text, <<":">> \o p, open \o p \o close), path, PathParams(path))

\* Mutation: an endpoint that opts out of its service's scheme keeps the headers.
HeadersKept(s, e) ==
  IF s.auth = "none" /\ e.auth \in {"bearer", "api_key"} THEN e.auth ELSE s.auth

\* generate_endpoint: an override asks for a token of its own only where the
\* service has none, and the service's headers go with every other scheme.
Headers(s, e) ==
  LET own == s.auth = "none" /\ e.auth \in {"bearer", "api_key"}
  IN IF Effective(s, e) = "none" THEN "none" ELSE IF own THEN e.auth ELSE s.auth

ClientCall(s, e) ==
  [path |-> Template(e.path, <<"${">>, <<"}">>), method |-> e.method, body |-> HasBody(e),
   params |-> PathParams(e.path), scheme |-> Headers(s, e)]

\* generate_openapi
Operation(s, e) ==
  [path |-> Template(e.path, <<"{">>, <<"}">>), method |-> e.method, body |-> HasBody(e),
   params |-> PathParams(e.path), scheme |-> Effective(s, e),
   tags |-> IF e.tags = <<>> THEN <<s.name>> ELSE e.tags]

---------------------------------------------------------------------------------

Init ==
  /\ length = 0
  /\ strict = [failed |-> FALSE, current |-> NoService, services |-> <<>>]
  /\ rich = [errors |-> {}, current |-> NoService, services |-> <<>>]
  /\ file = <<>>

ReadLine(l) ==
  /\ length < MaxLines /\ file = <<>>
  /\ length' = length + 1
  /\ strict' = StrictLine(strict, l)
  /\ rich' = RichLine(rich, l)
  /\ UNCHANGED file

\* The end of the source: the daemon keeps the file parse accepted.
End ==
  /\ file' = IF StrictEnd(strict).failed THEN file ELSE StrictEnd(strict).services
  /\ length' = 0
  /\ strict' = [failed |-> FALSE, current |-> NoService, services |-> <<>>]
  /\ rich' = [errors |-> {}, current |-> NoService, services |-> <<>>]

Next == (\E l \in Lines : ReadLine(l)) \/ End

Spec == Init /\ [][Next]_vars

---------------------------------------------------------------------------------
\* Properties

Named(services) ==
  \A i \in DOMAIN services :
    /\ IsIdent(services[i].name)
    /\ \A j \in DOMAIN services[i].endpoints : IsIdent(services[i].endpoints[j].name)
    /\ \A j \in DOMAIN services[i].middleware : IsIdent(services[i].middleware[j])

\* A file compiles exactly when parse_with_errors has nothing to report of it, and to
\* the same services - but for the names, which only parse looks at.
ParsersAgree ==
  LET p == StrictEnd(strict)
      q == RichEnd(rich)
  IN /\ ~p.failed <=> q.errors = {} /\ Named(q.services)
     /\ ~p.failed => p.services = q.services

Segments(path, open, close) ==
  LET filled(s) == IF s # <<>> /\ s[1] = ":" THEN open \o Tail(s) \o close ELSE s
      split == Split(path, "/")
  IN Join([i \in DOMAIN split |-> filled(split[i])], <<"/">>)
Plain(path) == \A i \in DOMAIN path : path[i] = ":" => path[i - 1] = "/"
PrefixFree(ps) == \A i, j \in DOMAIN ps : i # j => ~IsPrefix(ps[i], ps[j])

\* What is generated from one file agrees: the client calls the path the document
\* gives, with each parameter in its own segment, a body where the document has one,
\* and the scheme it asks for.  The code's exceptions: a parameter whose name begins
\* with another one's, a colon inside a segment, and an endpoint that asks for another
\* scheme than its service's.
ClientsFollowTheDocument ==
  \A i \in DOMAIN file : \A j \in DOMAIN file[i].endpoints :
    LET s == file[i]
        e == s.endpoints[j]
        call == ClientCall(s, e)
        doc == Operation(s, e)
    IN /\ call.method = doc.method /\ call.body = doc.body /\ call.params = doc.params
       /\ s.auth = "none" \/ e.auth \in {Inherited, "none", s.auth} => call.scheme = doc.scheme
       /\ Plain(e.path) /\ PrefixFree(doc.params) =>
            /\ call.path = Segments(e.path, <<"${">>, <<"}">>)
            /\ doc.path = Segments(e.path, <<"{">>, <<"}">>)

=================================================================================
