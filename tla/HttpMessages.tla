------------------------------ MODULE HttpMessages ------------------------------
(***************************************************************************)
(* How the HTTP server reads a request off its connection and writes the   *)
(* answer (daemon/src/http.rs): parse_request over bytes that arrive in    *)
(* any pieces and may stop anywhere, the storage paths it splits, the      *)
(* response builders, and the header lines put into an answer that is      *)
(* already text.                                                           *)
(*                                                                         *)
(* A symbol is a character, or a word nothing here takes apart.  The parse *)
(* reads a prefix of the connection and blocks for more; as it only looks  *)
(* forward, it is a function of what has arrived so far.                   *)
(***************************************************************************)
EXTENDS Strings, TLC

CONSTANTS
  Messages,      \* what clients send: [method, bucket, key, headers, body]
  Extras,        \* header lines a middleware hook adds
  MaxRequests    \* bound: connections taken

VARIABLES
  counter,   \* REQUEST_COUNTER
  sent,      \* what the client of the connection at hand is sending, or Absent
  have,      \* how much of it has arrived
  closed,    \* the client's end is closed: no more will come
  served,    \* what parse_request made of it: a request, Dropped, or Absent
  reply

vars == <<counter, sent, have, closed, served, reply>>

Absent == [is |-> "none"]
Dropped == [is |-> "dropped"]
Waiting == [is |-> "waiting"]

---------------------------------------------------------------------------------
\* The client: an HTTP/1.1 request, its path percent-encoded

Escapes == (<<"2", "5">> :> "%") @@ (<<"2", "B">> :> "+") @@ (<<"2", "0">> :> " ") @@ (<<"2", "F">> :> "/")
Encode(text) ==
  FlattenSeq([i \in DOMAIN text |->
    IF \E e \in DOMAIN Escapes : Escapes[e] = text[i]
    THEN <<"%">> \o (CHOOSE e \in DOMAIN Escapes : Escapes[e] = text[i]) ELSE <<text[i]>>])
PathOf(msg) ==
  <<"/api/v1/storage/", "objects", "/">> \o Encode(msg.bucket)
  \o (IF msg.key = <<>> THEN <<>> ELSE <<"/">> \o Encode(msg.key))
HeadOf(msg) ==
  <<msg.method, " ">> \o PathOf(msg) \o <<" ", "HTTP/1.1", "newline">>
  \o FlattenSeq([i \in DOMAIN msg.headers |-> msg.headers[i][1] \o <<":", " ">> \o msg.headers[i][2] \o <<"newline">>])
  \o (IF msg.body = <<>> THEN <<>> ELSE <<"Content-Length", ":", " ", ToString(Len(msg.body)), "newline">>)
  \o <<"newline">>
Stream(msg) == HeadOf(msg) \o msg.body

---------------------------------------------------------------------------------
\* parse_request

Upper(w) == IF w = "put" THEN "PUT" ELSE w
Lower(w) == IF w = "Content-Length" THEN "content-length" ELSE w
Number(w) == IF \E n \in 0..9 : <<ToString(n)>> = w THEN CHOOSE n \in 0..9 : <<ToString(n)>> = w ELSE 0

\* The header lines that have a colon, split at it and trimmed.
Headers(lines) ==
  LET split == SelectSeq(lines, LAMBDA l : ":" \in ToSet(l))
  IN [i \in DOMAIN split |-> <<Trim(Before(split[i], ":")), Trim(After(split[i], ":"))>>]

\* The last Content-Length counts; one that is no number counts as 0.
ContentLength(headers) ==
  LET at == {i \in DOMAIN headers : [j \in DOMAIN headers[i][1] |-> Lower(headers[i][1][j])] = <<"content-length">>}
  IN IF at = {} THEN 0 ELSE Number(headers[Max(at)][2])

Read(text) == [is |-> "body", text |-> text]

\* Mutation: read instead of read_exact, which is content with less.
BodyShort(rest, length, over) ==
  IF Len(rest) >= length THEN Read(SubSeq(rest, 1, length)) ELSE IF over THEN Read(rest) ELSE Waiting

\* read_exact: all of the length, or no request at all.
Body(rest, length, over) ==
  IF Len(rest) >= length THEN Read(SubSeq(rest, 1, length)) ELSE IF over THEN Dropped ELSE Waiting

\* read_line gives a line that is over, or what is left once the connection is, and
\* then, for ever, an empty one, which looks like the end of the headers.
Parsed(text, over) ==
  LET lines == Split(text, "newline")
      n == Len(lines)
      ends == {i \in 2..n : lines[i] = <<>> /\ (i < n \/ over)} \cup (IF over THEN {n + 1} ELSE {})
      end == Min(ends)
      first == Words(lines[1])
      headers == Headers(SubSeq(lines, 2, Min({end - 1, n})))
      rest == Join(SubSeq(lines, end + 1, n), <<"newline">>)
      body == Body(rest, ContentLength(headers), over)
  IN IF n = 1 /\ ~over THEN Waiting
     ELSE IF Len(first) < 2 THEN Dropped
     ELSE IF ends = {} THEN Waiting
     ELSE IF body.is # "body" THEN body
     ELSE [is |-> "request", method |-> Upper(first[1][1]), path |-> first[2], headers |-> headers, body |-> body.text]

\* Request::header: the first of that name, in whatever case.
Header(headers, name) ==
  LET at == {i \in DOMAIN headers : [j \in DOMAIN headers[i][1] |-> Lower(headers[i][1][j])] = name}
  IN IF at = {} THEN <<>> ELSE <<headers[Min(at)][2]>>

---------------------------------------------------------------------------------
\* Paths

\* percent_decode: %XX and + from the left; a % that begins no escape is itself.
PercentDecode(text) ==
  LET Step(d, i) ==
        IF i < d.next THEN d
        ELSE IF text[i] = "%" /\ i + 2 <= Len(text) /\ SubSeq(text, i + 1, i + 2) \in DOMAIN Escapes
             THEN [out |-> Append(d.out, Escapes[SubSeq(text, i + 1, i + 2)]), next |-> i + 3]
             ELSE [out |-> Append(d.out, IF text[i] = "+" THEN " " ELSE text[i]), next |-> i + 1]
  IN FoldLeft(Step, [out |-> <<>>, next |-> 1], [i \in DOMAIN text |-> i]).out

\* split_storage_path (and split_pubsub_path): split first, decode after.
SplitPath(path, kind) ==
  LET rest == SubSeq(path, 4, Len(path))
      whole == Before(rest, "/") = <<>> \/ After(rest, "/") = <<>>
  IN IF SubSeq(path, 1, 3) # <<"/api/v1/storage/", kind, "/">> \/ rest = <<>> THEN <<>>
     ELSE IF whole THEN <<PercentDecode(rest), <<>>>>
     ELSE <<PercentDecode(Before(rest, "/")), PercentDecode(After(rest, "/"))>>

---------------------------------------------------------------------------------
\* Answers: a status, the lines of the head, a body

Reason(status) ==
  CASE status = 200 -> "OK" [] status = 201 -> "Created" [] status = 204 -> "No Content"
    [] status = 400 -> "Bad Request" [] status = 401 -> "Unauthorized" [] status = 403 -> "Forbidden"
    [] status = 404 -> "Not Found" [] status = 405 -> "Method Not Allowed"
    [] status = 500 -> "Internal Server Error" [] OTHER -> "Unknown"
Cors == <<<<"Access-Control-Allow-Origin", "*">>, <<"Access-Control-Allow-Methods", "GET, POST, PUT, DELETE, OPTIONS">>,
          <<"Access-Control-Allow-Headers", "Content-Type, Authorization, X-Bridge-Token, X-Api-Key">>>>
Close == <<"Connection", "close">>
Typed(status, reason, type, cors, body) ==
  [is |-> "reply", status |-> status, reason |-> reason, body |-> body,
   head |-> <<<<"Content-Type", type>>, <<"Content-Length", ToString(Len(body))>>>> \o cors \o <<Close>>]

JsonResponse(status, body) == Typed(status, Reason(status), "application/json", Cors, body)
TextResponse(status, body) == Typed(status, IF status = 200 THEN "OK" ELSE "Error", "text/plain", Cors, body)
PrometheusResponse(body) == Typed(200, "OK", "text/plain; version=0.0.4", SubSeq(Cors, 1, 1), body)
CorsPreflight ==
  [is |-> "reply", status |-> 204, reason |-> "No Content", body |-> <<>>,
   head |-> SubSeq(Cors, 1, 2) \o <<<<"Access-Control-Allow-Headers", "Content-Type, Authorization, X-Bridge-Token">>,
                                    <<"Access-Control-Max-Age", "86400">>, Close>>]

\* Mutation: the lines go before the last "Connection: close" of the text, which may be
\* one of the body's words.
InjectLast(answer, lines) ==
  IF "Connection: close" \in ToSet(answer.body)
  THEN [answer EXCEPT !.body = [i \in DOMAIN lines |-> lines[i][1]] \o @]
  ELSE [answer EXCEPT !.head = SubSeq(@, 1, Len(@) - 1) \o lines \o <<Close>>]

\* inject_header, inject_extra_headers, inject_request_id: before the first
\* "Connection: close" of the text, which every builder ends its head with.
Inject(answer, lines) ==
  LET at == Min({i \in DOMAIN answer.head : answer.head[i] = Close})
  IN [answer EXCEPT !.head = SubSeq(@, 1, at - 1) \o lines \o SubSeq(@, at, Len(@))]

\* What a handler may answer request r with.
Answers(r) ==
  {JsonResponse(status, b) : status \in {200, 400, 401, 404, 500}, b \in {r.body, <<"Connection: close">>}}
  \cup {TextResponse(200, r.body), PrometheusResponse(<<"bridge_requests_total">>)}

---------------------------------------------------------------------------------

Init ==
  /\ counter = 0 /\ sent = Absent /\ have = 0 /\ closed = FALSE
  /\ served = Absent /\ reply = Absent

\* The accept loop gives the connection a thread, which takes the next id.
Accept(msg) ==
  /\ sent = Absent /\ counter < MaxRequests
  /\ counter' = counter + 1
  /\ sent' = [is |-> "sent", msg |-> msg] /\ have' = 0 /\ closed' = FALSE
  /\ served' = Absent /\ reply' = Absent

Deliver(count) ==
  /\ sent # Absent /\ ~closed /\ have < count /\ count <= Len(Stream(sent.msg))
  /\ have' = count
  /\ UNCHANGED <<counter, sent, closed, served, reply>>

ClientCloses ==
  /\ sent # Absent /\ ~closed
  /\ closed' = TRUE
  /\ UNCHANGED <<counter, sent, have, served, reply>>

\* parse_request returns.
Parse ==
  /\ sent # Absent /\ served = Absent
  /\ LET parsed == Parsed(SubSeq(Stream(sent.msg), 1, have), closed)
     IN parsed # Waiting /\ served' = parsed
  /\ UNCHANGED <<counter, sent, have, closed, reply>>

\* The answer to what was parsed; a connection without a request is dropped.
Respond ==
  /\ served.is = "request" /\ reply = Absent
  /\ \/ served.method = "OPTIONS" /\ reply' = CorsPreflight
     \/ /\ served.method # "OPTIONS"
        /\ \E answer \in Answers(served), extra \in Extras :
             reply' = Inject(Inject(answer, extra), <<<<"X-Bridge-Request-Id", ToString(counter)>>>>)
  /\ UNCHANGED <<counter, sent, have, closed, served>>

EndConnection ==
  /\ served = Dropped \/ reply # Absent
  /\ sent' = Absent /\ have' = 0 /\ closed' = FALSE /\ served' = Absent /\ reply' = Absent
  /\ UNCHANGED counter

Next ==
  \/ \E msg \in Messages : Accept(msg)
  \/ sent # Absent /\ \E count \in have + 1 .. Len(Stream(sent.msg)) : Deliver(count)
  \/ ClientCloses \/ Parse \/ Respond \/ EndConnection

Spec == Init /\ [][Next]_vars

---------------------------------------------------------------------------------
\* Properties

\* In whatever pieces the bytes come: once the headers have arrived whole, nothing is
\* served but the whole request the client sent, its method, its headers, its body of
\* Content-Length bytes, and a path that splits into the bucket and the key it named;
\* a request whose body is cut short is dropped.  (One cut short inside its head is
\* served with what came.)
RequestsArriveAsSent ==
  sent # Absent =>
    /\ served = Dropped => closed
    /\ served.is = "request" /\ have >= Len(HeadOf(sent.msg)) =>
         /\ have = Len(Stream(sent.msg))
         /\ served.method = Upper(sent.msg.method)
         /\ SplitPath(served.path, "objects") = <<sent.msg.bucket, sent.msg.key>>
         /\ served.body = sent.msg.body
         /\ \A i \in DOMAIN sent.msg.headers :
              Header(served.headers, sent.msg.headers[i][1]) = <<sent.msg.headers[i][2]>>

\* http.rs: "Common path after rate-limit check" ends in inject_request_id: every answer
\* but a preflight's names its request once, in its head, and the length it declares is
\* still that of its body.
AnswersNameTheirRequest ==
  reply # Absent /\ reply.status # 204 =>
    /\ Cardinality({i \in DOMAIN reply.head : reply.head[i] = <<"X-Bridge-Request-Id", ToString(counter)>>}) = 1
    /\ <<"Content-Length", ToString(Len(reply.body))>> \in ToSet(reply.head)

=================================================================================
