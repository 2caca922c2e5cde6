------------------------------- MODULE Validation -------------------------------
(***************************************************************************)
(* The validation registry: the regular expressions and the rules of       *)
(* validation.rs, the handlers of http.rs that register and remove them,   *)
(* and validate_body.  Of the expressions: the parser, the backtracking    *)
(* matcher and, as the reference it is compared with, the relation between *)
(* positions an expression denotes.                                        *)
(*                                                                         *)
(* A body is the sequence of its [key, value] pairs in the order they      *)
(* stand in the text, nested ones included; the text of a value is in the  *)
(* symbols of the expressions.                                             *)
(***************************************************************************)
EXTENDS Strings, TLC

CONSTANTS
  Endpoints,   \* as registrations write them: "POST:/a" or bare "/a"
  Fields,
  SpecLists,   \* the rule lists that are registered
  Inputs,      \* the values that are tried on the patterns
  Bodies       \* the bodies that are sent

VARIABLES
  schemas,     \* [endpoint -> sequence of [field, rules]]
  answer,      \* the violations the request just served was answered with
  asked        \* history: the specs last registered, [<<endpoint, field>> -> specs]

vars == <<schemas, answer, asked>>

---------------------------------------------------------------------------------
\* The regular expressions

\* The characters patterns and inputs are written in, with their order.
Code == "newline" :> 10 @@ " " :> 32 @@ "\"" :> 34 @@ "," :> 44 @@ "-" :> 45 @@ "." :> 46 @@ "/" :> 47
        @@ "0" :> 48 @@ "1" :> 49 @@ "2" :> 50 @@ "3" :> 51 @@ "9" :> 57 @@ ":" :> 58 @@ "@" :> 64
        @@ "A" :> 65 @@ "Z" :> 90 @@ "\\" :> 92 @@ "]" :> 93 @@ "^" :> 94 @@ "_" :> 95
        @@ "a" :> 97 @@ "b" :> 98 @@ "c" :> 99 @@ "z" :> 122 @@ "{" :> 123
Digits == {"0", "1", "2", "3", "9"}
WordChars == Digits \cup {"A", "Z", "_", "a", "b", "c", "z"}
Unbounded == 100    \* usize::MAX: no input is as long
DecimalOf(s) == FoldLeft(LAMBDA n, d : 10 * n + Code[d] - 48, 0, s)

---------------------------------------------------------------------------------
\* RegexParser: what is read, and the position after it

Leaf(kind, neg) == [kind |-> kind, neg |-> neg]
Char(c) == [kind |-> "char", c |-> c]
Read(ok, value, at) == [ok |-> ok, value |-> value, at |-> at]
NoParse == Read(FALSE, <<>>, 0)
Peek(t, i) == IF i <= Len(t) THEN t[i] ELSE "end"

EscapeOf == "d" :> Leaf("digit", FALSE) @@ "D" :> Leaf("digit", TRUE) @@ "w" :> Leaf("word", FALSE)
            @@ "W" :> Leaf("word", TRUE) @@ "s" :> Leaf("space", FALSE) @@ "S" :> Leaf("space", TRUE)
ClassEscape == "d" :> {<<48, 57>>} @@ "w" :> {<<97, 122>>, <<65, 90>>, <<48, 57>>, <<95, 95>>}
               @@ "s" :> {<<32, 32>>, <<9, 9>>, <<10, 10>>, <<13, 13>>}

\* parse_class after the optional ^: the first character is an item even if it is a ].
RECURSIVE ClassItems(_, _, _)
ClassItems(t, i, class) ==
  LET c == Peek(t, i)
      escaped == c = "\\"
      lo == IF escaped THEN Peek(t, i + 1) ELSE c
      next == IF escaped THEN i + 2 ELSE i + 1
      range == Peek(t, next) = "-" /\ Peek(t, next + 1) \notin {"]", "end"}
      hiAt == IF Peek(t, next + 1) = "\\" THEN next + 2 ELSE next + 1
      with(items) == [class EXCEPT !.items = @ \cup items, !.first = FALSE]
  IN IF c = "end" \/ lo = "end" THEN NoParse
     ELSE IF c = "]" /\ ~class.first THEN Read(TRUE, class, i + 1)
     ELSE IF escaped /\ lo \in DOMAIN ClassEscape THEN ClassItems(t, next, with(ClassEscape[lo]))
     ELSE IF ~range THEN ClassItems(t, next, with({<<Code[lo], Code[lo]>>}))
     ELSE IF Peek(t, hiAt) = "end" THEN NoParse
     ELSE IF Code[t[hiAt]] < Code[lo] THEN NoParse
     ELSE ClassItems(t, hiAt + 1, with({<<Code[lo], Code[t[hiAt]]>>}))

Class(t, i) ==
  LET negated == Peek(t, i) = "^"
  IN ClassItems(t, IF negated THEN i + 1 ELSE i, [kind |-> "class", neg |-> negated, items |-> {}, first |-> TRUE])

\* The digits from position i on.
DigitsAt(t, i) ==
  LET end == CHOOSE j \in i .. Len(t) + 1 : Peek(t, j) \notin Digits /\ \A k \in i .. j - 1 : t[k] \in Digits
  IN SubSeq(t, i, end - 1)

Repeat(atom, min, max, at) == Read(TRUE, [kind |-> "repeat", node |-> atom, min |-> min, max |-> max], at)

\* {n}, {n,} and {n,m}; anything else in braces is literal.
Braces(t, i, atom) ==
  LET lo == DigitsAt(t, i + 1)
      afterLo == i + 1 + Len(lo)
      comma == Peek(t, afterLo) = ","
      hi == IF comma THEN DigitsAt(t, afterLo + 1) ELSE lo
      close == IF comma THEN afterLo + 1 + Len(hi) ELSE afterLo
      max == IF hi = <<>> THEN Unbounded ELSE DecimalOf(hi)
  IN IF lo = <<>> \/ Peek(t, close) # "}" THEN Read(TRUE, atom, i)
     ELSE IF max < DecimalOf(lo) THEN NoParse
     ELSE Repeat(atom, DecimalOf(lo), max, close + 1)

\* parse_quantifier
Quantified(t, i, atom) ==
  CASE Peek(t, i) = "*" -> Repeat(atom, 0, Unbounded, i + 1)
    [] Peek(t, i) = "+" -> Repeat(atom, 1, Unbounded, i + 1)
    [] Peek(t, i) = "?" -> Repeat(atom, 0, 1, i + 1)
    [] Peek(t, i) = "{" -> Braces(t, i, atom)
    [] OTHER -> Read(TRUE, atom, i)

RECURSIVE Alternation(_, _), Sequence(_, _), Atom(_, _)

\* A group: what is in the parentheses, if the second one is there.
Closed(t, inner) ==
  IF inner.ok /\ Peek(t, inner.at) = ")"
  THEN Read(TRUE, [kind |-> "group", branches |-> inner.value], inner.at + 1) ELSE NoParse

\* parse_atom
Atom(t, i) ==
  CASE t[i] = "(" -> Closed(t, Alternation(t, i + 1))
    [] t[i] = "[" -> Class(t, i + 1)
    [] t[i] = "." -> Read(TRUE, Leaf("any", FALSE), i + 1)
    [] t[i] = "^" -> Read(TRUE, Leaf("start", FALSE), i + 1)
    [] t[i] = "$" -> Read(TRUE, Leaf("end", FALSE), i + 1)
    [] t[i] = "\\" -> IF i = Len(t) THEN NoParse
                      ELSE Read(TRUE, IF t[i + 1] \in DOMAIN EscapeOf THEN EscapeOf[t[i + 1]] ELSE Char(t[i + 1]), i + 2)
    [] OTHER -> Read(TRUE, Char(t[i]), i + 1)

\* parse_sequence and parse_alternation: what has been read, and what follows it.
Prefixed(first, rest) == IF rest.ok THEN Read(TRUE, <<first.value>> \o rest.value, rest.at) ELSE NoParse
AfterItem(t, item) == IF item.ok THEN Prefixed(item, Sequence(t, item.at)) ELSE NoParse
AfterAtom(t, atom) == IF atom.ok THEN AfterItem(t, Quantified(t, atom.at, atom.value)) ELSE NoParse
Sequence(t, i) ==
  IF Peek(t, i) \in {"end", "|", ")"} THEN Read(TRUE, <<>>, i) ELSE AfterAtom(t, Atom(t, i))

AfterBranch(t, branch) ==
  IF ~branch.ok THEN NoParse
  ELSE IF Peek(t, branch.at) = "|" THEN Prefixed(branch, Alternation(t, branch.at + 1))
  ELSE Read(TRUE, <<branch.value>>, branch.at)
Alternation(t, i) == AfterBranch(t, Sequence(t, i))

\* Regex::new
Compiles(t) == LET r == Alternation(t, 1) IN r.ok /\ r.at = Len(t) + 1
Compiled(t) == Alternation(t, 1).value

---------------------------------------------------------------------------------
\* The matcher

CharMatch(n, c) ==
  CASE n.kind = "char" -> n.c = c
    [] n.kind = "any" -> c # "newline"
    [] n.kind = "digit" -> (c \in Digits) # n.neg
    [] n.kind = "word" -> (c \in WordChars) # n.neg
    [] n.kind = "space" -> (c \in Whitespace) # n.neg
    [] OTHER -> (\E r \in n.items : Code[c] \in r[1] .. r[2]) # n.neg

\* match_seq and match_one_then, as the sets of positions their continuations are
\* called with; a repetition that does not advance is not continued.
RECURSIVE MatchSeq(_, _, _), MatchOne(_, _, _), RepeatMatch(_, _, _, _)

MatchOne(n, s, pos) ==
  CASE n.kind = "group" -> UNION {MatchSeq(n.branches[b], s, pos) : b \in DOMAIN n.branches}
    [] n.kind = "repeat" -> MatchSeq(<<n>>, s, pos)
    [] n.kind = "start" -> {pos} \cap {0}
    [] n.kind = "end" -> {pos} \cap {Len(s)}
    [] OTHER -> IF pos < Len(s) /\ CharMatch(n, s[IF pos < Len(s) THEN pos + 1 ELSE 1]) THEN {pos + 1} ELSE {}

\* Mutation: a repetition takes all it can and gives nothing back.
RepeatGreedy(n, s, pos, done) ==
  LET more == UNION {RepeatMatch(n, s, p, done + 1) : p \in MatchOne(n.node, s, pos) \ {pos}}
  IN IF done < n.min \/ (done < n.max /\ more # {}) THEN more ELSE {pos}

RepeatMatch(n, s, pos, done) ==
  LET more == UNION {RepeatMatch(n, s, p, done + 1) : p \in MatchOne(n.node, s, pos) \ {pos}}
  IN IF done < n.min THEN more ELSE {pos} \cup IF done < n.max THEN more ELSE {}

MatchSeq(nodes, s, pos) ==
  IF nodes = <<>> THEN {pos}
  ELSE LET ends == IF nodes[1].kind = "repeat" THEN RepeatMatch(nodes[1], s, pos, 0) ELSE MatchOne(nodes[1], s, pos)
       IN UNION {MatchSeq(Tail(nodes), s, p) : p \in ends}

TestFull(branches, s) == \E b \in DOMAIN branches : Len(s) \in MatchSeq(branches[b], s, 0)

---------------------------------------------------------------------------------
\* The reference: the pairs of positions between which an expression matches

Steps(r, q) == {<<x[1], y[2]>> : <<x, y>> \in {z \in r \X q : z[1][2] = z[2][1]}}

RECURSIVE Denotes(_, _), Power(_, _, _)
Here(s) == {<<p, p>> : p \in 0 .. Len(s)}
Power(r, n, s) == IF n = 0 THEN Here(s) ELSE Steps(Power(r, n - 1, s), r)
DenotesAll(nodes, s) == FoldLeft(LAMBDA r, n : Steps(r, Denotes(n, s)), Here(s), nodes)
Denotes(n, s) ==
  CASE n.kind = "group" -> UNION {DenotesAll(n.branches[b], s) : b \in DOMAIN n.branches}
    [] n.kind = "repeat" -> UNION {Power(Denotes(n.node, s), k, s) :
                                     k \in {j \in n.min .. n.min + Len(s) : j <= n.max}}
    [] n.kind = "start" -> {<<0, 0>>}
    [] n.kind = "end" -> {<<Len(s), Len(s)>>}
    [] OTHER -> {<<p - 1, p>> : p \in {q \in DOMAIN s : CharMatch(n, s[q])}}

\* An expression that can match nothing, repeated at least once.
RECURSIVE ForcesEmpty(_)
ForcesEmpty(n) ==
  CASE n.kind = "group" -> \E b \in DOMAIN n.branches : \E i \in DOMAIN n.branches[b] : ForcesEmpty(n.branches[b][i])
    [] n.kind = "repeat" -> (n.min > 0 /\ <<0, 0>> \in Denotes(n.node, <<>>)) \/ ForcesEmpty(n.node)
    [] OTHER -> FALSE

---------------------------------------------------------------------------------
\* Rules

Name(spec) == Before(Trim(spec), ":")
Arg(spec) == After(Trim(spec), ":")
IsNumber(s) == s # <<>> /\ ToSet(s) \subseteq Digits

\* Rule::parse
Lengths == {<<"minLen">>, <<"maxLen">>}
Bounds == {<<"min">>, <<"max">>}
Patterns == {<<"matches">>, <<"matchesRegexp">>}
Others == {<<"required">>, <<"startsWith">>, <<"endsWith">>, <<"isEmail">>, <<"isURL">>}
IsRule(spec) ==
  \/ Name(spec) \in Others
  \/ Name(spec) \in Lengths \cup Bounds /\ IsNumber(Trim(Arg(spec)))
  \/ Name(spec) \in Patterns /\ Arg(spec) # <<>> /\ Compiles(Arg(spec))
RuleOf(spec) == [name |-> IF Name(spec) \in Patterns THEN <<"matchesRegexp">> ELSE Name(spec), arg |-> Arg(spec)]

\* is_email, is_url
Alnum == WordChars \ {"_"}
EmailPart(s, extra) == s # <<>> /\ ToSet(s) \subseteq Alnum \cup extra
IsEmail(v) ==
  LET local == Before(v, "@")
      labels == Split(After(v, "@"), ".")
  IN /\ Len(SelectSeq(v, LAMBDA c : c = "@")) = 1
     /\ EmailPart(local, {".", "_", "%", "+", "-"}) /\ Len(local) <= 64
     /\ local[1] # "." /\ Last(local) # "." /\ Find(local, <<".", ".">>) = 0
     /\ Len(labels) > 1 /\ Len(After(v, "@")) <= 253
     /\ \A i \in DOMAIN labels : /\ EmailPart(labels[i], {"-"}) /\ Len(labels[i]) <= 63
                                 /\ labels[i][1] # "-" /\ Last(labels[i]) # "-"
HostOf(authority) ==
  LET at == {i \in DOMAIN authority : authority[i] = "@"}
  IN IF at = {} THEN authority ELSE SubSeq(authority, Max(at) + 1, Len(authority))
IsUrl(v) ==
  LET sep == Find(v, <<":", "/", "/">>)
      rest == SubSeq(v, sep + 3, Len(v))
      ends == {i \in DOMAIN rest : rest[i] \in {"/", "?", "#"}}
      hostPart == HostOf(IF ends = {} THEN rest ELSE SubSeq(rest, 1, Min(ends) - 1))
      colons == {i \in 1 .. Len(hostPart) - 1 : hostPart[i] = ":" /\ "." \in ToSet(SubSeq(hostPart, 1, i - 1))}
      port == colons # {} /\ \A i \in Max(colons) + 1 .. Len(hostPart) : hostPart[i] # ":"
      host == IF port THEN SubSeq(hostPart, 1, Max(colons) - 1) ELSE hostPart
  IN /\ sep > 1 /\ v[1] \in Alnum \ Digits
     /\ ToSet(SubSeq(v, 1, sep - 1)) \subseteq Alnum \cup {"+", "-", "."}
     /\ port => IsNumber(SubSeq(hostPart, Max(colons) + 1, Len(hostPart)))
     /\ ToSet(host) \subseteq Alnum \cup {".", "-", "[", "]", ":"} /\ ToSet(host) \cap Alnum # {}

\* Rule::check
Check(rule, v) ==
  CASE rule.name = <<"required">> -> Trim(v) # <<>>
    [] rule.name = <<"minLen">> -> Len(v) >= DecimalOf(Trim(rule.arg))
    [] rule.name = <<"maxLen">> -> Len(v) <= DecimalOf(Trim(rule.arg))
    [] rule.name = <<"min">> -> IsNumber(v) /\ DecimalOf(v) >= DecimalOf(Trim(rule.arg))
    [] rule.name = <<"max">> -> IsNumber(v) /\ DecimalOf(v) <= DecimalOf(Trim(rule.arg))
    [] rule.name = <<"matchesRegexp">> -> TestFull(Compiled(rule.arg), v)
    [] rule.name = <<"startsWith">> -> IsPrefix(rule.arg, v)
    [] rule.name = <<"endsWith">> -> IsSuffix(rule.arg, v)
    [] rule.name = <<"isEmail">> -> IsEmail(v)
    [] OTHER -> IsUrl(v)

---------------------------------------------------------------------------------
\* JSON

\* What a client writes of a text and of a list of texts.
Escaped(s) == FlattenSeq([i \in DOMAIN s |->
                CASE s[i] \in {"\\", "\""} -> <<"\\", s[i]>>
                  [] s[i] = "newline" -> <<"\\", "n">>
                  [] OTHER -> <<s[i]>>])
JsonList(texts) ==
  Join([i \in DOMAIN texts |-> <<"\"">> \o Escaped(texts[i]) \o <<"\"">>], <<",", " ">>) \o <<"]">>

\* Mutation: brackets and commas inside a string end it, too.
ParseRulesPlain(text) ==
  LET push(p) == [p EXCEPT !.items = IF Trim(p.cur) = <<>> THEN @ ELSE Append(@, Trim(p.cur)), !.cur = <<>>]
      step(p, c) ==
        IF p.done THEN p
        ELSE IF p.escape THEN [p EXCEPT !.cur = Append(@, IF c = "n" THEN "newline" ELSE c), !.escape = FALSE]
        ELSE CASE c = "\\" -> [p EXCEPT !.escape = TRUE]
               [] c = "\"" -> [p EXCEPT !.inside = ~@]
               [] c = "," -> push(p)
               [] c = "]" -> [push(p) EXCEPT !.done = TRUE]
               [] OTHER -> [p EXCEPT !.cur = Append(@, c)]
      read[i \in 0 .. Len(text)] ==
        IF i = 0 THEN [items |-> <<>>, cur |-> <<>>, inside |-> FALSE, escape |-> FALSE, done |-> FALSE]
        ELSE step(read[i - 1], text[i])
  IN read[Len(text)]

\* parse_rules_field, from the opening bracket on.
ParseRules(text) ==
  LET push(p) == [p EXCEPT !.items = IF Trim(p.cur) = <<>> THEN @ ELSE Append(@, Trim(p.cur)), !.cur = <<>>]
      step(p, c) ==
        IF p.done THEN p
        ELSE IF p.escape THEN [p EXCEPT !.cur = Append(@, IF c = "n" THEN "newline" ELSE c), !.escape = FALSE]
        ELSE CASE c = "\\" -> [p EXCEPT !.escape = TRUE]
               [] c = "\"" -> [p EXCEPT !.inside = ~@]
               [] c = "," /\ ~p.inside -> push(p)
               [] c = "]" /\ ~p.inside -> [push(p) EXCEPT !.done = TRUE]
               [] OTHER -> [p EXCEPT !.cur = Append(@, c)]
      read[i \in 0 .. Len(text)] ==
        IF i = 0 THEN [items |-> <<>>, cur |-> <<>>, inside |-> FALSE, escape |-> FALSE, done |-> FALSE]
        ELSE step(read[i - 1], text[i])
  IN read[Len(text)]

\* extract_json_value: the first pair of that key, up to the first quote in its text.
Extract(body, field) ==
  LET hits == SelectSeq(body, LAMBDA p : p.key = field)
  IN IF hits = <<>> THEN <<"absent">> ELSE Before(Escaped(hits[1].value), "\"")

\* validate_body: the violations, in the order of fields and rules.
ValidateBody(endpoint, body) ==
  LET broken(entry) ==
        LET v == Extract(body, entry.field)
        IN SelectSeq(entry.rules, LAMBDA r : IF v = <<"absent">> THEN r.name = <<"required">> ELSE ~Check(r, v))
      entries == IF endpoint \in DOMAIN schemas THEN schemas[endpoint] ELSE <<>>
  IN FlattenSeq([i \in DOMAIN entries |->
       LET b == broken(entries[i]) IN [j \in DOMAIN b |-> <<entries[i].field, b[j].name>>]])

---------------------------------------------------------------------------------
\* The registry

Init == schemas = <<>> /\ answer = <<>> /\ asked = <<>>

Without(f, gone) == [k \in DOMAIN f \ gone |-> f[k]]

\* add_field
AddField(endpoint, field, rules) ==
  LET entries == IF endpoint \in DOMAIN schemas THEN schemas[endpoint] ELSE <<>>
      entry == [field |-> field, rules |-> rules]
      new == IF \E i \in DOMAIN entries : entries[i].field = field
             THEN [i \in DOMAIN entries |-> IF entries[i].field = field THEN entry ELSE entries[i]]
             ELSE Append(entries, entry)
  IN schemas' = endpoint :> new @@ schemas

\* validation_register: a bare path stands for its POST; the first bad rule refuses
\* the whole registration.
Register(written, field, specs) ==
  LET endpoint == IF written.method = "bare" THEN [written EXCEPT !.method = "POST"] ELSE written
      parsed == ParseRules(JsonList(specs)).items
  IN /\ answer' = <<>>
     /\ IF \A i \in DOMAIN parsed : IsRule(parsed[i])
        THEN /\ AddField(endpoint, field, [i \in DOMAIN parsed |-> RuleOf(parsed[i])])
             /\ asked' = <<endpoint, field>> :> specs @@ asked
        ELSE UNCHANGED <<schemas, asked>>

\* validation_remove with a field: an endpoint without fields is dropped.
RemoveField(endpoint, field) ==
  /\ endpoint \in DOMAIN schemas
  /\ LET left == SelectSeq(schemas[endpoint], LAMBDA e : e.field # field)
     IN schemas' = IF left = <<>> THEN Without(schemas, {endpoint}) ELSE [schemas EXCEPT ![endpoint] = left]
  /\ asked' = Without(asked, {<<endpoint, field>>})
  /\ answer' = <<>>

\* ... and without one, as it is written.
RemoveEndpoint(endpoint) ==
  /\ endpoint \in DOMAIN schemas
  /\ schemas' = Without(schemas, {endpoint})
  /\ asked' = Without(asked, {endpoint} \X Fields)
  /\ answer' = <<>>

\* A request with a body; a handler runs only if nothing is wrong with it.
Request(endpoint, body) ==
  /\ answer' = ValidateBody(endpoint, body)
  /\ UNCHANGED <<schemas, asked>>

Next ==
  \E e \in Endpoints :
    \/ \E f \in Fields, s \in SpecLists : Register(e, f, s)
    \/ \E f \in Fields : RemoveField(e, f)
    \/ RemoveEndpoint(e)
    \/ \E b \in Bodies : Request(e, b)

Spec == Init /\ [][Next]_vars

---------------------------------------------------------------------------------
\* Properties

\* The registry holds, once per field, exactly the rules last asked for, in their
\* order and with their arguments, whatever brackets, commas, quotes and backslashes
\* the patterns contain, as parse_rules_field promises ("survive intact").
RulesSurvive ==
  /\ asked = <<>> <=> schemas = <<>>
  /\ \A e \in DOMAIN schemas :
       /\ \A i, j \in DOMAIN schemas[e] : schemas[e][i].field = schemas[e][j].field => i = j
       /\ {schemas[e][i].field : i \in DOMAIN schemas[e]} = {k[2] : k \in {a \in DOMAIN asked : a[1] = e}}
       /\ \A i \in DOMAIN schemas[e] :
            LET specs == asked[<<e, schemas[e][i].field>>]
            IN schemas[e][i].rules = [j \in DOMAIN specs |-> RuleOf(specs[j])]

\* matchesRegexp accepts a value exactly when the expression denotes the whole of it, as
\* the test regexp_rule_is_full_match (validation.rs:1001) has it.  The module's own doc
\* (validation.rs:31-32 and :264) says RegExp.test, a search anywhere in the value, for the
\* same rule; check calls test_full, so "ab" fails b+ here and would pass there.  The
\* code's exception is an expression that may be empty and has to be repeated.
PatternsDenoteTheirValues ==
  \A e \in DOMAIN schemas : \A i \in DOMAIN schemas[e] :
    LET rules == SelectSeq(schemas[e][i].rules, LAMBDA r : r.name = <<"matchesRegexp">>)
    IN \A j \in DOMAIN rules :
         LET re == Compiled(rules[j].arg)
             group == [kind |-> "group", branches |-> re]
         IN ForcesEmpty(group) \/ \A v \in Inputs :
              Check(rules[j], v) <=> <<0, Len(v)>> \in Denotes(group, v)

=================================================================================
