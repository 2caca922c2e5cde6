------------------------------- MODULE JsonBodies -------------------------------
(***************************************************************************)
(* How the HTTP handlers read a JSON body (daemon/src/http.rs): no parser, *)
(* but searches of the text for a quoted name and scanners for what        *)
(* follows it.  The client and the handlers are those of the cache's       *)
(* multi-set and multi-get.                                                *)
(*                                                                         *)
(* A symbol is a character, or a word no scanner takes apart.              *)
(***************************************************************************)
EXTENDS Strings

CONSTANTS
  Keyspaces, Keys,    \* words; none is the name of a field
  Values,             \* printed JSON scalars
  TtlTexts            \* printed, or Absent for a body without one

VARIABLES
  store,      \* what the handlers put: [<<keyspace, key>> -> [value, ttl]]
  sent,       \* history: what the client meant
  answer      \* of the last multi-get: the sequence of its values

vars == <<store, sent, answer>>

Absent == <<"none">>

---------------------------------------------------------------------------------
\* Searches

TrimStart(s) == SubSeq(s, Min({i \in DOMAIN s : s[i] \notin Whitespace} \cup {Len(s) + 1}), Len(s))

\* What follows the colon after the first place where the quoted name occurs, or Absent.
FieldText(json, name) ==
  LET needle == <<"quote">> \o name \o <<"quote">>
      rest == TrimStart(SubSeq(json, Find(json, needle) + Len(needle), Len(json)))
  IN IF Find(json, needle) = 0 \/ rest = <<>> \/ rest[1] # ":" THEN Absent ELSE TrimStart(Tail(rest))

\* The length of a string's text, up to the quote that is not escaped.
StringEnd(s) ==
  LET Step(e, c) == CASE e.over     -> e
                      [] e.escaped  -> [e EXCEPT !.len = @ + 1, !.escaped = FALSE]
                      [] c = "quote" -> [e EXCEPT !.over = TRUE]
                      [] OTHER      -> [e EXCEPT !.len = @ + 1, !.escaped = (c = "backslash")]
  IN FoldLeft(Step, [len |-> 0, escaped |-> FALSE, over |-> FALSE], s).len

\* extract_json_field: a string without its quotes, anything else up to a comma or brace.
ExtractField(json, name) ==
  LET rest == FieldText(json, name)
      stops == {i \in DOMAIN rest : rest[i] \in {",", "}"}}
  IN IF rest = Absent THEN Absent
     ELSE IF rest # <<>> /\ rest[1] = "quote" THEN SubSeq(Tail(rest), 1, StringEnd(Tail(rest)))
     ELSE Trim(SubSeq(rest, 1, Min(stops \cup {Len(rest) + 1}) - 1))

\* extract_json_object and extract_json_array: up to the bracket that closes the first,
\* brackets in strings not counted.
Balanced(json, name, open, close) ==
  LET rest == FieldText(json, name)
      Step(e, c) ==
        LET text == [e EXCEPT !.len = @ + 1, !.escaped = (c = "backslash" /\ ~e.escaped)]
        IN CASE e.over                     -> e
             [] c = "quote" /\ ~e.escaped  -> [text EXCEPT !.inString = ~@]
             [] c = open /\ ~e.inString    -> [text EXCEPT !.depth = @ + 1]
             [] c = close /\ ~e.inString   -> [text EXCEPT !.depth = @ - 1, !.over = (e.depth = 1)]
             [] OTHER                      -> text
      end == FoldLeft(Step, [len |-> 0, depth |-> 0, inString |-> FALSE, escaped |-> FALSE, over |-> FALSE], rest)
  IN IF rest = Absent \/ rest = <<>> THEN Absent
     ELSE IF rest[1] # open \/ ~end.over THEN Absent ELSE SubSeq(rest, 1, end.len)

ExtractObject(json, name) == Balanced(json, name, "{", "}")
ExtractArray(json, name) ==
  LET found == Balanced(json, name, "[", "]") IN IF found = Absent THEN Absent ELSE SubSeq(found, 2, Len(found) - 1)

---------------------------------------------------------------------------------
\* Scanners

\* Mutation: a string ends at the next quote, escaped or not.
StringPairsUnescaped(inner) ==
  LET parts == Split(inner, "quote")
  IN [i \in 1..((Len(parts) - 1) \div 4) |-> <<parts[4 * i - 2], <<"quote">> \o parts[4 * i] \o <<"quote">> >>]

\* parse_string_pairs, symbol by symbol: the raw text of every value, quotes included.
StringPairs(inner) ==
  LET Push(s) == IF s.key = <<>> THEN s.out ELSE Append(s.out, <<s.key, Trim(s.value)>>)
      Seek(s, c) == [s EXCEPT !.at = IF c = "," THEN "seek" ELSE "tail", !.out = Push(s)]
      Step(s, c) ==
        CASE s.at = "seek"   -> IF c = "quote" THEN [s EXCEPT !.at = "key", !.key = <<>>, !.value = <<>>] ELSE s
          [] s.at = "key"    -> IF c = "quote" THEN [s EXCEPT !.at = "colon"]
                                ELSE [s EXCEPT !.key = Append(@, c), !.at = IF c = "backslash" THEN "key escape" ELSE @]
          [] s.at = "key escape" -> [s EXCEPT !.key = Append(@, c), !.at = "key"]
          [] s.at = "colon"  -> IF c \in {" ", ":"} THEN s
                                ELSE IF c \in {",", "}"} THEN Seek(s, c)
                                ELSE [s EXCEPT !.at = IF c = "quote" THEN "string" ELSE "scalar", !.value = <<c>>]
          [] s.at = "string" -> IF c = "quote" THEN [s EXCEPT !.at = "tail", !.out = Push([s EXCEPT !.value = Append(@, c)])]
                                ELSE [s EXCEPT !.value = Append(@, c), !.at = IF c = "backslash" THEN "escape" ELSE @]
          [] s.at = "escape" -> [s EXCEPT !.value = Append(@, c), !.at = "string"]
          [] s.at = "scalar" -> IF c \in {",", "}"} THEN Seek(s, c) ELSE [s EXCEPT !.value = Append(@, c)]
          [] s.at = "tail"   -> IF c = "," THEN [s EXCEPT !.at = "seek"] ELSE s
      end == FoldLeft(Step, [at |-> "seek", key |-> <<>>, value |-> <<>>, out |-> <<>>], inner)
  IN IF end.at \in {"colon", "string", "escape", "scalar"} THEN Push(end) ELSE end.out

\* parse_string_array: split at commas, the quotes at both ends trimmed off.
Unquoted(s) ==
  LET kept == {i \in DOMAIN s : s[i] # "quote"}
  IN IF kept = {} THEN <<>> ELSE SubSeq(s, Min(kept), Max(kept))
StringArray(inner) ==
  LET items == [i \in DOMAIN Split(inner, ",") |-> Unquoted(Trim(Split(inner, ",")[i]))]
  IN SelectSeq(items, LAMBDA s : s # <<>> \/ Find(inner, <<"quote", "quote">>) # 0)

---------------------------------------------------------------------------------
\* The client and the handlers

Q(word) == <<"quote", word, "quote">>
MsetBody(ks, ttl, pairs) ==
  <<"{">> \o Q("keyspace") \o <<":">> \o Q(ks)
  \o (IF ttl = Absent THEN <<>> ELSE <<",">> \o Q("ttl_ms") \o <<":">> \o ttl)
  \o <<",">> \o Q("pairs") \o <<":", " ", "{">>
  \o Join([i \in DOMAIN pairs |-> Q(pairs[i][1]) \o <<":">> \o pairs[i][2]], <<",", " ">>) \o <<"}", "}">>
MgetBody(ks, keys) ==
  <<"{">> \o Q("keyspace") \o <<":">> \o Q(ks) \o <<",">> \o Q("keys") \o <<":", "[">>
  \o Join([i \in DOMAIN keys |-> Q(keys[i])], <<",">>) \o <<"]", "}">>

Stored(table, ks, ttl, pairs) ==
  LET Put(t, pair) == [x \in DOMAIN t \cup {<<ks, pair[1]>>} |->
                         IF x = <<ks, pair[1]>> THEN [value |-> pair[2], ttl |-> ttl] ELSE t[x]]
  IN FoldLeft(Put, table, pairs)

Init == store = [x \in {} |-> Absent] /\ sent = store /\ answer = <<>>

\* cache_mset, into an empty cache; keys and the keyspace come as the text between their quotes.
Mset(ks, ttl, pairs) ==
  LET body == MsetBody(ks, ttl, pairs)
      space == ExtractField(body, <<"keyspace">>)
      object == ExtractObject(body, <<"pairs">>)
  IN /\ DOMAIN sent = {}
     /\ store' = IF space = Absent \/ space = <<>> \/ object = Absent THEN store
                 ELSE Stored(store, space, ExtractField(body, <<"ttl_ms">>), StringPairs(object))
     /\ sent' = Stored(sent, <<ks>>, ttl, [i \in DOMAIN pairs |-> << <<pairs[i][1]>>, pairs[i][2]>>])
     /\ answer' = <<>>

\* cache_mget: one value for every key of the body.
Mget(ks, keys) ==
  LET body == MgetBody(ks, keys)
      space == ExtractField(body, <<"keyspace">>)
      asked == StringArray(ExtractArray(body, <<"keys">>))
  IN /\ answer' = [i \in DOMAIN asked |-> IF <<space, asked[i]>> \in DOMAIN store THEN store[<<space, asked[i]>>].value ELSE Absent]
     /\ UNCHANGED <<store, sent>>

Clear ==
  /\ store' = [x \in {} |-> Absent] /\ sent' = store' /\ answer' = <<>>

Next ==
  \/ Clear
  \/ \E ks \in Keyspaces, ttl \in TtlTexts, k \in Keys, v, w \in Values :
       \/ Mset(ks, ttl, << <<k, v>> >>)
       \/ \E l \in Keys \ {k} : Mset(ks, ttl, << <<k, v>>, <<l, w>> >>)
  \/ \E ks \in Keyspaces, k, l \in Keys : Mget(ks, <<k, l>>)

Spec == Init /\ [][Next]_vars

---------------------------------------------------------------------------------
\* Properties

\* However the values of a multi-set are escaped and whatever brackets and commas their
\* strings hold, every value is stored as it was printed, under the keyspace, the key
\* and the ttl the client meant.
BodiesAreReadAsPrinted == store = sent
=================================================================================
