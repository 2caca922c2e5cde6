----------------------------------- MODULE Jwt -----------------------------------
(***************************************************************************)
(* The daemon's HS256 tokens (daemon/src/auth.rs): claims are printed as a *)
(* flat JSON object, encoded, signed, and read back by a scanner of its    *)
(* own when the token returns.                                             *)
(*                                                                         *)
(* A symbol is a character, or a name the scanner never takes apart.  A    *)
(* symbol is one byte, and a signature stands for what was signed and the  *)
(* secret it was signed with.                                              *)
(***************************************************************************)
EXTENDS Strings, Integers, TLC

CONSTANTS
  Texts,        \* what a sub, an issuer or a custom claim may say
  ScopeLists, CustomKeys, Secrets,
  MaxNow        \* bound: the clock; a ttl is at most as long

VARIABLES
  now,
  signed,       \* the token of the client: [claims, secret, token], or Absent
  verdict       \* what the last look at it said

vars == <<now, signed, verdict>>

Absent == [is |-> "none"]

---------------------------------------------------------------------------------
\* base64url: three bytes are four digits of six bits, without padding

Symbols == <<"{", "}", "quote", ":", ",", "backslash", " ", "newline", "tab", "n", "t", "u0001", "control",
             "sub", "iss", "iat", "exp", "scope", "scopes", "a", "b", "0", "1", "2", "3", "4", "5", "6", "7", "8", "9">>
ByteOf(c) == 7 * (CHOOSE i \in DOMAIN Symbols : Symbols[i] = c)
Bytes(s) == [i \in DOMAIN s |-> ByteOf(s[i])]
Chars(bytes) == [i \in DOMAIN bytes |-> Symbols[bytes[i] \div 7]]

Chunks(s, n) == [k \in 1..((Len(s) + n - 1) \div n) |-> SubSeq(s, n * (k - 1) + 1, Min({n * k, Len(s)}))]
At(chunk, i) == IF i \in DOMAIN chunk THEN chunk[i] ELSE 0

Encode(bytes) ==
  LET Digits(chunk) ==
        LET n == At(chunk, 1) * 65536 + At(chunk, 2) * 256 + At(chunk, 3)
        IN SubSeq(<<n \div 262144, (n \div 4096) % 64, (n \div 64) % 64, n % 64>>, 1, Len(chunk) + 1)
  IN FoldLeft(LAMBDA out, chunk : out \o Digits(chunk), <<>>, Chunks(bytes, 3))

\* A segment with one digit left over is refused.
Decodable(digits) == Len(digits) % 4 # 1
Decode(digits) ==
  LET Octets(chunk) ==
        LET n == At(chunk, 1) * 262144 + At(chunk, 2) * 4096 + At(chunk, 3) * 64 + At(chunk, 4)
        IN SubSeq(<<n \div 65536, (n \div 256) % 256, n % 256>>, 1, Len(chunk) - 1)
  IN FoldLeft(LAMBDA out, chunk : out \o Octets(chunk), <<>>, Chunks(digits, 4))

---------------------------------------------------------------------------------
\* Claims and their JSON.  What may be missing is a sequence of one or none; custom
\* claims are entries <<key, value>> with different keys, sorted.

NoClaims == [sub |-> <<>>, iss |-> <<>>, exp |-> <<>>, iat |-> <<>>, scopes |-> <<>>, custom |-> <<>>]

\* Mutation: a backslash is printed as it is.
EscapeQuotes(s) ==
  FlattenSeq([i \in DOMAIN s |-> IF s[i] = "quote" THEN <<"backslash", "quote">>
                                 ELSE IF s[i] = "newline" THEN <<"backslash", "n">>
                                 ELSE IF s[i] = "tab" THEN <<"backslash", "t">>
                                 ELSE IF s[i] = "control" THEN <<"backslash", "u0001">> ELSE <<s[i]>>])

\* escape_json_string
Escape(s) ==
  FlattenSeq([i \in DOMAIN s |-> IF s[i] \in {"quote", "backslash"} THEN <<"backslash", s[i]>>
                                 ELSE IF s[i] = "newline" THEN <<"backslash", "n">>
                                 ELSE IF s[i] = "tab" THEN <<"backslash", "t">>
                                 ELSE IF s[i] = "control" THEN <<"backslash", "u0001">> ELSE <<s[i]>>])

Quoted(s) == <<"quote">> \o s \o <<"quote">>
Digit(n) == <<"0", "1", "2", "3", "4", "5", "6", "7", "8", "9">>[n + 1]

ToJson(claims) ==
  LET Str(name, s) == Quoted(name) \o <<":">> \o Quoted(Escape(s))
      Num(name, n) == Quoted(name) \o <<":", Digit(n)>>
      Opt(name, Show(_, _), v) == [i \in DOMAIN v |-> Show(name, v[i])]
      parts == Opt(<<"sub">>, Str, claims.sub) \o Opt(<<"iss">>, Str, claims.iss)
               \o Opt(<<"iat">>, Num, claims.iat) \o Opt(<<"exp">>, Num, claims.exp)
               \o (IF claims.scopes = <<>> THEN <<>> ELSE <<Str(<<"scope">>, Join(claims.scopes, <<" ">>))>>)
               \o [i \in DOMAIN claims.custom |-> Str(Escape(claims.custom[i][1]), claims.custom[i][2])]
  IN <<"{">> \o Join(parts, <<",">>) \o <<"}">>

\* scan_flat_object, symbol by symbol.  A comma ends a string like a quote does, and
\* anything unexpected ends the scan with what has been found so far.
Unescaped(c) == CASE c = "n" -> "newline" [] c = "t" -> "tab" [] OTHER -> c
Scanned(json) ==
  LET body == Trim(json)
      text == SubSeq(body, 2, Max({i \in DOMAIN body : body[i] # "}"} \cup {1}))
      Found(s) == [s EXCEPT !.out = Append(@, <<s.key, s.value>>), !.at = "gap", !.key = <<>>, !.value = <<>>]
      Step(s, c) ==
        CASE s.at = "gap" -> IF c \in Whitespace \cup {","} THEN s
                             ELSE [s EXCEPT !.at = IF c = "quote" THEN "key" ELSE "stop"]
          [] s.at = "key" -> IF c \in {",", "quote"} THEN [s EXCEPT !.at = "colon"]
                             ELSE IF c = "backslash" THEN [s EXCEPT !.at = "key escape"]
                             ELSE [s EXCEPT !.key = Append(@, c)]
          [] s.at = "key escape" -> [s EXCEPT !.at = "key", !.key = Append(@, Unescaped(c))]
          [] s.at = "colon" -> IF c \in Whitespace THEN s
                               ELSE [s EXCEPT !.at = IF c = ":" THEN "value" ELSE "stop"]
          [] s.at = "value" -> IF c \in Whitespace THEN s
                               ELSE IF c = "quote" THEN [s EXCEPT !.at = "string"]
                               ELSE IF c = "," THEN Found(s)
                               ELSE [s EXCEPT !.at = "scalar", !.value = <<c>>]
          [] s.at = "string" -> IF c \in {",", "quote"} THEN Found(s)
                                ELSE IF c = "backslash" THEN [s EXCEPT !.at = "escape"]
                                ELSE [s EXCEPT !.value = Append(@, c)]
          [] s.at = "escape" -> [s EXCEPT !.at = "string", !.value = Append(@, Unescaped(c))]
          [] s.at = "scalar" -> IF c = "," THEN Found([s EXCEPT !.value = Trim(@)])
                                ELSE [s EXCEPT !.value = Append(@, c)]
          [] s.at = "stop" -> s
      end == FoldLeft(Step, [at |-> "gap", key |-> <<>>, value |-> <<>>, out |-> <<>>], text)
  IN IF body = <<>> \/ body[1] # "{" THEN <<>>
     ELSE IF end.at \in {"value", "string", "escape", "scalar"} THEN Found(end).out ELSE end.out

IsNumber(s) == Len(s) = 1 /\ \E n \in 0..9 : Digit(n) = s[1]
NumberIn(s) == CHOOSE n \in 0..9 : Digit(n) = s[1]

\* from_json: registered names are taken out, anything else is a custom claim.
FromPairs(pairs) ==
  LET Claim(claims, pair) ==
        CASE pair[1] \in {<<"sub">>, <<"iss">>} -> [claims EXCEPT ![pair[1][1]] = <<pair[2]>>]
          [] pair[1] \in {<<"iat">>, <<"exp">>} -> [claims EXCEPT ![pair[1][1]] = <<NumberIn(pair[2])>>]
          [] pair[1] \in {<<"scope">>, <<"scopes">>} -> [claims EXCEPT !.scopes = Words(pair[2])]
          [] OTHER -> [claims EXCEPT !.custom = Append(SelectSeq(@, LAMBDA e : e[1] # pair[1]), pair)]
  IN FoldLeft(Claim, NoClaims, pairs)
Readable(pairs) == \A i \in DOMAIN pairs : pairs[i][1] \in {<<"iat">>, <<"exp">>} => IsNumber(pairs[i][2])

---------------------------------------------------------------------------------
\* jwt_sign and jwt_verify

Hmac(secret, input) == <<secret, input>>
Sign(claims, secret) ==
  LET input == <<<<"HS256">>, Encode(Bytes(ToJson(claims)))>>
  IN input \o <<Hmac(secret, input)>>

Err(what) == [is |-> "error", what |-> what]
Verify(token, secret) ==
  LET pairs == Scanned(Chars(Decode(token[2])))
      claims == FromPairs(pairs)
  IN IF Hmac(secret, <<token[1], token[2]>>) # token[3] THEN Err("signature mismatch")
     ELSE IF ~Decodable(token[2]) \/ ~Readable(pairs) THEN Err("unreadable")
     ELSE IF claims.exp # <<>> /\ now >= claims.exp[1] THEN Err("token expired")
     ELSE [is |-> "claims", claims |-> claims]

\* to_auth_data: who the request is from, and what it may do.
AuthData(claims) == [user |-> claims.sub, roles |-> claims.scopes, expires |-> claims.exp, custom |-> claims.custom]

---------------------------------------------------------------------------------

Init == now = 0 /\ signed = Absent /\ verdict = Absent

\* new, with_issuer, with_ttl, with_claim
Issue(sub, iss, ttl, scopes, custom, secret) ==
  LET claims == [sub |-> <<sub>>, iss |-> iss, iat |-> <<now>>, exp |-> <<now + ttl>>, scopes |-> scopes, custom |-> custom]
  IN /\ signed = Absent
     /\ signed' = [is |-> "token", claims |-> claims, secret |-> secret, token |-> Sign(claims, secret)]
     /\ verdict' = Absent
     /\ UNCHANGED now

Present(secret) ==
  /\ signed # Absent
  /\ verdict' = Verify(signed.token, secret) @@ [at |-> now, with |-> secret]
  /\ UNCHANGED <<now, signed>>

Tick ==
  /\ now < MaxNow
  /\ now' = now + 1 /\ verdict' = Absent
  /\ UNCHANGED signed

Next ==
  \/ \E s, t \in Texts, ttl \in 0..MaxNow, scopes \in ScopeLists, k \in CustomKeys, secret \in Secrets :
       Issue(s, <<t>>, ttl, scopes, << <<k, t>> >>, secret)
  \/ \E secret \in Secrets : Present(secret)
  \/ Tick

Spec == Init /\ [][Next]_vars

---------------------------------------------------------------------------------
\* Properties

\* Whatever quotes, backslashes, braces or line ends its claims hold, a token that comes
\* back says what was signed: it is accepted with the secret of its signature until the
\* second it expires, and then never again.  Texts with a comma or a control
\* character are not among Texts: the scanner ends at the one and misreads the other.
TokensSayWhatWasSigned ==
  (verdict # Absent) =>
    /\ (verdict.is = "claims") <=> (verdict.with = signed.secret /\ verdict.at < signed.claims.exp[1])
    /\ (verdict.is = "claims" => AuthData(verdict.claims) = AuthData(signed.claims) /\ verdict.claims = signed.claims)
==================================================================================
