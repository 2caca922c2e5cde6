------------------------------ MODULE AuthSessions ------------------------------
(***************************************************************************)
(* The session registry of daemon/src/auth.rs and the token handlers of    *)
(* http.rs.  A JWT is verified by its own signature and expiry and never   *)
(* looked up; issuing it registers it as well, and the registry checks the *)
(* expiry it wrote down.  Opaque tokens and API keys live in the registry  *)
(* alone.  A JWT here is the record of its claims: the signature of one    *)
(* that was issued verifies, and no other is presented.                    *)
(***************************************************************************)
EXTENDS Integers, FiniteSets

CONSTANTS Opaque, ApiKeys, Subjects,
          Customs,     \* names of a custom claim, "none" for a token without one
          Ttls,
          MaxNow       \* bound: the clock, in seconds

VARIABLES
  tokens,     \* bearer token -> AuthData
  api_keys,   \* key -> AuthData
  now

vars == <<tokens, api_keys, now>>

NoTtl == 0 - 1

\* AuthData of a caller; expires_at is NoTtl for never.
AuthData(user, roles, custom, exp) ==
  [user_id |-> user, roles |-> roles, custom |-> custom, expires_at |-> exp]

\* Mutation: a session still holds in the second in which it expires.
IsExpiredLate(data) == data.expires_at # NoTtl /\ now > data.expires_at

\* is_expired
IsExpired(data) == data.expires_at # NoTtl /\ now >= data.expires_at

\* JwtClaims: to_auth_data of the claims as they were signed ...
ToAuthData(c) ==
  AuthData(c.sub, {}, IF c.custom = "none" THEN {} ELSE {c.custom}, c.exp)

\* ... and as from_json reads them back: a claim named "scopes" is taken for the
\* registered scope claim, although the handler let it through as a custom one.
FromJson(c) ==
  IF c.custom = "scopes" THEN AuthData(c.sub, {"scopes"}, {}, c.exp) ELSE ToAuthData(c)

Refused == [user_id |-> "refused", roles |-> {}, custom |-> {}, expires_at |-> 0]

JwtVerify(c) == IF c.exp # NoTtl /\ now >= c.exp THEN Refused ELSE FromJson(c)

Looked(registry, t) ==
  IF t \notin DOMAIN registry THEN Refused
  ELSE IF IsExpired(registry[t]) THEN Refused ELSE registry[t]
ValidateBearer(t) == Looked(tokens, t)
ValidateApiKey(k) == Looked(api_keys, k)

\* authenticate: a token with two dots is a JWT and never falls back.
Authenticate(t) == IF t \in Opaque THEN ValidateBearer(t) ELSE JwtVerify(t)

\* validate_header: what follows the scheme, or the header as a raw API key.
ValidateHeader(scheme, t) ==
  CASE scheme = "Bearer" -> ValidateBearer(t)
    [] scheme = "ApiKey" -> ValidateApiKey(t)
    [] OTHER -> ValidateApiKey(t)

With(registry, t, data) ==
  [u \in DOMAIN registry \cup {t} |-> IF u = t THEN data ELSE registry[u]]
Without(registry, t) == [u \in DOMAIN registry \ {t} |-> registry[u]]

Expiry(ttl) == IF ttl = NoTtl THEN NoTtl ELSE now + ttl

Init ==
  /\ tokens = [t \in {} |-> Refused]
  /\ api_keys = [t \in {} |-> Refused]
  /\ now = 0

\* auth_token_issue, issue_jwt
Issue(sub, custom, ttl) ==
  LET c == [sub |-> sub, custom |-> custom, iat |-> now, exp |-> now + ttl]
  IN /\ ttl # NoTtl
     /\ tokens' = With(tokens, c, ToAuthData(c))
     /\ UNCHANGED <<api_keys, now>>

SetBearer(t, user, ttl) ==
  /\ tokens' = With(tokens, t, AuthData(user, {}, {}, Expiry(ttl)))
  /\ UNCHANGED <<api_keys, now>>
SetApiKey(k, user, ttl) ==
  /\ api_keys' = With(api_keys, k, AuthData(user, {}, {}, Expiry(ttl)))
  /\ UNCHANGED <<tokens, now>>

\* auth_token_revoke and revoke_bearer: the registry forgets the token; a JWT
\* goes on verifying.
RevokeBearer(t) == tokens' = Without(tokens, t) /\ UNCHANGED <<api_keys, now>>
RevokeApiKey(k) == api_keys' = Without(api_keys, k) /\ UNCHANGED <<tokens, now>>

Clear ==
  /\ tokens' = [t \in {} |-> Refused]
  /\ api_keys' = [t \in {} |-> Refused]
  /\ UNCHANGED now

Tick == now < MaxNow /\ now' = now + 1 /\ UNCHANGED <<tokens, api_keys>>

Next ==
  \/ \E sub \in Subjects, custom \in Customs, ttl \in Ttls : Issue(sub, custom, ttl)
  \/ \E t \in Opaque, user \in Subjects, ttl \in Ttls : SetBearer(t, user, ttl)
  \/ \E k \in ApiKeys, user \in Subjects, ttl \in Ttls : SetApiKey(k, user, ttl)
  \/ \E t \in DOMAIN tokens : RevokeBearer(t)
  \/ \E k \in DOMAIN api_keys : RevokeApiKey(k)
  \/ Clear \/ Tick

Spec == Init /\ [][Next]_vars

---------------------------------------------------------------------------------

\* "It is also registered as a live bearer session": for as long as a JWT is in the
\* registry, the registry (validate_header) and the signature (authenticate) accept
\* and refuse it together, over every moment of its life; and they see the same
\* caller, but for the claim that comes back as a scope.  A revoked JWT shows the
\* two apart: only the registry refuses it.
TheTwoChecksAgree ==
  \A t \in DOMAIN tokens \ Opaque :
    /\ (ValidateHeader("Bearer", t) = Refused) = (Authenticate(t) = Refused)
    /\ t.custom # "scopes" => ValidateHeader("Bearer", t) = Authenticate(t)

=================================================================================
