-------------------------------- MODULE Secrets --------------------------------
(***************************************************************************)
(* The secrets registry of daemon/src/secrets.rs and its HTTP handlers.    *)
(* secrets_get takes the lock twice: to ask whether the name is            *)
(* registered, and to read it.  The environment variables and files behind *)
(* a secret are read when it is resolved, and change outside.              *)
(***************************************************************************)
EXTENDS Iteration, FiniteSets

CONSTANTS Names, Values,
          Places,      \* environment variables and files
          Clients

Unset == "unset"
Missing == "404"
Unresolved == "409"
Redacted == "***"

VARIABLES
  secrets,   \* name -> source
  outside,   \* place -> its value, or Unset
  get,       \* client -> the secrets_get it is in the middle of, or Idle
  fitting,   \* client -> the answers that were right at some moment of it
  answer     \* client -> the last answer to it

vars == <<secrets, outside, get, fitting, answer>>

Idle == [name |-> "none", reveal |-> FALSE]

\* SecretSource: inline, or a place (environment, file; a vault falls back to the
\* environment variable of the secret's name).
Sources == {<<"inline", v>> : v \in Values} \cup {<<"place", p>> : p \in Places}

\* resolve
Resolve(out, source) == IF source[1] = "inline" THEN source[2] ELSE out[source[2]]

\* secrets_get in one piece, on the registry s.
Answer(s, out, q) ==
  IF q.name \notin DOMAIN s THEN Missing
  ELSE IF ~q.reveal THEN Redacted
  ELSE IF Resolve(out, s[q.name]) = Unset THEN Unresolved ELSE Resolve(out, s[q.name])

\* Mutation: one that does not resolve answers as one that is not registered.
SecondUnset(s, out, q) ==
  IF q.name \notin DOMAIN s THEN Missing
  ELSE IF q.reveal /\ Resolve(out, s[q.name]) = Unset THEN Missing ELSE Answer(s, out, q)

\* get and get_display, under the second lock: display_value of what is still
\* there; a name gone since answers as one that does not resolve when the value was
\* asked for, as one not registered when it was not.
Second(s, out, q) ==
  IF q.name \notin DOMAIN s THEN IF q.reveal THEN Unresolved ELSE Missing
  ELSE Answer(s, out, q)

\* check_required: the names, in order, that are not registered or do not resolve.
CheckRequired(s, out, required) ==
  Kept(required, {n \in ToSet(required) : n \in DOMAIN s => Resolve(out, s[n]) = Unset})

Init ==
  /\ secrets = [n \in {} |-> <<>>]
  /\ outside = [p \in Places |-> Unset]
  /\ get = [c \in Clients |-> Idle]
  /\ fitting = [c \in Clients |-> {}]
  /\ answer = [c \in Clients |-> Missing]

\* Whatever changes, the answers that are right from now on are added.
Note(s, out) ==
  fitting' = [c \in Clients |-> IF get[c] = Idle THEN {}
                                ELSE fitting[c] \cup {Answer(s, out, get[c])}]

\* secrets_set: register_inline, _env, _file, _vault.
Register(n, source) ==
  /\ secrets' = [m \in DOMAIN secrets \cup {n} |-> IF m = n THEN source ELSE secrets[m]]
  /\ Note(secrets', outside)
  /\ UNCHANGED <<outside, get, answer>>

\* secrets_delete
Delete(n) ==
  /\ n \in DOMAIN secrets
  /\ secrets' = [m \in DOMAIN secrets \ {n} |-> secrets[m]]
  /\ Note(secrets', outside)
  /\ UNCHANGED <<outside, get, answer>>

OutsideChanges(p, v) ==
  /\ outside' = [outside EXCEPT ![p] = v]
  /\ Note(secrets, outside')
  /\ UNCHANGED <<secrets, get, answer>>

\* secrets_get: has(), under the first lock ...
AskHas(c, q) ==
  /\ get[c] = Idle
  /\ IF q.name \in DOMAIN secrets
     THEN /\ get' = [get EXCEPT ![c] = q]
          /\ fitting' = [fitting EXCEPT ![c] = {Answer(secrets, outside, q)}]
          /\ UNCHANGED answer
     ELSE answer' = [answer EXCEPT ![c] = Missing] /\ UNCHANGED <<get, fitting>>
  /\ UNCHANGED <<secrets, outside>>

\* ... then get() or get_display(), under the second.
AskValue(c) ==
  /\ get[c] # Idle
  /\ answer' = [answer EXCEPT ![c] = Second(secrets, outside, get[c])]
  /\ get' = [get EXCEPT ![c] = Idle]
  /\ UNCHANGED <<secrets, outside, fitting>>

Next ==
  \/ \E n \in Names, source \in Sources : Register(n, source)
  \/ \E n \in Names : Delete(n)
  \/ \E p \in Places, v \in Values \cup {Unset} : OutsideChanges(p, v)
  \/ \E c \in Clients : AskValue(c)
  \/ \E c \in Clients, n \in Names, reveal \in BOOLEAN : AskHas(c, [name |-> n, reveal |-> reveal])

Spec == Init /\ [][Next]_vars

---------------------------------------------------------------------------------

\* The two locks of secrets_get: whatever is registered, deleted and changed outside
\* between them, the answer is the one an indivisible secrets_get would have given
\* at some moment of the request.  The code's exception: for a name deleted in
\* between, a request to reveal it may answer that it does not resolve.
AnswersFitAMoment ==
  [][\A c \in Clients : get[c] # Idle /\ get'[c] = Idle =>
       \/ answer'[c] \in fitting[c]
       \/ get[c].reveal /\ get[c].name \notin DOMAIN secrets /\ answer'[c] = Unresolved]_vars

\* secrets_check and secrets_get agree: a name is missing to the one exactly when the
\* other, asked to reveal it, has nothing to show.
ChecksAgreeWithReads ==
  \A n \in Names :
    (CheckRequired(secrets, outside, <<n>>) # <<>>)
      <=> Answer(secrets, outside, [name |-> n, reveal |-> TRUE]) \in {Missing, Unresolved}

=================================================================================
