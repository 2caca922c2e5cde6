--------------------------------- MODULE Pipeline ---------------------------------
(***************************************************************************)
(* A request on its way through the daemon's HTTP server: route and        *)
(* route_after_rl of daemon/src/http.rs, from the token check over the     *)
(* rate limiter, the before hooks and the body validation to the handler,  *)
(* the after hooks and the answer.                                         *)
(*                                                                         *)
(* Connections have a thread each.  A thread takes the State lock for each *)
(* stage and lets it go in between, so requests overlap at every stage,    *)
(* and what a handler changes (token, rules, hooks, schemas) meets         *)
(* requests that are half-way through.  The lock is an instant in all      *)
(* stages but one: route holds its guard in a variable when the limiter    *)
(* lets a request past, and drops it by hand before it goes on.            *)
(*                                                                         *)
(* Preflights, event streams, static files and signed storage URLs never   *)
(* reach the pipeline and change nothing of it.  Logging, traces and       *)
(* metrics are left out.  A request is a record: its route, the credential *)
(* it carries, whether its body meets its route's schema, and what its     *)
(* handler does.                                                           *)
(***************************************************************************)
EXTENDS RateLimit, Iteration

CONSTANTS Names, Scopes,  \* of hooks; a scope is the set of the routes it matches
          Threads,
          Requests,       \* [route, token, body, op, arg]
          PublicPaths,    \* those should_enforce_auth lets through
          BodyMethods,    \* POST, PUT, PATCH
          Tokens,
          StartRules,     \* rule -> capacity, from bridge.toml
          StartHooks,     \* hooks from bridge.toml
          MaxRequests     \* bound: requests that ever arrive

ASSUME BoundAssumption == MaxRequests \in Nat
ASSUME NoneAssumption == None \notin Tokens \cup Rules \cup Threads

---------------------------------------------------------------------------------
\* The hook chain, middleware.rs

\* The registry is a sequence of entries: a name, a scope (all routes, a service's, or
\* one) and optional hooks.  A before hook tags the request ("log") or rejects it; an
\* after hook adds a header or a tag, which is not told apart.
Hook == [name : Names, scope : Scopes, before : {"none", "log", "reject"},
         after : {"none", "run"}]

\* remove
Unregistered(hooks, name) == Kept(hooks, {h \in ToSet(hooks) : h.name # name})

\* The register handler: an entry of that name is replaced, and goes last.
Registered(hooks, entry) == Append(Unregistered(hooks, entry.name), entry)

\* The entries with a before hook for the route.
Matching(hooks, route) ==
  Kept(hooks, {h \in ToSet(hooks) : route \in h.scope /\ h.before # "none"})

\* run_before: in registration order, up to the first that rejects.
BeforeHooks(hooks, route) ==
  LET matching == Matching(hooks, route)
      Stops(i) == matching[i].before = "reject"
  IN IF \E i \in DOMAIN matching : Stops(i)
     THEN SubSeq(matching, 1, CHOOSE i \in DOMAIN matching :
                                Stops(i) /\ \A j \in 1 .. (i - 1) : ~Stops(j))
     ELSE matching

Rejects(ran) == ran # <<>> /\ Last(ran).before = "reject"

\* Mutation: the after hooks run in registration order.
AfterHooksForward(hooks, route) ==
  Kept(hooks, {h \in ToSet(hooks) : route \in h.scope /\ h.after # "none"})

\* run_after: in reverse registration order.
AfterHooks(hooks, route) ==
  Reverse(Kept(hooks, {h \in ToSet(hooks) : route \in h.scope /\ h.after # "none"}))

---------------------------------------------------------------------------------
\* Requests

\* What a request asks a handler for, and what bridge.toml holds, are of their types.
ASSUME RequestAssumption ==
  \A r \in Requests :
    /\ r.route \in Routes
    /\ r.op = "rule_add" => r.arg \in Rules
    /\ r.op = "hook_add" => r.arg \in Hook
ASSUME StartAssumption ==
  /\ DOMAIN StartRules \subseteq Rules
  /\ \A r \in DOMAIN StartRules : StartRules[r] \in Nat
  /\ StartHooks \in Seq(Hook)

VARIABLES
  lock,         \* the thread that holds the State lock across stages, or None
  auth_token,
  buckets,
  hooks,
  schemas,      \* the routes with a validation schema
  thread,       \* thread -> its request, its stage, the hooks it has run, ...
  arrived,      \* requests so far
  in_force      \* history: thread -> tokens in force from arrival to handling

vars == <<lock, auth_token, buckets, hooks, schemas, thread, arrived, in_force>>
settings == <<auth_token, buckets, hooks, schemas>>

Idle == [at |-> "idle", req |-> None, before |-> <<>>, after |-> <<>>, calm |-> TRUE,
         outcome |-> "none"]

Route(c) == thread[c].req.route

\* A stage that does its work under one hold of the lock.
Locked(c, stage) == thread[c].at = stage /\ lock = None

\* Thread c goes on to a stage, or to its answer.
GoTo(c, stage) == thread' = [thread EXCEPT ![c].at = stage]
AnswerWith(c, outcome) ==
  thread' = [thread EXCEPT ![c].at = "answer", ![c].outcome = outcome]

---------------------------------------------------------------------------------
Init ==
  /\ lock = None
  /\ auth_token = None
  /\ buckets = [r \in DOMAIN StartRules |->
                  [capacity |-> StartRules[r], tokens |-> StartRules[r]]]
  /\ hooks = StartHooks
  /\ schemas = {}
  /\ thread = [c \in Threads |-> Idle]
  /\ arrived = 0
  /\ in_force = [c \in Threads |-> {}]

\* A request is parsed; a public path skips the token check.
Arrive(c, r) ==
  /\ thread[c].at = "idle"
  /\ arrived < MaxRequests
  /\ arrived' = arrived + 1
  /\ thread' = [thread EXCEPT ![c] =
                  [Idle EXCEPT !.req = r,
                               !.at = IF r.route[2] \in PublicPaths THEN "limit" ELSE "auth"]]
  /\ in_force' = [in_force EXCEPT ![c] = {auth_token}]
  /\ UNCHANGED <<lock, settings>>

\* Mutation: a request without a credential is let through.
AuthOptional(c) ==
  /\ Locked(c, "auth")
  /\ IF auth_token = None \/ thread[c].req.token \in {auth_token, None}
     THEN GoTo(c, "limit") ELSE AnswerWith(c, "unauthenticated")
  /\ UNCHANGED <<lock, settings, arrived, in_force>>

\* check_auth against the token configured now, if there is one.
Auth(c) ==
  /\ Locked(c, "auth")
  /\ IF auth_token \in {None, thread[c].req.token}
     THEN GoTo(c, "limit") ELSE AnswerWith(c, "unauthenticated")
  /\ UNCHANGED <<lock, settings, arrived, in_force>>

\* The rate limiter: no rule, an empty bucket, or a token spent.
Limit(c) ==
  /\ Locked(c, "limit")
  /\ LET rule == BestRule(buckets, Route(c)) IN
     \/ /\ rule = None
        /\ GoTo(c, "before")
        /\ UNCHANGED <<lock, buckets>>
     \/ /\ rule # None
        /\ buckets[rule].tokens = 0
        /\ AnswerWith(c, "limited")
        /\ UNCHANGED <<lock, buckets>>
     \/ /\ rule # None
        /\ buckets[rule].tokens > 0
        /\ buckets' = Spent(buckets, rule)
        /\ lock' = c
        /\ GoTo(c, "admitted")
  /\ UNCHANGED <<auth_token, hooks, schemas, arrived, in_force>>

\* Mutation: the guard is still there when the request goes on.
ReleaseForgotten(c) ==
  /\ thread[c].at = "admitted"
  /\ GoTo(c, "before")
  /\ UNCHANGED <<lock, settings, arrived, in_force>>

\* drop(g)
Release(c) ==
  /\ thread[c].at = "admitted"
  /\ lock' = None
  /\ GoTo(c, "before")
  /\ UNCHANGED <<settings, arrived, in_force>>

\* run_before
Before(c) ==
  /\ Locked(c, "before")
  /\ LET ran == BeforeHooks(hooks, Route(c)) IN
     thread' = [thread EXCEPT
       ![c].before = ran,
       ![c].at = IF Rejects(ran) THEN "answer"
                 ELSE IF Route(c)[1] \in BodyMethods THEN "validate" ELSE "handle",
       ![c].outcome = IF Rejects(ran) THEN "rejected" ELSE @]
  /\ UNCHANGED <<lock, settings, arrived, in_force>>

Validate(c) ==
  /\ Locked(c, "validate")
  /\ IF Route(c) \in schemas /\ thread[c].req.body = "bad"
     THEN AnswerWith(c, "invalid") ELSE GoTo(c, "handle")
  /\ UNCHANGED <<lock, settings, arrived, in_force>>

---------------------------------------------------------------------------------
\* The handlers

\* Thread c is in a handler that does op.
Handling(c, op) == Locked(c, "handle") /\ thread[c].req.op = op

\* A handler that leaves the pipeline's settings alone.
HandleOther(c) ==
  /\ Handling(c, "other")
  /\ GoTo(c, "after")
  /\ UNCHANGED <<lock, settings, arrived, in_force>>

\* auth_set, and auth_clear (a token of None).
HandleAuth(c) ==
  /\ Handling(c, "auth")
  /\ auth_token' = thread[c].req.arg
  /\ in_force' = [d \in Threads |-> IF d # c /\ thread[d].at \notin {"idle", "after", "answer"}
                                    THEN in_force[d] \cup {auth_token'} ELSE in_force[d]]
  /\ GoTo(c, "after")
  /\ UNCHANGED <<lock, buckets, hooks, schemas, arrived>>

\* ratelimit_add and ratelimit_remove
HandleRule(c) ==
  /\ \/ Handling(c, "rule_add") /\ buckets' = WithRule(buckets, thread[c].req.arg, 1)
     \/ Handling(c, "rule_remove") /\ buckets' = WithoutRule(buckets, thread[c].req.arg)
  /\ GoTo(c, "after")
  /\ UNCHANGED <<lock, auth_token, hooks, schemas, arrived, in_force>>

\* middleware_register and middleware_remove; requests between their before and
\* after hooks are no longer calm.
HandleHook(c) ==
  /\ \/ Handling(c, "hook_add") /\ hooks' = Registered(hooks, thread[c].req.arg)
     \/ Handling(c, "hook_remove") /\ hooks' = Unregistered(hooks, thread[c].req.arg)
  /\ thread' = [d \in Threads |->
       [thread[d] EXCEPT !.calm = @ /\ thread[d].at \notin {"validate", "handle", "after"},
                         !.at = IF d = c THEN "after" ELSE @]]
  /\ UNCHANGED <<lock, auth_token, buckets, schemas, arrived, in_force>>

\* validation_register and validation_remove
HandleSchema(c) ==
  /\ \/ Handling(c, "schema_add") /\ schemas' = schemas \cup {thread[c].req.arg}
     \/ Handling(c, "schema_remove") /\ schemas' = schemas \ {thread[c].req.arg}
  /\ GoTo(c, "after")
  /\ UNCHANGED <<lock, auth_token, buckets, hooks, arrived, in_force>>

---------------------------------------------------------------------------------
\* run_after
After(c) ==
  /\ Locked(c, "after")
  /\ thread' = [thread EXCEPT ![c].after = AfterHooks(hooks, Route(c)),
                              ![c].at = "answer", ![c].outcome = "served"]
  /\ UNCHANGED <<lock, settings, arrived, in_force>>

\* serve_request takes the lock for the trace, then writes the response.
Answer(c) ==
  /\ Locked(c, "answer")
  /\ thread' = [thread EXCEPT ![c] = Idle]
  /\ in_force' = [in_force EXCEPT ![c] = {}]
  /\ UNCHANGED <<lock, settings, arrived>>

\* Time puts a token back.
Refill ==
  /\ \E rule \in DOMAIN buckets : buckets' = Refilled(buckets, rule)
  /\ UNCHANGED <<lock, auth_token, hooks, schemas, thread, arrived, in_force>>

Handle(c) == HandleOther(c) \/ HandleAuth(c) \/ HandleRule(c) \/ HandleHook(c)
               \/ HandleSchema(c)

Step(c) == Auth(c) \/ Limit(c) \/ Release(c) \/ Before(c) \/ Validate(c) \/ Handle(c)
             \/ After(c) \/ Answer(c)

Next ==
  \/ \E c \in Threads, r \in Requests : Arrive(c, r)
  \/ \E c \in Threads : Step(c)
  \/ Refill

Spec == Init /\ [][Next]_vars

\* A thread goes on whenever it can have the lock.  The requests that compete
\* with it are bounded, so a load that lets up is part of the assumption.
FairSpec == Spec /\ \A c \in Threads : WF_vars(Step(c))

---------------------------------------------------------------------------------
\* Properties

\* Every request is answered: no thread waits for a lock it holds itself, and
\* none keeps the others from it.
EveryRequestIsAnswered == \A c \in Threads : thread[c].at # "idle" ~> thread[c].at = "idle"

\* A handler of a protected path runs only for a request whose credential was
\* the configured token (or for which none was configured) at some moment since
\* the request arrived: a token set meanwhile may come too late for it, but a
\* token that was never in force lets nobody in.
ServedUnderAToken ==
  \A c \in Threads :
    thread[c].outcome = "served" /\ Route(c)[2] \notin PublicPaths
      => in_force[c] \cap {None, thread[c].req.token} # {}

\* The limiter turns a request away, or charges it, by one rule only, and one
\* than which no other rule about the request is narrower; rules that come and
\* go meanwhile change nothing of that.
ChargedByNarrowestRule ==
  [][\A c \in Threads : thread[c].at = "limit" /\ thread'[c].at # "limit" =>
       LET About == {r \in DOMAIN buckets : Route(c) \in Covered(r)}
           Narrower(r, q) == Covered(r) \subseteq Covered(q) /\ Covered(r) # Covered(q)
           Refused == thread'[c].outcome = "limited"
       IN IF About = {} THEN buckets' = buckets /\ ~Refused
          ELSE \E r \in About :
                 /\ \A q \in About : ~Narrower(q, r)
                 /\ \A q \in DOMAIN buckets \ {r} : buckets'[q] = buckets[q]
                 /\ IF Refused THEN buckets[r].tokens = 0
                               ELSE buckets'[r].tokens = buckets[r].tokens - 1]_vars

\* middleware.rs: "request -> before1 -> before2 -> handler -> after2 -> after1",
\* and a rejection skips all that is left.  For a request during which the
\* registry did not change the after hooks undo the before hooks in reverse;
\* a hook that rejects is the last one to run for any request.
HooksNest ==
  \A c \in Threads :
    LET before == thread[c].before
        after  == thread[c].after
    IN /\ thread[c].outcome = "served" /\ thread[c].calm =>
            Kept(after, {h \in ToSet(after) : h.before # "none"})
              = Reverse(Kept(before, {h \in ToSet(before) : h.after # "none"}))
       /\ \A i \in DOMAIN before : before[i].before = "reject" =>
            i = Len(before) /\ after = <<>> /\ thread[c].outcome = "rejected"

===================================================================================
