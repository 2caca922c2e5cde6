--------------------------------- MODULE RateLimit ---------------------------------
(***************************************************************************)
(* The rate limiter's rules (daemon/src/ratelimit.rs): a map from          *)
(* (method, path) keys, either of which may be "*", to token buckets.      *)
(*                                                                         *)
(* Tokens are whole: a bucket lets a request past when it holds one, and   *)
(* the fraction it holds besides is part of when the next refill happens.  *)
(* The code refills lazily, from the time since the last look; the sum is  *)
(* that of a bucket that is refilled as time passes, up to its capacity.   *)
(***************************************************************************)
EXTENDS Integers, Sequences

CONSTANTS Methods, Paths,
          Star,   \* "*"
          None    \* Option::None

\* A path is any string the client sends: there is always another.
ASSUME RouteAssumption ==
  /\ Star \notin Methods \cup Paths
  /\ \A p \in Paths : \E q \in Paths : q # p

Routes == Methods \X Paths

\* BucketKey
Rules == (Methods \cup {Star}) \X (Paths \cup {Star})

\* The routes a rule is about (BucketKey::matches).
Covered(rule) == {r \in Routes : rule[1] \in {Star, r[1]} /\ rule[2] \in {Star, r[2]}}

\* The keys tried for a route, the narrowest first.
Tries(route) == <<route, <<Star, route[2]>>, <<route[1], Star>>, <<Star, Star>>>>

\* Mutation: the rule for everything is tried first.
BestRuleGlobalFirst(buckets, route) ==
  LET found == {i \in 1 .. 4 : Tries(route)[i] \in DOMAIN buckets}
  IN IF found = {} THEN None
     ELSE Tries(route)[CHOOSE i \in found : \A j \in found : j =< i]

\* find_best_key: the first key that has a rule.
BestRule(buckets, route) ==
  LET found == {i \in 1 .. 4 : Tries(route)[i] \in DOMAIN buckets}
  IN IF found = {} THEN None
     ELSE Tries(route)[CHOOSE i \in found : \A j \in found : i =< j]

\* add_rule: a bucket starts full, also when it replaces one.
WithRule(buckets, rule, capacity) ==
  [r \in DOMAIN buckets \cup {rule} |->
     IF r = rule THEN [capacity |-> capacity, tokens |-> capacity] ELSE buckets[r]]

\* remove_rule
WithoutRule(buckets, rule) == [r \in DOMAIN buckets \ {rule} |-> buckets[r]]

\* try_consume of a bucket with a token.
Spent(buckets, rule) == [buckets EXCEPT ![rule].tokens = @ - 1]

\* refill: one more token, up to the capacity.
Refilled(buckets, rule) ==
  [buckets EXCEPT ![rule].tokens = IF @ < buckets[rule].capacity THEN @ + 1 ELSE @]

====================================================================================
