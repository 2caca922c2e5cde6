------------------------------ MODULE PipelineProofs ------------------------------
(***************************************************************************)
(* The request pipeline's safety properties, proved for any paths, tokens, *)
(* rules, hooks and number of threads.                                     *)
(***************************************************************************)
EXTENDS Pipeline

---------------------------------------------------------------------------------
\* ServedUnderAToken, for any paths, tokens, rules, hooks and number of threads.

\* The stages a request is let into by its token.
LetIn == {"limit", "admitted", "before", "validate", "handle", "after"}

\* A thread and its history are what the EXCEPTs of the actions take them for.
Fields == DOMAIN Idle
Shaped ==
  /\ thread = [c \in Threads |-> thread[c]]
  /\ \A c \in Threads : thread[c] = [f \in Fields |-> thread[c][f]]
  /\ in_force = [c \in Threads |-> in_force[c]]

Vouched(c) == in_force[c] \cap {None, thread[c].req.token} # {}

\* The inductive invariant.  A request that waits for its check has the current token
\* among those in force, which is what the check adds it to; one that is past the
\* check keeps the token that let it in, as the history only grows until the answer.
TokenInv ==
  /\ Shaped
  /\ \A c \in Threads :
       /\ thread[c].at = "auth" => auth_token \in in_force[c]
       /\ thread[c].at \in LetIn \/ thread[c].outcome = "served" =>
            Route(c)[2] \in PublicPaths \/ Vouched(c)

\* What one thread does to itself leaves the invariant to be shown for that thread.
LEMMA OneThread ==
  ASSUME TokenInv, NEW c \in Threads, NEW t,
         t = [f \in Fields |-> t[f]],
         thread' = [thread EXCEPT ![c] = t],
         t.req = thread[c].req,
         auth_token' = auth_token, in_force' = in_force,
         t.at # "auth",
         t.at \in LetIn \/ t.outcome = "served" => Route(c)[2] \in PublicPaths \/ Vouched(c)
  PROVE  TokenInv'
  <1>1. \A d \in Threads : thread'[d] = IF d = c THEN t ELSE thread[d]
    BY DEF TokenInv, Shaped
  <1>2. Shaped'
    BY <1>1 DEF TokenInv, Shaped
  <1>3. ASSUME NEW d \in Threads
        PROVE  /\ thread'[d].at = "auth" => auth_token' \in in_force'[d]
               /\ thread'[d].at \in LetIn \/ thread'[d].outcome = "served" =>
                    Route(d)'[2] \in PublicPaths \/ Vouched(d)'
    BY <1>1, <1>3 DEF TokenInv, Route, Vouched
  <1>4. QED
    BY <1>2, <1>3 DEF TokenInv

\* Going on to a stage past the check, and answering, keep what let the request in.
LEMMA GoesOn ==
  ASSUME TokenInv, NEW c \in Threads, NEW stage \in LetIn,
         GoTo(c, stage), UNCHANGED <<auth_token, in_force>>,
         Route(c)[2] \in PublicPaths \/ Vouched(c)
  PROVE  TokenInv'
  <1>1. thread[c] = [f \in Fields |-> thread[c][f]]
    BY DEF TokenInv, Shaped
  <1> DEFINE t == [thread[c] EXCEPT !.at = stage]
  <1>2. /\ t = [f \in Fields |-> t[f]]
        /\ t.at = stage /\ t.req = thread[c].req /\ t.outcome = thread[c].outcome
    BY <1>1 DEF Fields, Idle
  <1>3. thread' = [thread EXCEPT ![c] = t]
    BY DEF GoTo
  <1>4. stage # "auth"
    BY DEF LetIn
  <1> HIDE DEF t
  <1>5. QED
    BY <1>2, <1>3, <1>4, OneThread

LEMMA Answers ==
  ASSUME TokenInv, NEW c \in Threads, NEW outcome,
         AnswerWith(c, outcome), UNCHANGED <<auth_token, in_force>>, outcome # "served"
  PROVE  TokenInv'
  <1>1. thread[c] = [f \in Fields |-> thread[c][f]]
    BY DEF TokenInv, Shaped
  <1> DEFINE t == [thread[c] EXCEPT !.at = "answer", !.outcome = outcome]
  <1>2. /\ t = [f \in Fields |-> t[f]]
        /\ t.at = "answer" /\ t.req = thread[c].req /\ t.outcome = outcome
    BY <1>1 DEF Fields, Idle
  <1>3. thread' = [thread EXCEPT ![c] = t]
    BY DEF AnswerWith
  <1>4. "answer" \notin LetIn \cup {"auth"}
    BY DEF LetIn
  <1> HIDE DEF t
  <1>5. QED
    BY <1>2, <1>3, <1>4, OneThread

\* A request that has been let in was vouched for.
LEMMA LetInIsVouched ==
  ASSUME TokenInv, NEW c \in Threads, thread[c].at \in LetIn
  PROVE  Route(c)[2] \in PublicPaths \/ Vouched(c)
  BY DEF TokenInv

LEMMA TokenStep ==
  ASSUME TokenInv, [Next]_vars
  PROVE  TokenInv'
  <1>1. ASSUME NEW c \in Threads, NEW r \in Requests, Arrive(c, r)
        PROVE  TokenInv'
    <2> DEFINE t == [Idle EXCEPT !.req = r,
                       !.at = IF r.route[2] \in PublicPaths THEN "limit" ELSE "auth"]
    <2>1. /\ t = [f \in Fields |-> t[f]]
          /\ t.req = r /\ t.outcome = "none"
          /\ t.at = IF r.route[2] \in PublicPaths THEN "limit" ELSE "auth"
      BY DEF Fields, Idle
    <2>2. thread' = [thread EXCEPT ![c] = t]
      BY <1>1 DEF Arrive
    <2> HIDE DEF t
    <2>3. /\ \A d \in Threads : thread'[d] = IF d = c THEN t ELSE thread[d]
          /\ \A d \in Threads : in_force'[d] = IF d = c THEN {auth_token} ELSE in_force[d]
          /\ thread' = [d \in Threads |-> thread'[d]]
          /\ in_force' = [d \in Threads |-> in_force'[d]]
      BY <1>1, <2>2 DEF Arrive, TokenInv, Shaped
    <2>4. Shaped'
      BY <2>1, <2>3 DEF TokenInv, Shaped
    <2>5. auth_token' = auth_token
      BY <1>1 DEF Arrive, settings
    <2>6. ASSUME NEW d \in Threads
          PROVE  /\ thread'[d].at = "auth" => auth_token' \in in_force'[d]
                 /\ thread'[d].at \in LetIn \/ thread'[d].outcome = "served" =>
                      Route(d)'[2] \in PublicPaths \/ Vouched(d)'
      <3>1. CASE d = c
        BY <2>1, <2>3, <2>5, <3>1 DEF LetIn, Route
      <3>2. CASE d # c
        BY <2>3, <2>5, <3>2 DEF TokenInv, Route, Vouched
      <3>3. QED
        BY <3>1, <3>2
    <2>7. QED
      BY <2>4, <2>6 DEF TokenInv
  <1>2. ASSUME NEW c \in Threads, Auth(c)
        PROVE  TokenInv'
    <2>1. UNCHANGED <<auth_token, in_force>> /\ auth_token \in in_force[c]
      BY <1>2 DEF Auth, settings, Locked, TokenInv
    <2>2. CASE auth_token \in {None, thread[c].req.token}
      <3>1. GoTo(c, "limit") /\ Vouched(c)
        BY <1>2, <2>1, <2>2 DEF Auth, Vouched
      <3>2. QED
        BY <2>1, <3>1, GoesOn DEF LetIn
    <2>3. CASE auth_token \notin {None, thread[c].req.token}
      <3>1. AnswerWith(c, "unauthenticated")
        BY <1>2, <2>3 DEF Auth
      <3>2. QED
        BY <2>1, <3>1, Answers
    <2>4. QED
      BY <2>2, <2>3
  <1>3. ASSUME NEW c \in Threads, Limit(c)
        PROVE  TokenInv'
    <2>1. UNCHANGED <<auth_token, in_force>> /\ thread[c].at \in LetIn
      BY <1>3 DEF Limit, Locked, LetIn
    <2>2. GoTo(c, "before") \/ GoTo(c, "admitted") \/ AnswerWith(c, "limited")
      BY <1>3 DEF Limit
    <2>3. QED
      BY <2>1, <2>2, LetInIsVouched, GoesOn, Answers DEF LetIn
  <1>4. ASSUME NEW c \in Threads, Release(c)
        PROVE  TokenInv'
    <2>1. UNCHANGED <<auth_token, in_force>> /\ thread[c].at \in LetIn /\ GoTo(c, "before")
      BY <1>4 DEF Release, settings, LetIn
    <2>2. QED
      BY <2>1, LetInIsVouched, GoesOn DEF LetIn
  <1>5. ASSUME NEW c \in Threads, Before(c)
        PROVE  TokenInv'
    <2>1. UNCHANGED <<auth_token, in_force>> /\ thread[c].at \in LetIn
      BY <1>5 DEF Before, Locked, settings, LetIn
    <2>2. thread[c] = [f \in Fields |-> thread[c][f]]
      BY DEF TokenInv, Shaped
    <2> DEFINE ran == BeforeHooks(hooks, Route(c))
               stage == IF Rejects(ran) THEN "answer"
                        ELSE IF Route(c)[1] \in BodyMethods THEN "validate" ELSE "handle"
               outcome == IF Rejects(ran) THEN "rejected" ELSE thread[c].outcome
               t == [thread[c] EXCEPT !.before = ran, !.at = stage, !.outcome = outcome]
    <2>3. thread' = [thread EXCEPT ![c] = t]
      BY <1>5 DEF Before
    <2>4. stage \in {"answer", "validate", "handle"}
      OBVIOUS
    <2> HIDE DEF ran, stage, outcome
    <2>5. /\ t = [f \in Fields |-> t[f]]
          /\ t.at = stage /\ t.req = thread[c].req
      BY <2>2 DEF Fields, Idle
    <2>6. Route(c)[2] \in PublicPaths \/ Vouched(c)
      BY <2>1, LetInIsVouched
    <2> HIDE DEF t
    <2>7. QED
      BY <2>1, <2>3, <2>4, <2>5, <2>6, OneThread
  <1>6. ASSUME NEW c \in Threads, Validate(c)
        PROVE  TokenInv'
    <2>1. UNCHANGED <<auth_token, in_force>> /\ thread[c].at \in LetIn
      BY <1>6 DEF Validate, Locked, settings, LetIn
    <2>2. GoTo(c, "handle") \/ AnswerWith(c, "invalid")
      BY <1>6 DEF Validate
    <2>3. QED
      BY <2>1, <2>2, LetInIsVouched, GoesOn, Answers DEF LetIn
  <1>7. ASSUME NEW c \in Threads, HandleOther(c) \/ HandleRule(c) \/ HandleSchema(c)
        PROVE  TokenInv'
    <2>1. /\ UNCHANGED <<auth_token, in_force>> /\ thread[c].at \in LetIn
          /\ GoTo(c, "after")
      BY <1>7 DEF HandleOther, HandleRule, HandleSchema, Handling, Locked, settings, LetIn
    <2>2. QED
      BY <2>1, LetInIsVouched, GoesOn DEF LetIn
  <1>8. ASSUME NEW c \in Threads, HandleAuth(c)
        PROVE  TokenInv'
    <2>1. thread[c].at \in LetIn /\ GoTo(c, "after")
      BY <1>8 DEF HandleAuth, Handling, Locked, LetIn
    <2>2. /\ \A d \in Threads : thread'[d] = IF d = c THEN [thread[c] EXCEPT !.at = "after"]
                                             ELSE thread[d]
          /\ thread' = [d \in Threads |-> thread'[d]]
      BY <2>1 DEF GoTo, TokenInv, Shaped
    <2>3. /\ \A d \in Threads : in_force[d] \subseteq in_force'[d]
          /\ \A d \in Threads : d # c /\ thread[d].at = "auth" => auth_token' \in in_force'[d]
          /\ in_force' = [d \in Threads |-> in_force'[d]]
      BY <1>8 DEF HandleAuth
    <2>4. /\ [thread[c] EXCEPT !.at = "after"].at = "after"
          /\ [thread[c] EXCEPT !.at = "after"].req = thread[c].req
          /\ [thread[c] EXCEPT !.at = "after"]
               = [f \in Fields |-> [thread[c] EXCEPT !.at = "after"][f]]
      BY DEF TokenInv, Shaped, Fields, Idle
    <2>5. Shaped'
      BY <2>2, <2>3, <2>4 DEF TokenInv, Shaped
    <2>6. ASSUME NEW d \in Threads
          PROVE  /\ thread'[d].at = "auth" => auth_token' \in in_force'[d]
                 /\ thread'[d].at \in LetIn \/ thread'[d].outcome = "served" =>
                      Route(d)'[2] \in PublicPaths \/ Vouched(d)'
      <3>1. CASE d = c
        BY <2>1, <2>2, <2>3, <2>4, <3>1, LetInIsVouched DEF Route, Vouched
      <3>2. CASE d # c
        BY <2>2, <2>3, <3>2 DEF TokenInv, Route, Vouched
      <3>3. QED
        BY <3>1, <3>2
    <2>7. QED
      BY <2>5, <2>6 DEF TokenInv
  <1>9. ASSUME NEW c \in Threads, HandleHook(c)
        PROVE  TokenInv'
    <2>1. UNCHANGED <<auth_token, in_force>> /\ thread[c].at \in LetIn
      BY <1>9 DEF HandleHook, Handling, Locked, LetIn
    <2> DEFINE calm(d) == thread[d].calm /\ thread[d].at \notin {"validate", "handle", "after"}
               u(d) == [thread[d] EXCEPT !.calm = calm(d),
                                         !.at = IF d = c THEN "after" ELSE @]
    <2>2. thread' = [d \in Threads |-> u(d)]
      BY <1>9 DEF HandleHook
    <2> HIDE DEF calm
    <2>3. ASSUME NEW d \in Threads
          PROVE  /\ u(d) = [f \in Fields |-> u(d)[f]]
                 /\ u(d).req = thread[d].req /\ u(d).outcome = thread[d].outcome
                 /\ u(d).at = IF d = c THEN "after" ELSE thread[d].at
      BY <2>3 DEF TokenInv, Shaped, Fields, Idle
    <2> HIDE DEF u
    <2>4. Shaped'
      BY <2>1, <2>2, <2>3 DEF TokenInv, Shaped
    <2>5. ASSUME NEW d \in Threads
          PROVE  /\ thread'[d].at = "auth" => auth_token' \in in_force'[d]
                 /\ thread'[d].at \in LetIn \/ thread'[d].outcome = "served" =>
                      Route(d)'[2] \in PublicPaths \/ Vouched(d)'
      <3>1. CASE d = c
        BY <2>1, <2>2, <2>3, <3>1, LetInIsVouched DEF Route, Vouched
      <3>2. CASE d # c
        BY <2>1, <2>2, <2>3, <3>2 DEF TokenInv, Route, Vouched
      <3>3. QED
        BY <3>1, <3>2
    <2>6. QED
      BY <2>4, <2>5 DEF TokenInv
  <1>10. ASSUME NEW c \in Threads, After(c)
         PROVE  TokenInv'
    <2>1. UNCHANGED <<auth_token, in_force>> /\ thread[c].at \in LetIn
      BY <1>10 DEF After, Locked, settings, LetIn
    <2> DEFINE ran == AfterHooks(hooks, Route(c))
               t == [thread[c] EXCEPT !.after = ran, !.at = "answer", !.outcome = "served"]
    <2>2. thread' = [thread EXCEPT ![c] = t]
      BY <1>10 DEF After
    <2> HIDE DEF ran
    <2>3. /\ t = [f \in Fields |-> t[f]]
          /\ t.at = "answer" /\ t.req = thread[c].req
      BY DEF TokenInv, Shaped, Fields, Idle
    <2>4. Route(c)[2] \in PublicPaths \/ Vouched(c)
      BY <2>1, LetInIsVouched
    <2> HIDE DEF t
    <2>5. QED
      BY <2>1, <2>2, <2>3, <2>4, OneThread
  <1>11. ASSUME NEW c \in Threads, Answer(c)
         PROVE  TokenInv'
    <2>1. /\ \A d \in Threads : thread'[d] = IF d = c THEN Idle ELSE thread[d]
          /\ \A d \in Threads : in_force'[d] = IF d = c THEN {} ELSE in_force[d]
          /\ thread' = [d \in Threads |-> thread'[d]]
          /\ in_force' = [d \in Threads |-> in_force'[d]]
          /\ auth_token' = auth_token
      BY <1>11 DEF Answer, settings, TokenInv, Shaped
    <2>2. /\ Idle = [f \in Fields |-> Idle[f]]
          /\ Idle.at = "idle" /\ Idle.outcome = "none"
      BY DEF Fields, Idle
    <2>3. Shaped'
      BY <2>1, <2>2 DEF TokenInv, Shaped
    <2>4. ASSUME NEW d \in Threads
          PROVE  /\ thread'[d].at = "auth" => auth_token' \in in_force'[d]
                 /\ thread'[d].at \in LetIn \/ thread'[d].outcome = "served" =>
                      Route(d)'[2] \in PublicPaths \/ Vouched(d)'
      BY <2>1, <2>2, <2>4 DEF TokenInv, LetIn, Route, Vouched
    <2>5. QED
      BY <2>3, <2>4 DEF TokenInv
  <1>12. ASSUME Refill \/ UNCHANGED vars
         PROVE  TokenInv'
    BY <1>12 DEF Refill, vars, TokenInv, Shaped, Route, Vouched
  <1>13. QED
    BY <1>1, <1>2, <1>3, <1>4, <1>5, <1>6, <1>7, <1>8, <1>9, <1>10, <1>11, <1>12
       DEF Next, Step, Handle

\* Whatever the requests do to the token while others are half-way through, a protected
\* path is served only to a request whose token was in force at some moment of it.
THEOREM ServedSafely == Spec => []ServedUnderAToken
  <1>1. Init => TokenInv
    <2>1. SUFFICES ASSUME Init PROVE TokenInv
      OBVIOUS
    <2>2. /\ Idle = [f \in Fields |-> Idle[f]]
          /\ Idle.at = "idle" /\ Idle.outcome = "none"
      BY DEF Fields, Idle
    <2>3. QED
      BY <2>1, <2>2 DEF Init, TokenInv, Shaped, LetIn
  <1>2. TokenInv /\ [Next]_vars => TokenInv'
    BY TokenStep
  <1>3. TokenInv => ServedUnderAToken
    BY DEF TokenInv, ServedUnderAToken, Vouched
  <1>4. QED
    BY <1>1, <1>2, <1>3, PTL DEF Spec

---------------------------------------------------------------------------------
\* ChargedByNarrowestRule and HooksNest.

\* The rules tried for a route are the rules about it, and each of them is one.
LEMMA TriesAreTheRules ==
  ASSUME NEW route \in Routes
  PROVE  /\ \A i \in 1 .. 4 : Tries(route)[i] \in Rules /\ route \in Covered(Tries(route)[i])
         /\ \A r \in Rules : route \in Covered(r) => \E i \in 1 .. 4 : Tries(route)[i] = r
  <1>1. PICK m \in Methods, p \in Paths : route = <<m, p>>
    BY DEF Routes
  <1>2. /\ Tries(route)[1] = <<m, p>> /\ Tries(route)[2] = <<Star, p>>
        /\ Tries(route)[3] = <<m, Star>> /\ Tries(route)[4] = <<Star, Star>>
    BY <1>1 DEF Tries
  <1>3. ASSUME NEW i \in 1 .. 4
        PROVE  Tries(route)[i] \in Rules /\ route \in Covered(Tries(route)[i])
    <2>1. i = 1 \/ i = 2 \/ i = 3 \/ i = 4
      OBVIOUS
    <2>2. QED
      BY <1>1, <1>2, <2>1 DEF Rules, Covered, Routes
  <1>4. ASSUME NEW r \in Rules, route \in Covered(r)
        PROVE  \E i \in 1 .. 4 : Tries(route)[i] = r
    <2>1. PICK a \in Methods \cup {Star}, b \in Paths \cup {Star} : r = <<a, b>>
      BY DEF Rules
    <2>2. a \in {Star, m} /\ b \in {Star, p}
      BY <1>1, <1>4, <2>1 DEF Covered
    <2>3. QED
      BY <1>2, <2>1, <2>2
  <1>5. QED
    BY <1>3, <1>4

\* None of them is narrower than one that is tried before it.
LEMMA NarrowestFirst ==
  ASSUME NEW route \in Routes, NEW i \in 1 .. 4, NEW j \in 1 .. 4, i =< j,
         Covered(Tries(route)[j]) \subseteq Covered(Tries(route)[i])
  PROVE  Covered(Tries(route)[j]) = Covered(Tries(route)[i])
  <1>1. PICK m \in Methods, p \in Paths : route = <<m, p>>
    BY DEF Routes
  <1>2. PICK q \in Paths : q # p
    BY RouteAssumption
  <1>3. /\ Tries(route)[1] = <<m, p>> /\ Tries(route)[2] = <<Star, p>>
        /\ Tries(route)[3] = <<m, Star>> /\ Tries(route)[4] = <<Star, Star>>
    BY <1>1 DEF Tries
  <1>4. /\ Covered(<<m, p>>) = {<<m, p>>}
        /\ Covered(<<Star, p>>) = Methods \X {p}
        /\ Covered(<<m, Star>>) = {m} \X Paths
        /\ Covered(<<Star, Star>>) = Methods \X Paths
    BY RouteAssumption DEF Covered, Routes
  <1>5. <<m, q>> \in {m} \X Paths /\ <<m, q>> \in Methods \X Paths /\ <<m, q>> \notin Methods \X {p}
    BY <1>2
  <1>6. <<m, q>> # <<m, p>> /\ <<m, p>> \in Methods \X {p} /\ <<m, p>> \in {m} \X Paths
    BY <1>2
  <1>7. i = j \/ i = 1 \/ (i = 2 /\ j \in {3, 4}) \/ (i = 3 /\ j = 4)
    OBVIOUS
  <1>8. CASE i = j
    BY <1>8
  <1>9. CASE i = 1
    <2>1. route \in Covered(Tries(route)[j])
      BY TriesAreTheRules
    <2>2. QED
      BY <1>1, <1>3, <1>4, <1>9, <2>1
  <1>10. CASE i = 2 /\ j \in {3, 4}
    BY <1>3, <1>4, <1>5, <1>10
  <1>11. CASE i = 3 /\ j = 4
    BY <1>3, <1>4, <1>11
  <1>12. QED
    BY <1>7, <1>8, <1>9, <1>10, <1>11

\* find_best_key finds the narrowest of the rules about a route, if there is any.
LEMMA BestIsNarrowest ==
  ASSUME NEW route \in Routes, NEW rules, DOMAIN rules \subseteq Rules
  PROVE  LET best == BestRule(rules, route)
             About == {r \in DOMAIN rules : route \in Covered(r)}
         IN /\ best = None <=> About = {}
            /\ best # None => /\ best \in About
                              /\ \A q \in About : Covered(q) \subseteq Covered(best)
                                                    => Covered(q) = Covered(best)
  <1> DEFINE best == BestRule(rules, route)
             About == {r \in DOMAIN rules : route \in Covered(r)}
             found == {i \in 1 .. 4 : Tries(route)[i] \in DOMAIN rules}
  <1>1. \A r \in About : \E i \in found : Tries(route)[i] = r
    BY TriesAreTheRules
  <1>2. \A i \in found : Tries(route)[i] \in About
    BY TriesAreTheRules
  <1>3. None \notin About
    BY NoneAssumption
  <1>4. CASE found = {}
    <2>1. best = None
      BY <1>4 DEF BestRule
    <2>2. QED
      BY <1>1, <1>4, <2>1
  <1>5. CASE found # {}
    <2> DEFINE k == CHOOSE i \in found : \A j \in found : i =< j
    <2>1. k \in found /\ \A j \in found : k =< j
      <3>1. found \in SUBSET Nat
        OBVIOUS
      <3>2. \E i \in found : \A j \in found : i =< j
        <4> HIDE DEF found
        <4>1. QED
          BY <1>5, <3>1, SmallestNat
      <3>3. QED
        BY <3>2
    <2>2. best = Tries(route)[k]
      BY <1>5 DEF BestRule
    <2>3. best \in About /\ best # None
      BY <1>2, <1>3, <2>1, <2>2
    <2>4. ASSUME NEW q \in About, Covered(q) \subseteq Covered(best)
          PROVE  Covered(q) = Covered(best)
      <3>1. PICK j \in found : Tries(route)[j] = q
        BY <1>1
      <3> HIDE DEF k
      <3>2. k \in 1 .. 4 /\ j \in 1 .. 4 /\ k =< j
        BY <2>1
      <3>3. QED
        BY <2>2, <2>4, <3>1, <3>2, NarrowestFirst
    <2> HIDE DEF best, About
    <2>5. QED
      BY <2>3, <2>4 DEF best, About
  <1>6. QED
    BY <1>4, <1>5

\* The stages between the before and the after hooks.
Between == {"validate", "handle", "after"}

\* What HooksNest says of one thread.
Nested(c) ==
  LET before == thread[c].before
      after  == thread[c].after
  IN /\ thread[c].outcome = "served" /\ thread[c].calm =>
          Kept(after, {h \in ToSet(after) : h.before # "none"})
            = Reverse(Kept(before, {h \in ToSet(before) : h.after # "none"}))
     /\ \A i \in DOMAIN before : before[i].before = "reject" =>
          i = Len(before) /\ after = <<>> /\ thread[c].outcome = "rejected"

Bucket == [capacity : Nat, tokens : Nat]

\* A request on its way has no outcome and no after hooks yet.  One between its before
\* and its after hooks was rejected by none, and if it is calm, the registry still holds
\* what its before hooks were taken from: that is what makes the after hooks fit.
OnItsWay(c) ==
  /\ thread[c].at # "idle" => thread[c].req \in Requests
  /\ thread[c].at # "answer" => thread[c].outcome = "none" /\ thread[c].after = <<>>
  /\ thread[c].at \notin Between \cup {"answer"} => thread[c].before = <<>>
  /\ thread[c].at \in Between =>
       /\ \A i \in DOMAIN thread[c].before : thread[c].before[i].before # "reject"
       /\ thread[c].calm => thread[c].before = Matching(hooks, Route(c))

\* The inductive invariant.
RequestInv ==
  /\ thread = [c \in Threads |-> thread[c]]
  /\ \A c \in Threads : thread[c] = [f \in Fields |-> thread[c][f]]
  /\ hooks \in Seq(Hook)
  /\ DOMAIN buckets \subseteq Rules /\ buckets \in [DOMAIN buckets -> Bucket]
  /\ \A c \in Threads : OnItsWay(c) /\ Nested(c)

\* What is kept of a vector by what is known of its elements.
LEMMA KeptWhere ==
  ASSUME NEW X, NEW s \in Seq(X), NEW S, NEW T, T = S \cap ToSet(s)
  PROVE  Kept(s, T) = Kept(s, S)
  BY KeptOwn

LEMMA ElementsOf ==
  ASSUME NEW X, NEW s \in Seq(X)
  PROVE  ToSet(s) \subseteq X
  BY LenProperties, ElementOfSeq DEF ToSet

\* The hooks that run before and after, as filters of the registry by its entries' types.
LEMMA MatchingIs ==
  ASSUME NEW hs \in Seq(Hook), NEW route
  PROVE  /\ Matching(hs, route) = Kept(hs, {h \in Hook : route \in h.scope /\ h.before # "none"})
         /\ AfterHooks(hs, route)
              = Reverse(Kept(hs, {h \in Hook : route \in h.scope /\ h.after # "none"}))
         /\ Matching(hs, route) \in Seq(Hook)
         /\ AfterHooks(hs, route) \in Seq(Hook)
  <1>1. ToSet(hs) \subseteq Hook
    BY ElementsOf
  <1> DEFINE B == {h \in Hook : route \in h.scope /\ h.before # "none"}
             A == {h \in Hook : route \in h.scope /\ h.after # "none"}
             b == {h \in ToSet(hs) : route \in h.scope /\ h.before # "none"}
             a == {h \in ToSet(hs) : route \in h.scope /\ h.after # "none"}
  <1>2. b = B \cap ToSet(hs) /\ a = A \cap ToSet(hs)
    BY <1>1
  <1>3. Matching(hs, route) = Kept(hs, b) /\ AfterHooks(hs, route) = Reverse(Kept(hs, a))
    BY DEF Matching, AfterHooks
  <1> HIDE DEF a, b, A, B
  <1>4. Kept(hs, b) = Kept(hs, B) /\ Kept(hs, a) = Kept(hs, A)
    BY <1>2, KeptWhere
  <1>5. Kept(hs, B) \in Seq(Hook) /\ Kept(hs, A) \in Seq(Hook)
    BY KeptIn
  <1>6. Reverse(Kept(hs, A)) \in Seq(Hook)
    BY <1>5, ReverseType
  <1>7. QED
    BY <1>3, <1>4, <1>5, <1>6 DEF A, B

\* The after hooks undo, in reverse, the before hooks of the same registry.
LEMMA AfterUndoesBefore ==
  ASSUME NEW hs \in Seq(Hook), NEW route, NEW before, NEW after,
         before = Matching(hs, route), after = AfterHooks(hs, route)
  PROVE  Kept(after, {h \in ToSet(after) : h.before # "none"})
           = Reverse(Kept(before, {h \in ToSet(before) : h.after # "none"}))
  <1> DEFINE B == {h \in Hook : route \in h.scope /\ h.before # "none"}
             A == {h \in Hook : route \in h.scope /\ h.after # "none"}
             HB == {h \in Hook : h.before # "none"}
             HA == {h \in Hook : h.after # "none"}
             hb == {h \in ToSet(after) : h.before # "none"}
             ha == {h \in ToSet(before) : h.after # "none"}
  <1>1. /\ before = Kept(hs, B) /\ after = Reverse(Kept(hs, A))
        /\ before \in Seq(Hook) /\ after \in Seq(Hook)
    BY MatchingIs
  <1>2. hb = HB \cap ToSet(after) /\ ha = HA \cap ToSet(before)
    BY <1>1, ElementsOf
  <1>3. A \cap HB = B \cap HA
    OBVIOUS
  <1> HIDE DEF A, B, HA, HB, ha, hb
  <1>4. Kept(after, hb) = Kept(after, HB) /\ Kept(before, ha) = Kept(before, HA)
    BY <1>1, <1>2, KeptWhere
  <1>5. Kept(hs, A) \in Seq(Hook)
    BY KeptIn
  <1>6. Kept(after, HB) = Reverse(Kept(Kept(hs, A), HB))
    BY <1>1, <1>5, KeptReverse
  <1>7. Kept(Kept(hs, A), HB) = Kept(hs, A \cap HB) /\ Kept(before, HA) = Kept(hs, B \cap HA)
    BY <1>1, KeptTwice
  <1>8. Kept(after, hb) = Reverse(Kept(before, ha))
    BY <1>3, <1>4, <1>6, <1>7
  <1>9. QED
    BY <1>8 DEF ha, hb

\* run_before stops at the first hook that rejects, and only there.
LEMMA StopsAtTheFirst ==
  ASSUME NEW hs \in Seq(Hook), NEW route
  PROVE  LET ran == BeforeHooks(hs, route)
         IN IF Rejects(ran)
            THEN \A i \in DOMAIN ran : ran[i].before = "reject" => i = Len(ran)
            ELSE /\ ran = Matching(hs, route)
                 /\ \A i \in DOMAIN ran : ran[i].before # "reject"
  <1> DEFINE m == Matching(hs, route)
             Stops(i) == m[i].before = "reject"
             ran == BeforeHooks(hs, route)
  <1>1. m \in Seq(Hook) /\ Len(m) \in Nat /\ DOMAIN m = 1 .. Len(m)
    BY MatchingIs, LenProperties
  <1>2. CASE \E i \in DOMAIN m : Stops(i)
    <2> DEFINE stops == {i \in DOMAIN m : Stops(i)}
               First(i) == Stops(i) /\ \A j \in 1 .. (i - 1) : ~Stops(j)
               k == CHOOSE i \in DOMAIN m : First(i)
    <2>1. \E i \in DOMAIN m : First(i)
      <3>1. stops \in SUBSET Nat /\ stops # {}
        BY <1>1, <1>2
      <3> HIDE DEF stops
      <3>2. PICK i \in stops : \A j \in stops : i =< j
        BY <3>1, SmallestNat
      <3>3. \A j \in 1 .. (i - 1) : j \in 1 .. Len(m) /\ ~(i =< j)
        BY <1>1, <3>1, <3>2 DEF stops
      <3>4. QED
        BY <1>1, <3>2, <3>3 DEF stops
    <2>2. k \in DOMAIN m /\ First(k)
      BY <2>1
    <2>3. ran = SubSeq(m, 1, k)
      BY <1>2 DEF BeforeHooks
    <2> HIDE DEF k
    <2>4. k \in 1 .. Len(m)
      BY <1>1, <2>2
    <2>5. Len(ran) = k /\ DOMAIN ran = 1 .. k /\ \A i \in 1 .. k : ran[i] = m[i]
      BY <1>1, <2>3, <2>4, SubSeqProperties
    <2>6. Rejects(ran)
      <3>1. Last(ran) = m[k] /\ ran # <<>>
        BY <2>4, <2>5 DEF Last
      <3>2. QED
        BY <2>2, <3>1 DEF Rejects
    <2>7. ASSUME NEW i \in DOMAIN ran, ran[i].before = "reject"
          PROVE  i = Len(ran)
      <3>1. i \in 1 .. k /\ m[i].before = "reject"
        BY <2>5, <2>7
      <3>2. i \notin 1 .. (k - 1)
        BY <2>2, <3>1
      <3>3. QED
        BY <2>4, <2>5, <3>1, <3>2
    <2>8. QED
      BY <2>6, <2>7
  <1>3. CASE ~ \E i \in DOMAIN m : Stops(i)
    <2>1. ran = m
      BY <1>3 DEF BeforeHooks
    <2>2. ~Rejects(ran)
      <3>1. m # <<>> => Len(m) \in DOMAIN m
        BY <1>1, EmptySeq
      <3>2. QED
        BY <1>3, <2>1, <3>1 DEF Rejects, Last
    <2>3. QED
      BY <1>3, <2>1, <2>2
  <1>4. QED
    BY <1>2, <1>3

---------------------------------------------------------------------------------
BucketsOK == DOMAIN buckets \subseteq Rules /\ buckets \in [DOMAIN buckets -> Bucket]

\* A step of one thread that leaves the registry alone is about that thread only.
LEMMA OneRequestMoves ==
  ASSUME RequestInv, NEW c \in Threads, NEW t,
         t = [f \in Fields |-> t[f]],
         thread' = [thread EXCEPT ![c] = t],
         hooks' = hooks, BucketsOK', OnItsWay(c)', Nested(c)'
  PROVE  RequestInv'
  <1>1. \A d \in Threads : thread'[d] = IF d = c THEN t ELSE thread[d]
    BY DEF RequestInv
  <1>2. thread' = [d \in Threads |-> thread'[d]]
    BY DEF RequestInv
  <1>3. \A d \in Threads : thread'[d] = [f \in Fields |-> thread'[d][f]]
    BY <1>1 DEF RequestInv
  <1>4. ASSUME NEW d \in Threads, d # c
        PROVE  OnItsWay(d)' /\ Nested(d)'
    BY <1>1, <1>4 DEF RequestInv, OnItsWay, Nested, Route
  <1>5. hooks' \in Seq(Hook)
    BY DEF RequestInv
  <1>6. QED
    BY <1>2, <1>3, <1>4, <1>5 DEF RequestInv, BucketsOK

\* From one stage to another on the same side of the before hooks.
LEMMA KeepsGoing ==
  ASSUME RequestInv, NEW c \in Threads, NEW stage,
         GoTo(c, stage), hooks' = hooks, BucketsOK',
         thread[c].at \notin {"idle", "answer"}, stage \notin {"idle", "answer"},
         thread[c].at \in Between <=> stage \in Between
  PROVE  RequestInv'
  <1> DEFINE t == [thread[c] EXCEPT !.at = stage, !.outcome = thread[c].outcome,
                     !.before = thread[c].before, !.after = thread[c].after]
  <1>1. /\ t = [f \in Fields |-> t[f]]
        /\ t.at = stage /\ t.outcome = thread[c].outcome /\ t.before = thread[c].before
        /\ t.after = thread[c].after /\ t.req = thread[c].req /\ t.calm = thread[c].calm
    <2>1. thread[c] = [f \in Fields |-> thread[c][f]]
      BY DEF RequestInv
    <2>2. QED
      BY <2>1 DEF Fields, Idle
  <1>2. [thread[c] EXCEPT !.at = stage] = t
    <2>1. thread[c] = [f \in Fields |-> thread[c][f]]
      BY DEF RequestInv
    <2>2. QED
      BY <2>1 DEF Fields, Idle
  <1>3. thread' = [thread EXCEPT ![c] = t]
    BY <1>2 DEF GoTo
  <1> HIDE DEF t
  <1>4. thread'[c] = t
    BY <1>3 DEF RequestInv
  <1>5. OnItsWay(c) /\ Nested(c)
    BY DEF RequestInv
  <1>6. OnItsWay(c)'
    BY <1>1, <1>4, <1>5 DEF OnItsWay, Route, Between
  <1>7. Nested(c)'
    BY <1>1, <1>4, <1>5 DEF Nested
  <1>8. QED
    BY <1>1, <1>3, <1>6, <1>7, OneRequestMoves

\* An answer before the after hooks.
LEMMA TurnedAway ==
  ASSUME RequestInv, NEW c \in Threads, NEW outcome,
         AnswerWith(c, outcome), outcome # "served", hooks' = hooks, BucketsOK',
         thread[c].at \notin {"idle", "answer"}
  PROVE  RequestInv'
  <1> DEFINE t == [thread[c] EXCEPT !.at = "answer", !.outcome = outcome,
                     !.before = thread[c].before, !.after = thread[c].after]
  <1>1. /\ t = [f \in Fields |-> t[f]]
        /\ t.at = "answer" /\ t.outcome = outcome /\ t.before = thread[c].before
        /\ t.after = thread[c].after /\ t.req = thread[c].req /\ t.calm = thread[c].calm
    <2>1. thread[c] = [f \in Fields |-> thread[c][f]]
      BY DEF RequestInv
    <2>2. QED
      BY <2>1 DEF Fields, Idle
  <1>2. [thread[c] EXCEPT !.at = "answer", !.outcome = outcome] = t
    <2>1. thread[c] = [f \in Fields |-> thread[c][f]]
      BY DEF RequestInv
    <2>2. QED
      BY <2>1 DEF Fields, Idle
  <1>3. thread' = [thread EXCEPT ![c] = t]
    BY <1>2 DEF AnswerWith
  <1> HIDE DEF t
  <1>4. thread'[c] = t
    BY <1>3 DEF RequestInv
  <1>5. OnItsWay(c) /\ Nested(c)
    BY DEF RequestInv
  <1>6. OnItsWay(c)'
    BY <1>1, <1>4, <1>5 DEF OnItsWay, Between
  <1>7. \A i \in DOMAIN thread[c].before : thread[c].before[i].before # "reject"
    BY <1>5 DEF OnItsWay
  <1>8. Nested(c)'
    BY <1>1, <1>4, <1>7 DEF Nested
  <1>9. QED
    BY <1>1, <1>3, <1>6, <1>8, OneRequestMoves

LEMMA RequestStep ==
  ASSUME RequestInv, [Next]_vars
  PROVE  RequestInv'
  <1> USE DEF settings
  <1>0. BucketsOK
    BY DEF RequestInv, BucketsOK
  <1>1. ASSUME NEW c \in Threads, NEW r \in Requests, Arrive(c, r)
        PROVE  RequestInv'
    <2> DEFINE t == [Idle EXCEPT !.req = r,
                       !.at = IF r.route[2] \in PublicPaths THEN "limit" ELSE "auth"]
    <2>1. /\ t = [f \in Fields |-> t[f]]
          /\ t.req = r /\ t.outcome = "none" /\ t.before = <<>> /\ t.after = <<>>
          /\ t.at \in {"limit", "auth"}
      BY DEF Fields, Idle
    <2>2. thread' = [thread EXCEPT ![c] = t]
      BY <1>1 DEF Arrive
    <2> HIDE DEF t
    <2>3. thread'[c] = t /\ hooks' = hooks /\ buckets' = buckets
      BY <1>1, <2>2 DEF RequestInv, Arrive
    <2>4. OnItsWay(c)'
      BY <2>1, <2>3 DEF OnItsWay, Between
    <2>5. Nested(c)'
      BY <2>1, <2>3 DEF Nested
    <2>6. BucketsOK'
      BY <1>0, <2>3 DEF BucketsOK
    <2>7. QED
      BY <2>1, <2>2, <2>3, <2>4, <2>5, <2>6, OneRequestMoves
  <1>2. ASSUME NEW c \in Threads, Auth(c)
        PROVE  RequestInv'
    <2>1. hooks' = hooks /\ buckets' = buckets /\ thread[c].at = "auth"
      BY <1>2 DEF Auth, Locked
    <2>2. BucketsOK'
      BY <1>0, <2>1 DEF BucketsOK
    <2>3. GoTo(c, "limit") \/ AnswerWith(c, "unauthenticated")
      BY <1>2 DEF Auth
    <2>4. QED
      BY <2>1, <2>2, <2>3, KeepsGoing, TurnedAway DEF Between
  <1>3. ASSUME NEW c \in Threads, Limit(c)
        PROVE  RequestInv'
    <2> DEFINE rule == BestRule(buckets, Route(c))
    <2>1. hooks' = hooks /\ thread[c].at = "limit"
      BY <1>3 DEF Limit, Locked
    <2>2. BucketsOK'
      <3>1. CASE buckets' = buckets
        BY <1>0, <3>1 DEF BucketsOK
      <3>2. CASE buckets' # buckets
        <4>1. rule # None /\ buckets[rule].tokens > 0 /\ buckets' = Spent(buckets, rule)
          BY <1>3, <3>2 DEF Limit
        <4>2. Route(c) \in Routes
          BY <2>1, RequestAssumption DEF RequestInv, OnItsWay, Route
        <4>3. rule \in DOMAIN buckets
          <5> HIDE DEF rule
          <5>1. QED
            BY <1>0, <4>1, <4>2, BestIsNarrowest DEF BucketsOK, rule
        <4> HIDE DEF rule
        <4>4. buckets[rule] \in Bucket
          BY <1>0, <4>3 DEF BucketsOK
        <4>5. [buckets[rule] EXCEPT !.tokens = @ - 1] \in Bucket
          BY <4>1, <4>4 DEF Bucket
        <4>6. QED
          BY <1>0, <4>1, <4>5 DEF BucketsOK, Spent
      <3>3. QED
        BY <3>1, <3>2
    <2>3. GoTo(c, "before") \/ GoTo(c, "admitted") \/ AnswerWith(c, "limited")
      BY <1>3 DEF Limit
    <2>4. QED
      BY <2>1, <2>2, <2>3, KeepsGoing, TurnedAway DEF Between
  <1>4. ASSUME NEW c \in Threads, Release(c)
        PROVE  RequestInv'
    <2>1. hooks' = hooks /\ buckets' = buckets /\ thread[c].at = "admitted" /\ GoTo(c, "before")
      BY <1>4 DEF Release
    <2>2. BucketsOK'
      BY <1>0, <2>1 DEF BucketsOK
    <2>3. QED
      BY <2>1, <2>2, KeepsGoing DEF Between
  <1>5. ASSUME NEW c \in Threads, Before(c)
        PROVE  RequestInv'
    <2> DEFINE ran == BeforeHooks(hooks, Route(c))
               stage == IF Rejects(ran) THEN "answer"
                        ELSE IF Route(c)[1] \in BodyMethods THEN "validate" ELSE "handle"
               outcome == IF Rejects(ran) THEN "rejected" ELSE thread[c].outcome
               t == [thread[c] EXCEPT !.at = stage, !.outcome = outcome,
                       !.before = ran, !.after = thread[c].after]
    <2>1. hooks' = hooks /\ buckets' = buckets /\ thread[c].at = "before"
      BY <1>5 DEF Before, Locked
    <2>2. BucketsOK'
      BY <1>0, <2>1 DEF BucketsOK
    <2>3. thread' = [thread EXCEPT ![c].before = ran, ![c].at = stage, ![c].outcome = outcome]
      BY <1>5 DEF Before
    <2>4. IF Rejects(ran) THEN stage = "answer" ELSE stage \in {"validate", "handle"}
      OBVIOUS
    <2>5. IF Rejects(ran) THEN outcome = "rejected" ELSE outcome = thread[c].outcome
      OBVIOUS
    <2>6. IF Rejects(ran)
          THEN \A i \in DOMAIN ran : ran[i].before = "reject" => i = Len(ran)
          ELSE /\ ran = Matching(hooks, Route(c))
               /\ \A i \in DOMAIN ran : ran[i].before # "reject"
      BY StopsAtTheFirst DEF RequestInv
    <2> HIDE DEF ran, stage, outcome
    <2>7. /\ t = [f \in Fields |-> t[f]]
          /\ t.at = stage /\ t.outcome = outcome /\ t.before = ran
          /\ t.after = thread[c].after /\ t.req = thread[c].req /\ t.calm = thread[c].calm
      <3>1. thread[c] = [f \in Fields |-> thread[c][f]]
        BY DEF RequestInv
      <3>2. QED
        BY <3>1 DEF Fields, Idle
    <2>8. thread' = [thread EXCEPT ![c] = t]
      <3>1. thread[c] = [f \in Fields |-> thread[c][f]]
        BY DEF RequestInv
      <3>2. [thread[c] EXCEPT !.before = ran, !.at = stage, !.outcome = outcome] = t
        BY <3>1 DEF Fields, Idle
      <3>3. QED
        BY <2>3, <3>2
    <2> HIDE DEF t
    <2>9. thread'[c] = t
      BY <2>8 DEF RequestInv
    <2>10. OnItsWay(c)
      BY DEF RequestInv
    <2>11. OnItsWay(c)'
      BY <2>1, <2>4, <2>5, <2>6, <2>7, <2>9, <2>10 DEF OnItsWay, Between, Route
    <2>12. Nested(c)'
      BY <2>1, <2>4, <2>5, <2>6, <2>7, <2>9, <2>10 DEF Nested, OnItsWay
    <2>13. QED
      BY <2>1, <2>2, <2>7, <2>8, <2>11, <2>12, OneRequestMoves
  <1>6. ASSUME NEW c \in Threads, Validate(c)
        PROVE  RequestInv'
    <2>1. hooks' = hooks /\ buckets' = buckets /\ thread[c].at = "validate"
      BY <1>6 DEF Validate, Locked
    <2>2. BucketsOK'
      BY <1>0, <2>1 DEF BucketsOK
    <2>3. GoTo(c, "handle") \/ AnswerWith(c, "invalid")
      BY <1>6 DEF Validate
    <2>4. QED
      BY <2>1, <2>2, <2>3, KeepsGoing, TurnedAway DEF Between
  <1>7. ASSUME NEW c \in Threads, HandleOther(c) \/ HandleAuth(c) \/ HandleSchema(c)
        PROVE  RequestInv'
    <2>1. hooks' = hooks /\ buckets' = buckets /\ thread[c].at = "handle" /\ GoTo(c, "after")
      BY <1>7 DEF HandleOther, HandleAuth, HandleSchema, Handling, Locked
    <2>2. BucketsOK'
      BY <1>0, <2>1 DEF BucketsOK
    <2>3. QED
      BY <2>1, <2>2, KeepsGoing DEF Between
  <1>8. ASSUME NEW c \in Threads, HandleRule(c)
        PROVE  RequestInv'
    <2>1. hooks' = hooks /\ thread[c].at = "handle" /\ GoTo(c, "after")
      BY <1>8 DEF HandleRule, Handling, Locked
    <2> DEFINE arg == thread[c].req.arg
    <2>2. BucketsOK'
      <3>1. CASE buckets' = WithoutRule(buckets, arg)
        BY <1>0, <3>1 DEF BucketsOK, WithoutRule
      <3>2. CASE Handling(c, "rule_add") /\ buckets' = WithRule(buckets, arg, 1)
        <4>1. arg \in Rules
          BY <2>1, <3>2, RequestAssumption DEF RequestInv, OnItsWay, Handling
        <4> HIDE DEF arg
        <4>2. [capacity |-> 1, tokens |-> 1] \in Bucket
          BY DEF Bucket
        <4>3. DOMAIN buckets' = DOMAIN buckets \cup {arg}
          BY <3>2 DEF WithRule
        <4>4. \A r \in DOMAIN buckets' : buckets'[r] \in Bucket
          BY <1>0, <3>2, <4>2 DEF BucketsOK, WithRule
        <4>5. buckets' = [r \in DOMAIN buckets' |-> buckets'[r]]
          BY <3>2 DEF WithRule
        <4>6. QED
          BY <1>0, <4>1, <4>3, <4>4, <4>5 DEF BucketsOK
      <3>3. QED
        BY <1>8, <3>1, <3>2 DEF HandleRule
    <2>3. QED
      BY <2>1, <2>2, KeepsGoing DEF Between
  <1>9. ASSUME NEW c \in Threads, HandleHook(c)
        PROVE  RequestInv'
    <2> DEFINE calm(d) == thread[d].calm /\ thread[d].at \notin {"validate", "handle", "after"}
               u(d) == [thread[d] EXCEPT !.calm = calm(d),
                                         !.at = IF d = c THEN "after" ELSE @]
               arg == thread[c].req.arg
    <2>1. thread[c].at = "handle" /\ buckets' = buckets
      BY <1>9 DEF HandleHook, Handling, Locked
    <2>2. thread' = [d \in Threads |-> u(d)]
      BY <1>9 DEF HandleHook
    <2>3. hooks' \in Seq(Hook)
      <3>1. \A name : Unregistered(hooks, name) \in Seq(Hook)
        BY KeptIn DEF RequestInv, Unregistered
      <3>2. Handling(c, "hook_add") => arg \in Hook
        BY <2>1, RequestAssumption DEF RequestInv, OnItsWay, Handling
      <3>3. \/ Handling(c, "hook_add") /\ hooks' = Registered(hooks, arg)
            \/ hooks' = Unregistered(hooks, arg)
        BY <1>9 DEF HandleHook
      <3> HIDE DEF arg
      <3>4. arg \in Hook => Append(Unregistered(hooks, arg.name), arg) \in Seq(Hook)
        BY <3>1, AppendProperties
      <3>5. QED
        BY <3>1, <3>2, <3>3, <3>4 DEF Registered
    <2>4. ASSUME NEW d \in Threads
          PROVE  /\ u(d) = [f \in Fields |-> u(d)[f]]
                 /\ u(d).req = thread[d].req /\ u(d).outcome = thread[d].outcome
                 /\ u(d).before = thread[d].before /\ u(d).after = thread[d].after
                 /\ u(d).at = IF d = c THEN "after" ELSE thread[d].at
                 /\ u(d).calm <=> calm(d)
      <3>1. thread[d] = [f \in Fields |-> thread[d][f]]
        BY DEF RequestInv
      <3>2. u(d).calm <=> calm(d)
        BY <3>1 DEF Fields, Idle
      <3> HIDE DEF calm
      <3>3. /\ u(d) = [f \in Fields |-> u(d)[f]]
            /\ u(d).req = thread[d].req /\ u(d).outcome = thread[d].outcome
            /\ u(d).before = thread[d].before /\ u(d).after = thread[d].after
            /\ u(d).at = IF d = c THEN "after" ELSE thread[d].at
        BY <3>1 DEF Fields, Idle
      <3> HIDE DEF u
      <3>4. QED
        BY <3>2, <3>3
    <2>5. \A d \in Threads : u(d).calm <=> calm(d)
      BY <2>4
    <2> HIDE DEF u
    <2>6. ASSUME NEW d \in Threads
          PROVE  OnItsWay(d)' /\ Nested(d)'
      <3>1. OnItsWay(d) /\ Nested(d) /\ thread'[d] = u(d)
        BY <2>2 DEF RequestInv
      <3>2. thread[d].at \in Between => ~u(d).calm
        BY <2>5 DEF Between
      <3>3. u(d).calm => thread[d].calm
        BY <2>5
      <3>4. OnItsWay(d)'
        BY <2>1, <2>4, <3>1, <3>2 DEF OnItsWay, Between
      <3>5. Nested(d)'
        <4>1. /\ thread'[d].before = thread[d].before /\ thread'[d].after = thread[d].after
              /\ thread'[d].outcome = thread[d].outcome
              /\ thread'[d].calm => thread[d].calm
          BY <2>4, <3>1, <3>3
        <4>2. QED
          BY <3>1, <4>1 DEF Nested
      <3>6. QED
        BY <3>4, <3>5
    <2>7. /\ thread' = [d \in Threads |-> thread'[d]]
          /\ \A d \in Threads : thread'[d] = [f \in Fields |-> thread'[d][f]]
      BY <2>2, <2>4
    <2>8. QED
      BY <1>0, <2>1, <2>3, <2>6, <2>7 DEF RequestInv, BucketsOK
  <1>10. ASSUME NEW c \in Threads, After(c)
         PROVE  RequestInv'
    <2> DEFINE ran == AfterHooks(hooks, Route(c))
               t == [thread[c] EXCEPT !.at = "answer", !.outcome = "served",
                       !.before = thread[c].before, !.after = ran]
    <2>1. hooks' = hooks /\ buckets' = buckets /\ thread[c].at = "after"
      BY <1>10 DEF After, Locked
    <2>2. BucketsOK'
      BY <1>0, <2>1 DEF BucketsOK
    <2>3. thread[c].calm =>
            Kept(ran, {h \in ToSet(ran) : h.before # "none"})
              = Reverse(Kept(thread[c].before, {h \in ToSet(thread[c].before) : h.after # "none"}))
      <3>1. thread[c].calm => thread[c].before = Matching(hooks, Route(c))
        BY <2>1 DEF RequestInv, OnItsWay, Between
      <3>2. hooks \in Seq(Hook)
        BY DEF RequestInv
      <3>3. QED
        BY <3>1, <3>2, AfterUndoesBefore
    <2>4. thread' = [thread EXCEPT ![c].after = ran, ![c].at = "answer", ![c].outcome = "served"]
      BY <1>10 DEF After
    <2> HIDE DEF ran
    <2>5. /\ t = [f \in Fields |-> t[f]]
          /\ t.at = "answer" /\ t.outcome = "served" /\ t.before = thread[c].before
          /\ t.after = ran /\ t.req = thread[c].req /\ t.calm = thread[c].calm
      <3>1. thread[c] = [f \in Fields |-> thread[c][f]]
        BY DEF RequestInv
      <3>2. QED
        BY <3>1 DEF Fields, Idle
    <2>6. thread' = [thread EXCEPT ![c] = t]
      <3>1. thread[c] = [f \in Fields |-> thread[c][f]]
        BY DEF RequestInv
      <3>2. [thread[c] EXCEPT !.after = ran, !.at = "answer", !.outcome = "served"] = t
        BY <3>1 DEF Fields, Idle
      <3>3. QED
        BY <2>4, <3>2
    <2> HIDE DEF t
    <2>7. thread'[c] = t
      BY <2>6 DEF RequestInv
    <2>8. OnItsWay(c)
      BY DEF RequestInv
    <2>9. OnItsWay(c)'
      BY <2>1, <2>5, <2>7, <2>8 DEF OnItsWay, Between
    <2>10. \A i \in DOMAIN thread[c].before : thread[c].before[i].before # "reject"
      BY <2>1, <2>8 DEF OnItsWay, Between
    <2>11. Nested(c)'
      BY <2>3, <2>5, <2>7, <2>10 DEF Nested
    <2>12. QED
      BY <2>1, <2>2, <2>5, <2>6, <2>9, <2>11, OneRequestMoves
  <1>11. ASSUME NEW c \in Threads, Answer(c)
         PROVE  RequestInv'
    <2>1. hooks' = hooks /\ buckets' = buckets /\ thread' = [thread EXCEPT ![c] = Idle]
      BY <1>11 DEF Answer
    <2>2. BucketsOK'
      BY <1>0, <2>1 DEF BucketsOK
    <2>3. thread'[c] = Idle
      BY <2>1 DEF RequestInv
    <2>4. /\ Idle = [f \in Fields |-> Idle[f]]
          /\ Idle.at = "idle" /\ Idle.outcome = "none" /\ Idle.before = <<>> /\ Idle.after = <<>>
      BY DEF Fields, Idle
    <2>5. OnItsWay(c)'
      BY <2>3, <2>4 DEF OnItsWay, Between
    <2>6. Nested(c)'
      BY <2>3, <2>4 DEF Nested
    <2>7. QED
      BY <2>1, <2>2, <2>4, <2>5, <2>6, OneRequestMoves
  <1>12. ASSUME Refill
         PROVE  RequestInv'
    <2>1. PICK rule \in DOMAIN buckets : buckets' = Refilled(buckets, rule)
      BY <1>12 DEF Refill
    <2>2. buckets[rule] \in Bucket
      BY <1>0 DEF BucketsOK
    <2> DEFINE n == IF buckets[rule].tokens < buckets[rule].capacity
                    THEN buckets[rule].tokens + 1 ELSE buckets[rule].tokens
    <2>3. n \in Nat
      BY <2>2 DEF Bucket
    <2>4. buckets' = [buckets EXCEPT ![rule] = [buckets[rule] EXCEPT !.tokens = n]]
      BY <2>1 DEF Refilled
    <2> HIDE DEF n
    <2>5. [buckets[rule] EXCEPT !.tokens = n] \in Bucket
      BY <2>2, <2>3 DEF Bucket
    <2>6. BucketsOK'
      BY <1>0, <2>4, <2>5 DEF BucketsOK
    <2>7. hooks' = hooks /\ thread' = thread
      BY <1>12 DEF Refill
    <2>8. QED
      BY <2>6, <2>7 DEF RequestInv, BucketsOK, OnItsWay, Nested, Route
  <1>13. ASSUME UNCHANGED vars
         PROVE  RequestInv'
    BY <1>13 DEF vars, RequestInv, OnItsWay, Nested, Route
  <1>14. QED
    BY <1>1, <1>2, <1>3, <1>4, <1>5, <1>6, <1>7, <1>8, <1>9, <1>10, <1>11, <1>12, <1>13
       DEF Next, Step, Handle

LEMMA RequestInit ==
  ASSUME Init
  PROVE  RequestInv
  <1>1. /\ Idle = [f \in Fields |-> Idle[f]]
        /\ Idle.at = "idle" /\ Idle.outcome = "none" /\ Idle.before = <<>> /\ Idle.after = <<>>
    BY DEF Fields, Idle
  <1>2. \A c \in Threads : thread[c] = Idle
    BY DEF Init
  <1>3. \A c \in Threads : OnItsWay(c)
    BY <1>1, <1>2 DEF OnItsWay, Between
  <1>4. \A c \in Threads : Nested(c)
    BY <1>1, <1>2 DEF Nested
  <1>5. BucketsOK
    BY StartAssumption DEF Init, BucketsOK, Bucket
  <1>6. QED
    BY <1>1, <1>2, <1>3, <1>4, <1>5, StartAssumption DEF Init, RequestInv, BucketsOK

\* HooksNest, for any registry and any requests that change it.
THEOREM HooksUndoneInReverse == Spec => []HooksNest
  <1>1. Init => RequestInv
    BY RequestInit
  <1>2. RequestInv /\ [Next]_vars => RequestInv'
    BY RequestStep
  <1>3. RequestInv => HooksNest
    BY DEF RequestInv, Nested, HooksNest
  <1>4. QED
    BY <1>1, <1>2, <1>3, PTL DEF Spec

\* ChargedByNarrowestRule, for any rules and any requests that change them.
THEOREM NarrowestRulePays == Spec => ChargedByNarrowestRule
  <1>1. ASSUME RequestInv, [Next]_vars, NEW c \in Threads,
               thread[c].at = "limit", thread'[c].at # "limit"
        PROVE  LET About == {r \in DOMAIN buckets : Route(c) \in Covered(r)}
                   Narrower(r, q) == Covered(r) \subseteq Covered(q) /\ Covered(r) # Covered(q)
                   Refused == thread'[c].outcome = "limited"
               IN IF About = {} THEN buckets' = buckets /\ ~Refused
                  ELSE \E r \in About :
                         /\ \A q \in About : ~Narrower(q, r)
                         /\ \A q \in DOMAIN buckets \ {r} : buckets'[q] = buckets[q]
                         /\ IF Refused THEN buckets[r].tokens = 0
                                       ELSE buckets'[r].tokens = buckets[r].tokens - 1
    <2>1. Limit(c)
      <3>1. /\ thread = [d \in Threads |-> thread[d]]
            /\ thread[c] = [f \in Fields |-> thread[c][f]]
        BY <1>1 DEF RequestInv
      <3>2. ASSUME NEW d \in Threads, NEW r \in Requests, Arrive(d, r)
            PROVE  FALSE
        BY <1>1, <3>1, <3>2 DEF Arrive
      <3>3. ASSUME NEW d \in Threads, d # c, Step(d) \/ Refill \/ UNCHANGED vars
            PROVE  thread'[c].at = thread[c].at
        <4>1. CASE HandleHook(d)
          <5> DEFINE calm == thread[c].calm /\ thread[c].at \notin {"validate", "handle", "after"}
          <5>1. thread'[c] = [thread[c] EXCEPT !.calm = calm,
                                !.at = IF c = d THEN "after" ELSE @]
            BY <4>1 DEF HandleHook
          <5> HIDE DEF calm
          <5>2. QED
            BY <3>1, <3>3, <5>1 DEF Fields, Idle
        <4>2. CASE ~HandleHook(d)
          <5>1. thread'[c] = thread[c]
            BY <3>1, <3>3, <4>2 DEF Step, Handle, Auth, Limit, Release, Before, Validate,
               HandleOther, HandleAuth, HandleRule, HandleSchema, After, Answer, Refill, vars,
               GoTo, AnswerWith
          <5>2. QED
            BY <5>1
        <4>3. QED
          BY <4>1, <4>2
      <3>4. ~Refill /\ ~UNCHANGED vars
        BY <1>1 DEF Refill, vars
      <3>5. Step(c)
        BY <1>1, <3>2, <3>3, <3>4 DEF Next
      <3>6. QED
        BY <1>1, <3>5 DEF Step, Handle, Auth, Release, Before, Validate, HandleOther, HandleAuth,
           HandleRule, HandleHook, HandleSchema, Handling, Locked, After, Answer
    <2> DEFINE About == {r \in DOMAIN buckets : Route(c) \in Covered(r)}
               best == BestRule(buckets, Route(c))
    <2>2. Route(c) \in Routes /\ DOMAIN buckets \subseteq Rules
      BY <1>1, RequestAssumption DEF RequestInv, OnItsWay, Route
    <2>3. /\ best = None <=> About = {}
          /\ best # None => /\ best \in About
                            /\ \A q \in About : Covered(q) \subseteq Covered(best)
                                                  => Covered(q) = Covered(best)
      BY <2>2, BestIsNarrowest
    <2>4. /\ thread[c].outcome = "none"
          /\ thread = [d \in Threads |-> thread[d]]
          /\ thread[c] = [f \in Fields |-> thread[c][f]]
          /\ buckets = [r \in DOMAIN buckets |-> buckets[r]]
      BY <1>1 DEF RequestInv, OnItsWay
    <2>5. \/ best = None /\ GoTo(c, "before") /\ buckets' = buckets
          \/ best # None /\ buckets[best].tokens = 0 /\ AnswerWith(c, "limited") /\ buckets' = buckets
          \/ /\ best # None /\ buckets[best].tokens > 0
             /\ buckets' = Spent(buckets, best) /\ GoTo(c, "admitted")
      BY <2>1 DEF Limit
    <2> HIDE DEF best
    <2>6. CASE best = None
      <3>1. thread'[c].outcome = "none"
        BY <2>4, <2>5, <2>6 DEF GoTo, Fields, Idle
      <3>2. QED
        BY <2>3, <2>5, <2>6, <3>1
    <2>7. CASE best # None /\ buckets[best].tokens = 0 /\ AnswerWith(c, "limited")
                 /\ buckets' = buckets
      <3>1. thread'[c].outcome = "limited"
        BY <2>4, <2>7 DEF AnswerWith, Fields, Idle
      <3> HIDE DEF About
      <3>2. QED
        BY <2>3, <2>7, <3>1 DEF About
    <2>8. CASE best # None /\ buckets' = Spent(buckets, best) /\ GoTo(c, "admitted")
      <3>1. thread'[c].outcome = "none"
        BY <2>4, <2>8 DEF GoTo, Fields, Idle
      <3>2. buckets[best] \in Bucket
        BY <1>1, <2>3, <2>8 DEF RequestInv
      <3>3. /\ buckets'[best].tokens = buckets[best].tokens - 1
            /\ \A q \in DOMAIN buckets \ {best} : buckets'[q] = buckets[q]
        BY <2>3, <2>4, <2>8, <3>2 DEF Spent, Bucket
      <3> HIDE DEF About
      <3>4. QED
        BY <2>3, <2>8, <3>1, <3>3 DEF About
    <2>9. QED
      BY <2>5, <2>6, <2>7, <2>8
  <1>2. Init => RequestInv
    BY RequestInit
  <1>3. RequestInv /\ [Next]_vars => RequestInv'
    BY RequestStep
  <1> DEFINE Charged ==
        \A c \in Threads : thread[c].at = "limit" /\ thread'[c].at # "limit" =>
          LET About == {r \in DOMAIN buckets : Route(c) \in Covered(r)}
              Narrower(r, q) == Covered(r) \subseteq Covered(q) /\ Covered(r) # Covered(q)
              Refused == thread'[c].outcome = "limited"
          IN IF About = {} THEN buckets' = buckets /\ ~Refused
             ELSE \E r \in About :
                    /\ \A q \in About : ~Narrower(q, r)
                    /\ \A q \in DOMAIN buckets \ {r} : buckets'[q] = buckets[q]
                    /\ IF Refused THEN buckets[r].tokens = 0
                                  ELSE buckets'[r].tokens = buckets[r].tokens - 1
  <1>4. RequestInv /\ [Next]_vars => [Charged]_vars
    BY <1>1
  <1>5. ChargedByNarrowestRule <=> [][Charged]_vars
    BY PTL DEF ChargedByNarrowestRule
  <1> HIDE DEF Charged
  <1>6. QED
    BY <1>2, <1>3, <1>4, <1>5, PTL DEF Spec

===================================================================================
