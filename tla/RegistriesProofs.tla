---------------------------- MODULE RegistriesProofs ----------------------------
(***************************************************************************)
(* The registries, for any constants; StaticFiles and Manifest have the    *)
(* lemmas about them in ManifestProofs.                                    *)
(*                                                                         *)
(* Deployments: one live deployment per target, a succession that ends at  *)
(* it, and a rollback that undoes the promotion before it.  A promotion    *)
(* (set_status to deployed) and a rollback change the registry in the same *)
(* way: one deployment goes live, its target's live ones are demoted in    *)
(* its favour.  GoesLive is that step.                                     *)
(*                                                                         *)
(* The others: each registry has an invariant of its own (XOK, or a name   *)
(* that says what it is), the lemmas that its Init has it and its Next     *)
(* keeps it, and one that it gives the registry's property.  The steps of  *)
(* RegistriesNext are steps of one registry and stutters of the others, so *)
(* all the invariants hold together.                                       *)
(***************************************************************************)
EXTENDS ManifestProofs, FiniteSetTheorems

---------------------------------------------------------------------------------
\* The deployments.

\* After a promotion, only what it displaced is on record as replaced by the
\* live deployment: its id was never used before.
PromotionDisplacedOne ==
  \A t \in Targets : \A l \in Live(t) :
    displaced[t].by = "deploy" => \A c \in ReplacedBy(l) : c = displaced[t].live

IInv == TypeOK /\ AtMostOneLive /\ SuccessionLeadsToLive /\ PromotionDisplacedOne

Superseded == {d \in DOMAIN deployments : deployments[d].superseded_by # None}

\* Deployment x goes live on target t.
GoesLive(x, t) ==
  /\ x \in DOMAIN deployments
  /\ deployments[x].target = t
  /\ deployments[x].status # "Deployed"
  /\ deployments' =
       [e \in DOMAIN deployments |->
          IF e = x THEN Restored(deployments[x])
          ELSE IF e \in Live(t) THEN Demoted(deployments[e], x) ELSE deployments[e]]

---------------------------------------------------------------------------------
\* Shapes.

\* What TypeOK says of one deployment.
LEMMA RecordType ==
  ASSUME TypeOK, NEW d \in DOMAIN deployments
  PROVE  /\ d \in Ids
         /\ deployments[d] \in Deployment
         /\ DOMAIN deployments = 1 .. Len(deployments)
         /\ Len(deployments) \in Nat
  BY BoundAssumption DEF TypeOK, Ids

\* Rewriting the deployments in place, each to a deployment, keeps the list.
LEMMA Rewritten ==
  ASSUME TypeOK, DOMAIN deployments' = DOMAIN deployments,
         deployments' = [e \in DOMAIN deployments |-> deployments'[e]],
         \A e \in DOMAIN deployments : deployments'[e] \in Deployment
  PROVE  /\ deployments' \in Seq(Deployment)
         /\ Len(deployments') = Len(deployments)
  <1>1. /\ Len(deployments) \in Nat
        /\ DOMAIN deployments = 1 .. Len(deployments)
    BY DEF TypeOK
  <1>2. deployments' \in [1 .. Len(deployments) -> Deployment]
    BY <1>1
  <1>3. QED
    BY <1>1, <1>2

\* What the record of the history becomes.
LEMMA DisplacesType ==
  ASSUME TypeOK, NEW t \in Targets, NEW how \in {"deploy", "rollback"}
  PROVE  Displaces(t, Live(t), how)
           \in [Targets -> [live : Ids \cup {None}, by : {"deploy", "rollback"}]]
  <1> DEFINE l == IF Live(t) = {} THEN None ELSE CHOOSE d \in Live(t) : TRUE
  <1>1. Live(t) \subseteq Ids
    BY RecordType DEF Live
  <1>2. l \in Ids \cup {None}
    BY <1>1
  <1> HIDE DEF l
  <1>3. [live |-> l, by |-> how] \in [live : Ids \cup {None}, by : {"deploy", "rollback"}]
    BY <1>2
  <1>4. Displaces(t, Live(t), how) = [displaced EXCEPT ![t] = [live |-> l, by |-> how]]
    BY DEF Displaces, l
  <1>5. QED
    BY <1>3, <1>4 DEF TypeOK

---------------------------------------------------------------------------------
\* One deployment goes live.

\* Going live keeps the registry well formed, and leaves exactly one deployment
\* live on the target.
LEMMA GoesLiveEffect ==
  ASSUME TypeOK, NEW x, NEW t \in Targets, GoesLive(x, t)
  PROVE  /\ DOMAIN deployments' = DOMAIN deployments
         /\ deployments' \in Seq(Deployment)
         /\ Len(deployments') <= MaxDeployments
         /\ Live(t)' = {x}
         /\ \A u \in Targets : u # t => Live(u)' = Live(u)
  <1>1. DOMAIN deployments' = DOMAIN deployments
    BY DEF GoesLive
  <1>2. \A e \in DOMAIN deployments : deployments'[e] \in Deployment
    <2> SUFFICES ASSUME NEW e \in DOMAIN deployments
                 PROVE  deployments'[e] \in Deployment
      OBVIOUS
    <2>1. /\ deployments[e] \in Deployment
          /\ deployments[x] \in Deployment
          /\ x \in Ids
      BY RecordType DEF GoesLive
    <2>2. /\ Restored(deployments[x]) \in Deployment
          /\ Demoted(deployments[e], x) \in Deployment
      BY <2>1 DEF Restored, Demoted, Deployment, Statuses
    <2>3. QED
      BY <2>1, <2>2 DEF GoesLive
  <1>3. deployments' = [e \in DOMAIN deployments |-> deployments'[e]]
    BY DEF GoesLive
  <1>4. /\ deployments' \in Seq(Deployment)
        /\ Len(deployments') = Len(deployments)
    BY <1>1, <1>2, <1>3, Rewritten
  <1>5. Len(deployments') <= MaxDeployments
    BY <1>4 DEF TypeOK
  <1>6. \A e \in DOMAIN deployments : deployments'[e].target = deployments[e].target
    BY DEF GoesLive, Restored, Demoted
  <1>7. Live(t)' = {x}
    BY <1>1, <1>6 DEF GoesLive, Live, Restored, Demoted
  <1>8. \A u \in Targets : u # t => Live(u)' = Live(u)
    BY <1>1, <1>6 DEF GoesLive, Live, Restored, Demoted
  <1>9. QED
    BY <1>1, <1>4, <1>5, <1>7, <1>8

\* Going live keeps one live deployment per target and the succession a tree
\* that ends there.
LEMMA GoesLiveKeepsSuccession ==
  ASSUME TypeOK, AtMostOneLive, SuccessionLeadsToLive,
         NEW x, NEW t \in Targets, GoesLive(x, t)
  PROVE  AtMostOneLive' /\ SuccessionLeadsToLive'
  <1> DEFINE D == DOMAIN deployments
  <1>1. /\ DOMAIN deployments' = D
        /\ Live(t)' = {x}
        /\ \A u \in Targets : u # t => Live(u)' = Live(u)
    BY GoesLiveEffect
  <1>2. AtMostOneLive'
    BY <1>1 DEF AtMostOneLive
  <1>3. x \in D /\ deployments[x].target = t /\ x # None
    BY RecordType, NoneAssumption DEF GoesLive
  <1>4. /\ deployments'[x].target = t
        /\ deployments'[x].status = "Deployed"
        /\ deployments'[x].superseded_by = None
    BY <1>3 DEF GoesLive, Restored
  <1>5. \A e \in Live(t) : /\ e \in D
                           /\ e # x
                           /\ deployments[e].target = t
                           /\ deployments'[e].target = t
                           /\ deployments'[e].status = "Failed"
                           /\ deployments'[e].superseded_by = x
    BY DEF GoesLive, Live, Demoted
  <1>6. \A e \in D : e # x /\ e \notin Live(t) => deployments'[e] = deployments[e]
    BY DEF GoesLive
  <1>7. Superseded' = (Superseded \cup Live(t)) \ {x}
    BY <1>1, <1>3, <1>4, <1>5, <1>6 DEF Superseded
  <1>8. /\ \A d \in Superseded :
             /\ deployments[d].status = "Failed"
             /\ deployments[d].superseded_by \in D
             /\ deployments[deployments[d].superseded_by].target = deployments[d].target
             /\ \/ deployments[d].superseded_by \in Superseded
                \/ deployments[deployments[d].superseded_by].status = "Deployed"
        /\ \A S \in SUBSET Superseded :
             S # {} => \E d \in S : deployments[d].superseded_by \notin S
    BY DEF SuccessionLeadsToLive, Superseded
  <1>9. ASSUME NEW d \in Superseded'
        PROVE  /\ deployments'[d].status = "Failed"
               /\ deployments'[d].superseded_by \in D
               /\ deployments'[deployments'[d].superseded_by].target = deployments'[d].target
               /\ \/ deployments'[d].superseded_by \in Superseded'
                  \/ deployments'[deployments'[d].superseded_by].status = "Deployed"
    <2>1. CASE d \in Live(t)
      BY <2>1, <1>3, <1>4, <1>5
    <2>2. CASE d \notin Live(t)
      <3> DEFINE e == deployments[d].superseded_by
      <3>1. d \in Superseded /\ d # x /\ deployments'[d] = deployments[d]
        BY <2>2, <1>6, <1>7, <1>8 DEF Superseded
      <3>2. /\ e \in D
            /\ deployments[e].target = deployments[d].target
            /\ e \in Superseded \/ deployments[e].status = "Deployed"
            /\ deployments[d].status = "Failed"
        BY <3>1, <1>8
      <3>3. CASE e = x
        BY <3>1, <3>2, <3>3, <1>3, <1>4
      <3>4. CASE e # x /\ e \in Live(t)
        BY <3>1, <3>2, <3>4, <1>5, <1>7
      <3>5. CASE e # x /\ e \notin Live(t)
        BY <3>1, <3>2, <3>5, <1>6, <1>7
      <3>6. QED
        BY <3>3, <3>4, <3>5
    <2>3. QED
      BY <2>1, <2>2
  <1>10. ASSUME NEW S \in SUBSET Superseded', S # {}
         PROVE  \E d \in S : deployments'[d].superseded_by \notin S
    <2>1. CASE \E l \in Live(t) : l \in S
      BY <2>1, <1>5, <1>7
    <2>2. CASE \A l \in Live(t) : l \notin S
      <3>1. S \in SUBSET Superseded
        BY <2>2, <1>7
      <3>2. PICK d \in S : deployments[d].superseded_by \notin S
        BY <3>1, <1>8, <1>10
      <3>3. deployments'[d] = deployments[d]
        BY <2>2, <1>6, <1>7, <3>1, <3>2 DEF Superseded
      <3>4. QED
        BY <3>2, <3>3
    <2>3. QED
      BY <2>1, <2>2
  <1>11. SuccessionLeadsToLive'
    BY <1>1, <1>9, <1>10 DEF SuccessionLeadsToLive, Superseded
  <1>12. QED
    BY <1>2, <1>11

\* A deployment that is neither live nor superseded has replaced nothing, and
\* one still in the pipeline is not superseded.
LEMMA UnprovenReplacedNothing ==
  ASSUME SuccessionLeadsToLive, NEW d \in DOMAIN deployments
  PROVE  /\ deployments[d].status # "Failed" => deployments[d].superseded_by = None
         /\ deployments[d].status # "Deployed" /\ deployments[d].superseded_by = None
              => \A c \in DOMAIN deployments :
                   deployments[c].superseded_by # None => deployments[c].superseded_by # d
  BY DEF SuccessionLeadsToLive

\* set_status to deployed is a promotion of d.
LEMMA SetStatusGoesLive ==
  ASSUME TypeOK, SuccessionLeadsToLive, NEW d \in Ids, SetStatus(d, "Deployed")
  PROVE  /\ deployments[d].target \in Targets
         /\ GoesLive(d, deployments[d].target)
         /\ deployments[d].superseded_by = None
         /\ displaced' = Displaces(deployments[d].target, Live(deployments[d].target), "deploy")
  <1>1. d \in DOMAIN deployments /\ deployments[d].status = "Deploying"
    BY DEF SetStatus, Transitions
  <1>2. deployments[d] \in Deployment /\ deployments[d].superseded_by = None
    BY <1>1, RecordType, UnprovenReplacedNothing
  <1>3. InStatus(deployments[d], "Deployed") = Restored(deployments[d])
    BY <1>2 DEF InStatus, Restored
  <1>4. QED
    BY <1>1, <1>2, <1>3 DEF SetStatus, GoesLive, Deployment

\* rollback is a promotion of a deployment the live one replaced.
LEMMA RollbackGoesLive ==
  ASSUME TypeOK, SuccessionLeadsToLive, NEW t \in Targets, Rollback(t)
  PROVE  \E l \in Live(t) : \E c \in ReplacedBy(l) :
           /\ GoesLive(c, t)
           /\ displaced' = Displaces(t, Live(t), "rollback")
  <1>1. PICK l \in Live(t) : \E c \in ReplacedBy(l) :
          /\ deployments' =
               [e \in DOMAIN deployments |->
                  IF e = c THEN Restored(deployments[c])
                  ELSE IF e \in Live(t) THEN Demoted(deployments[e], c) ELSE deployments[e]]
          /\ displaced' = Displaces(t, Live(t), "rollback")
    BY DEF Rollback
  <1>2. PICK c \in ReplacedBy(l) :
          /\ deployments' =
               [e \in DOMAIN deployments |->
                  IF e = c THEN Restored(deployments[c])
                  ELSE IF e \in Live(t) THEN Demoted(deployments[e], c) ELSE deployments[e]]
          /\ displaced' = Displaces(t, Live(t), "rollback")
    BY <1>1
  <1>3. /\ l \in DOMAIN deployments
        /\ l # None
        /\ deployments[l].target = t
    BY RecordType, NoneAssumption DEF Live
  <1>4. /\ c \in DOMAIN deployments
        /\ deployments[c].superseded_by = l
    BY DEF ReplacedBy
  <1>5. deployments[c].target = t /\ deployments[c].status = "Failed"
    BY <1>3, <1>4 DEF SuccessionLeadsToLive
  <1>6. GoesLive(c, t)
    BY <1>2, <1>4, <1>5 DEF GoesLive
  <1>7. QED
    BY <1>2, <1>6

---------------------------------------------------------------------------------
\* The invariant.

\* The empty registry satisfies it.
LEMMA InitIInv == Init => IInv
  <1> SUFFICES ASSUME Init PROVE IInv
    OBVIOUS
  <1>1. deployments = <<>> /\ DOMAIN deployments = {}
    BY DEF Init
  <1>2. TypeOK
    BY <1>1, BoundAssumption DEF Init, TypeOK
  <1>3. AtMostOneLive /\ PromotionDisplacedOne
    BY <1>1 DEF AtMostOneLive, PromotionDisplacedOne, Live
  <1>4. SuccessionLeadsToLive
    BY <1>1 DEF SuccessionLeadsToLive
  <1>5. QED
    BY <1>2, <1>3, <1>4 DEF IInv

\* A step that gives no deployment another target, status "Deployed" or
\* superseded_by, and takes none away from the live ones.
Quiet ==
  /\ DOMAIN deployments \subseteq DOMAIN deployments'
  /\ \A d \in DOMAIN deployments :
       /\ deployments'[d].target = deployments[d].target
       /\ deployments'[d].superseded_by = deployments[d].superseded_by
       /\ deployments'[d].status = "Deployed" <=> deployments[d].status = "Deployed"
       /\ deployments[d].status = "Failed" => deployments'[d].status = "Failed"
  /\ \A d \in DOMAIN deployments' : d \notin DOMAIN deployments =>
       deployments'[d].superseded_by = None /\ deployments'[d].status # "Deployed"
  /\ UNCHANGED displaced

\* Creating a deployment is quiet and keeps the types.
LEMMA CreateQuiet ==
  ASSUME TypeOK, NEW t \in Targets, Create(t)
  PROVE  TypeOK' /\ Quiet
  <1> DEFINE r == [target |-> t, status |-> "Queued", superseded_by |-> None]
  <1>1. r \in Deployment
    BY DEF Deployment, Statuses
  <1> HIDE DEF r
  <1>2. deployments' = Append(deployments, r) /\ UNCHANGED displaced
    BY DEF Create, r
  <1>3. Len(deployments) \in Nat /\ DOMAIN deployments = 1 .. Len(deployments)
    BY DEF TypeOK
  <1>4. /\ deployments' \in Seq(Deployment)
        /\ Len(deployments') = Len(deployments) + 1
        /\ DOMAIN deployments' = 1 .. Len(deployments) + 1
        /\ \A d \in DOMAIN deployments : deployments'[d] = deployments[d]
        /\ deployments'[Len(deployments) + 1] = r
    BY <1>1, <1>2 DEF TypeOK
  <1>5. TypeOK'
    BY <1>2, <1>3, <1>4, BoundAssumption DEF TypeOK, Create
  <1>6. r.superseded_by = None /\ r.status # "Deployed"
    BY DEF r
  <1>7. Quiet
    BY <1>2, <1>3, <1>4, <1>6 DEF Quiet
  <1>8. QED
    BY <1>5, <1>7

\* So is a transition that does not go live.
LEMMA SetStatusQuiet ==
  ASSUME TypeOK, NEW d \in Ids, NEW s \in Statuses, s # "Deployed", SetStatus(d, s)
  PROVE  TypeOK' /\ Quiet
  <1>1. /\ d \in DOMAIN deployments
        /\ deployments[d].status \notin {"Deployed", "Failed"}
        /\ displaced' = displaced
    BY DEF SetStatus, Transitions
  <1>2. deployments' = [e \in DOMAIN deployments |->
                          IF e = d THEN InStatus(deployments[d], s) ELSE deployments[e]]
    BY DEF SetStatus
  <1>3. \A e \in DOMAIN deployments : deployments'[e] \in Deployment
    BY <1>1, <1>2, RecordType DEF InStatus, Deployment
  <1>4. DOMAIN deployments' = DOMAIN deployments
        /\ deployments' = [e \in DOMAIN deployments |-> deployments'[e]]
    BY <1>2
  <1>5. deployments' \in Seq(Deployment) /\ Len(deployments') = Len(deployments)
    BY <1>3, <1>4, Rewritten
  <1>6. TypeOK'
    BY <1>1, <1>5 DEF TypeOK
  <1>7. Quiet
    BY <1>1, <1>2, <1>4 DEF Quiet, InStatus
  <1>8. QED
    BY <1>6, <1>7

\* A quiet step keeps the succession.
LEMMA QuietKeepsIInv ==
  ASSUME IInv, TypeOK', Quiet
  PROVE  IInv'
  <1>1. \A t \in Targets : Live(t)' = Live(t)
    BY DEF Quiet, Live
  <1>2. Superseded' = Superseded
    BY DEF Quiet, Superseded
  <1>3. \A c \in Ids : ReplacedBy(c)' = ReplacedBy(c)
    BY NoneAssumption DEF Quiet, ReplacedBy, IInv, TypeOK
  <1>4. AtMostOneLive'
    BY <1>1 DEF AtMostOneLive, IInv
  <1>5. PromotionDisplacedOne'
    <2>1. \A t \in Targets : Live(t) \subseteq Ids
      BY RecordType DEF Live, IInv
    <2>2. QED
      BY <1>1, <1>3, <2>1 DEF PromotionDisplacedOne, IInv, Quiet
  <1>6. SuccessionLeadsToLive'
    <2>1. ASSUME NEW d \in Superseded'
          PROVE  /\ deployments'[d].status = "Failed"
                 /\ deployments'[d].superseded_by \in DOMAIN deployments'
                 /\ deployments'[deployments'[d].superseded_by].target
                      = deployments'[d].target
                 /\ \/ deployments'[d].superseded_by \in Superseded'
                    \/ deployments'[deployments'[d].superseded_by].status = "Deployed"
      <3>1. d \in Superseded /\ d \in DOMAIN deployments
        BY <1>2, <2>1 DEF Superseded
      <3>2. /\ deployments[d].status = "Failed"
            /\ deployments[d].superseded_by \in DOMAIN deployments
            /\ deployments[deployments[d].superseded_by].target = deployments[d].target
            /\ \/ deployments[d].superseded_by \in Superseded
               \/ deployments[deployments[d].superseded_by].status = "Deployed"
        BY <3>1 DEF SuccessionLeadsToLive, Superseded, IInv
      <3>3. QED
        BY <1>2, <3>1, <3>2 DEF Quiet
    <2>2. ASSUME NEW S \in SUBSET Superseded', S # {}
          PROVE  \E d \in S : deployments'[d].superseded_by \notin S
      <3>1. S \in SUBSET Superseded
        BY <1>2
      <3>2. PICK d \in S : deployments[d].superseded_by \notin S
        BY <2>2, <3>1 DEF SuccessionLeadsToLive, Superseded, IInv
      <3>3. QED
        BY <3>1, <3>2 DEF Quiet, Superseded
    <2>3. QED
      BY <2>1, <2>2 DEF SuccessionLeadsToLive, Superseded
  <1>7. QED
    BY <1>4, <1>5, <1>6 DEF IInv

\* A promotion, given what the history records of it.
LEMMA GoesLiveKeepsIInv ==
  ASSUME IInv, NEW x, NEW t \in Targets, NEW how \in {"deploy", "rollback"},
         GoesLive(x, t), displaced' = Displaces(t, Live(t), how),
         how = "deploy" => deployments[x].superseded_by = None
  PROVE  IInv'
  <1>1. /\ DOMAIN deployments' = DOMAIN deployments
        /\ deployments' \in Seq(Deployment)
        /\ Len(deployments') <= MaxDeployments
        /\ Live(t)' = {x}
        /\ \A u \in Targets : u # t => Live(u)' = Live(u)
    BY GoesLiveEffect DEF IInv
  <1>2. AtMostOneLive' /\ SuccessionLeadsToLive'
    BY GoesLiveKeepsSuccession DEF IInv
  <1>3. TypeOK'
    BY <1>1, DisplacesType DEF TypeOK, IInv
  <1>4. ASSUME NEW u \in Targets, NEW l \in Live(u)', displaced'[u].by = "deploy",
               NEW c \in ReplacedBy(l)'
        PROVE  c = displaced'[u].live
    <2>1. c \in DOMAIN deployments /\ deployments'[c].superseded_by = l
      BY <1>1, <1>4 DEF ReplacedBy
    <2>2. CASE u = t
      <3>1. l = x /\ x # None /\ x \in DOMAIN deployments
        BY <1>1, <2>2, RecordType, NoneAssumption DEF GoesLive, IInv
      <3>2. how = "deploy" /\ displaced'[t] = [live |-> IF Live(t) = {} THEN None
                                                  ELSE CHOOSE d \in Live(t) : TRUE, by |-> how]
        BY <1>4, <2>2 DEF Displaces, IInv, TypeOK
      <3>3. deployments[c].superseded_by # x
        BY <3>1, <3>2, <2>1, UnprovenReplacedNothing DEF IInv, GoesLive
      <3>4. c \in Live(t)
        BY <2>1, <3>1, <3>3 DEF GoesLive, Restored
      <3>5. QED
        BY <2>2, <3>2, <3>4 DEF AtMostOneLive, IInv
    <2>3. CASE u # t
      <3>1. l \in Live(u) /\ l # x /\ l # None
        BY <1>1, <2>3, RecordType, NoneAssumption DEF Live, GoesLive, IInv
      <3>2. deployments[c].superseded_by = l
        BY <2>1, <3>1 DEF GoesLive, Restored, Demoted
      <3>3. displaced'[u] = displaced[u]
        BY <2>3 DEF Displaces, IInv, TypeOK
      <3>4. QED
        BY <1>4, <2>1, <3>1, <3>2, <3>3 DEF PromotionDisplacedOne, ReplacedBy, IInv
    <2>4. QED
      BY <2>2, <2>3
  <1>5. PromotionDisplacedOne'
    BY <1>4 DEF PromotionDisplacedOne
  <1>6. QED
    BY <1>2, <1>3, <1>5 DEF IInv

\* Every operation keeps the invariant.
LEMMA NextIInv == IInv /\ [Next]_vars => IInv'
  <1> SUFFICES ASSUME IInv, [Next]_vars PROVE IInv'
    OBVIOUS
  <1>1. TypeOK /\ SuccessionLeadsToLive
    BY DEF IInv
  <1>2. ASSUME NEW t \in Targets, Create(t) PROVE IInv'
    BY <1>1, <1>2, CreateQuiet, QuietKeepsIInv
  <1>3. ASSUME NEW t \in Targets, Rollback(t) PROVE IInv'
    <2>1. PICK l \in Live(t) : \E c \in ReplacedBy(l) :
            GoesLive(c, t) /\ displaced' = Displaces(t, Live(t), "rollback")
      BY <1>1, <1>3, RollbackGoesLive
    <2>2. PICK c \in ReplacedBy(l) :
            GoesLive(c, t) /\ displaced' = Displaces(t, Live(t), "rollback")
      BY <2>1
    <2>3. QED
      BY <2>2, GoesLiveKeepsIInv
  <1>4. ASSUME NEW d \in Ids, NEW s \in Statuses, SetStatus(d, s) PROVE IInv'
    <2>1. CASE s = "Deployed"
      BY <1>1, <1>4, <2>1, SetStatusGoesLive, GoesLiveKeepsIInv
    <2>2. CASE s # "Deployed"
      BY <1>1, <1>4, <2>2, SetStatusQuiet, QuietKeepsIInv
    <2>3. QED
      BY <2>1, <2>2
  <1>5. CASE UNCHANGED vars
    <2>1. deployments' = deployments /\ displaced' = displaced
      BY <1>5 DEF vars
    <2>2. TypeOK'
      BY <1>1, <2>1 DEF TypeOK
    <2>3. Quiet
      BY <2>1 DEF Quiet
    <2>4. QED
      BY <2>2, <2>3, QuietKeepsIInv
  <1>6. QED
    BY <1>2, <1>3, <1>4, <1>5 DEF Next

\* The invariant holds throughout.
LEMMA Invariance == Spec => []IInv
  BY InitIInv, NextIInv, PTL DEF Spec

---------------------------------------------------------------------------------
\* The theorems.

\* The registry stays well formed under any sequence of calls.
THEOREM TypeCorrect == Spec => []TypeOK
  <1>1. IInv => TypeOK
    BY DEF IInv
  <1>2. QED
    BY <1>1, Invariance, PTL

\* No sequence of promotions and rollbacks leaves a target with two live
\* deployments.
THEOREM OneLive == Spec => []AtMostOneLive
  <1>1. IInv => AtMostOneLive
    BY DEF IInv
  <1>2. QED
    BY <1>1, Invariance, PTL

\* Following superseded_by always ends at the live deployment.
THEOREM SuccessionSound == Spec => []SuccessionLeadsToLive
  <1>1. IInv => SuccessionLeadsToLive
    BY DEF IInv
  <1>2. QED
    BY <1>1, Invariance, PTL

\* What a step does to the live deployments and to those that never were live.
LEMMA StepShape ==
  ASSUME IInv, [Next]_vars
  PROVE  \/ Quiet
         \/ \E t \in Targets : \E x \in DOMAIN deployments :
              /\ GoesLive(x, t)
              /\ deployments[x].superseded_by # None \/ deployments[x].status = "Deploying"
  <1>1. TypeOK /\ SuccessionLeadsToLive
    BY DEF IInv
  <1>2. ASSUME NEW t \in Targets, Create(t) PROVE Quiet
    BY <1>1, <1>2, CreateQuiet
  <1>3. ASSUME NEW t \in Targets, Rollback(t)
        PROVE  \E x \in DOMAIN deployments :
                 GoesLive(x, t) /\ deployments[x].superseded_by # None
    <2>1. PICK l \in Live(t) : \E c \in ReplacedBy(l) : GoesLive(c, t)
      BY <1>1, <1>3, RollbackGoesLive
    <2>2. PICK c \in ReplacedBy(l) : GoesLive(c, t)
      BY <2>1
    <2>3. l # None
      BY <1>1, RecordType, NoneAssumption DEF Live
    <2>4. QED
      BY <2>2, <2>3 DEF ReplacedBy
  <1>4. ASSUME NEW d \in Ids, NEW s \in Statuses, SetStatus(d, s)
        PROVE  \/ Quiet
               \/ \E t \in Targets : \E x \in DOMAIN deployments :
                    GoesLive(x, t) /\ deployments[x].status = "Deploying"
    <2>1. CASE s = "Deployed"
      <3>1. d \in DOMAIN deployments /\ deployments[d].status = "Deploying"
        BY <1>4, <2>1 DEF SetStatus, Transitions
      <3>2. QED
        BY <1>1, <1>4, <2>1, <3>1, SetStatusGoesLive
    <2>2. CASE s # "Deployed"
      BY <1>1, <1>4, <2>2, SetStatusQuiet
    <2>3. QED
      BY <2>1, <2>2
  <1>5. CASE UNCHANGED vars
    BY <1>5 DEF vars, Quiet
  <1>6. QED
    BY <1>2, <1>3, <1>4, <1>5 DEF Next

\* A target that is live stays live.
THEOREM StaysLive == Spec => NeverGoesDark
  <1>1. ASSUME IInv, [Next]_vars
        PROVE  [\A t \in Targets : Live(t) # {} => Live(t)' # {}]_vars
    <2>1. CASE Quiet
      <3>1. \A t \in Targets : Live(t)' = Live(t)
        BY <2>1 DEF Quiet, Live
      <3>2. QED
        BY <3>1
    <2>2. ASSUME NEW t \in Targets, NEW x \in DOMAIN deployments, GoesLive(x, t)
          PROVE  \A u \in Targets : Live(u) # {} => Live(u)' # {}
      BY <1>1, <2>2, GoesLiveEffect DEF IInv
    <2>3. QED
      BY <1>1, <2>1, <2>2, StepShape
  <1>2. QED
    BY <1>1, Invariance, PTL DEF Spec, NeverGoesDark

\* Only what came out of the pipeline, or was live before, goes live.
THEOREM OnlyProvenGoLive == Spec => FailedBuildsStayDown
  <1> DEFINE Stays ==
        \A d \in DOMAIN deployments :
          deployments[d].status \in {"Queued", "Building", "Failed"}
            /\ deployments[d].superseded_by = None
            => deployments'[d].status # "Deployed" /\ deployments'[d].superseded_by = None
  <1>1. ASSUME IInv, [Next]_vars
        PROVE  [Stays]_vars
    <2>1. CASE Quiet
      BY <2>1 DEF Quiet
    <2>2. ASSUME NEW t \in Targets, NEW x \in DOMAIN deployments, GoesLive(x, t),
                 deployments[x].superseded_by # None \/ deployments[x].status = "Deploying"
          PROVE  Stays
      <3>1. SUFFICES ASSUME NEW d \in DOMAIN deployments,
                            deployments[d].status \in {"Queued", "Building", "Failed"},
                            deployments[d].superseded_by = None
                     PROVE  deployments'[d] = deployments[d]
        BY <3>1
      <3>2. d # x /\ d \notin Live(t)
        BY <2>2, <3>1 DEF Live
      <3>3. QED
        BY <2>2, <3>2 DEF GoesLive
    <2>3. QED
      BY <1>1, <2>1, <2>2, StepShape
  <1>2. QED
    BY <1>1, Invariance, PTL DEF Spec, FailedBuildsStayDown

\* A rollback undoes the promotion right before it.
THEOREM RollbackInverts == Spec => RollbackUndoesDeploy
  <1> DEFINE Undoes ==
        \A t \in Targets :
          Rollback(t) /\ displaced[t].by = "deploy" => Live(t)' = {displaced[t].live}
  <1>1. ASSUME IInv PROVE Undoes
    <2>1. SUFFICES ASSUME NEW t \in Targets, Rollback(t), displaced[t].by = "deploy"
                   PROVE  Live(t)' = {displaced[t].live}
      OBVIOUS
    <2>2. PICK l \in Live(t) : \E c \in ReplacedBy(l) : GoesLive(c, t)
      BY <1>1, <2>1, RollbackGoesLive DEF IInv
    <2>3. PICK c \in ReplacedBy(l) : GoesLive(c, t)
      BY <2>2
    <2>4. c = displaced[t].live
      BY <1>1, <2>1, <2>3 DEF PromotionDisplacedOne, IInv
    <2>5. QED
      BY <1>1, <2>3, <2>4, GoesLiveEffect DEF IInv
  <1>2. QED
    BY <1>1, Invariance, PTL DEF Spec, RollbackUndoesDeploy

---------------------------------------------------------------------------------
\* The room hub.

\* The members are those who joined the room, each once.
Seated(members, r, J) ==
  /\ members \in Seq(Conns) /\ Distinct(members)
  /\ \A c \in Conns : Contains(members, c) <=> <<c, r>> \in J

HubOK ==
  /\ \A r \in DOMAIN rooms : r \in Rooms /\ rooms[r] # <<>>
  /\ \A r \in Rooms : Seated(Hub!Members(r), r, joined)

LEMMA NobodySeated ==
  ASSUME NEW r, NEW J, \A c \in Conns : <<c, r>> \notin J
  PROVE  Seated(<<>>, r, J)
  BY EmptySeq DEF Seated, Distinct, Contains

\* One more.
LEMMA SeatedJoin ==
  ASSUME NEW m, NEW r, NEW J, NEW K, NEW c \in Conns, Seated(m, r, J), ~ Contains(m, c),
         \A d \in Conns : <<d, r>> \in K <=> <<d, r>> \in J \/ d = c
  PROVE  Seated(Append(m, c), r, K)
  <1>1. m \in Seq(Conns) /\ Distinct(m)
    BY DEF Seated
  <1>2. Append(m, c) \in Seq(Conns) /\ Distinct(Append(m, c))
    BY <1>1, AppendDistinct, AppendProperties
  <1>3. \A x : Contains(Append(m, c), x) <=> Contains(m, x) \/ x = c
    BY <1>1, AppendContains
  <1>4. QED
    BY <1>2, <1>3 DEF Seated

LEMMA SeatedSame ==
  ASSUME NEW m, NEW r, NEW J, NEW K, Seated(m, r, J),
         \A d \in Conns : <<d, r>> \in K <=> <<d, r>> \in J
  PROVE  Seated(m, r, K)
  BY DEF Seated

\* One less, by its place or by its name.
LEMMA SeatedLeave ==
  ASSUME NEW m, NEW r, NEW J, NEW K, NEW p \in DOMAIN m, Seated(m, r, J),
         \A d \in Conns : <<d, r>> \in K <=> <<d, r>> \in J /\ d # m[p]
  PROVE  Seated(RemoveAt(m, p), r, K)
  <1>1. m \in Seq(Conns) /\ Distinct(m) /\ p \in 1 .. Len(m)
    BY LenProperties DEF Seated
  <1>2. RemoveAt(m, p) \in Seq(Conns)
    BY <1>1, RemoveAtElements
  <1>3. /\ Distinct(RemoveAt(m, p))
        /\ \A x : Contains(RemoveAt(m, p), x) <=> Contains(m, x) /\ x # m[p]
    BY <1>1, RemoveAtDistinct
  <1>4. QED
    BY <1>2, <1>3 DEF Seated

LEMMA SeatedWithout ==
  ASSUME NEW m, NEW r, NEW J, NEW K, NEW c, Seated(m, r, J),
         \A d \in Conns : <<d, r>> \in K <=> <<d, r>> \in J /\ d # c
  PROVE  Seated(Kept(m, Conns \ {c}), r, K)
  <1>1. m \in Seq(Conns) /\ Distinct(m)
    BY DEF Seated
  <1> DEFINE others == Conns \ {c}
             k == Kept(m, others)
  <1>2. \A x : x \in others <=> x \in Conns /\ x # c
    OBVIOUS
  <1> HIDE DEF others
  <1>3. k \in Seq(Conns)
    BY <1>1, KeptIn
  <1>4. /\ \A x : Contains(k, x) <=> Contains(m, x) /\ x \in others
        /\ Distinct(k)
    BY <1>1, KeptContains
  <1> HIDE DEF k
  <1>5. Seated(k, r, K)
    BY <1>2, <1>3, <1>4 DEF Seated
  <1>6. QED
    BY <1>5 DEF k, others

LEMMA HubContains == \A s, e : Hub!Contains(s, e) <=> Contains(s, e)
  BY DEF Hub!Contains, Contains
LEMMA HubKept == \A s, S : Hub!Kept(s, S) = Kept(s, S)
  BY Zenon DEF Hub!Kept, Hub!KeptUpTo, Kept, KeptUpTo
LEMMA HubRemoveAt == \A s, p : Hub!RemoveAt(s, p) = RemoveAt(s, p)
  BY Zenon DEF Hub!RemoveAt, RemoveAt

LEMMA HubInit == Hub!Init => HubOK
  <1> SUFFICES ASSUME Hub!Init PROVE HubOK
    OBVIOUS
  <1>1. rooms = [r \in {} |-> <<>>] /\ joined = {}
    BY DEF Hub!Init
  <1>2. ASSUME NEW r \in Rooms PROVE Seated(Hub!Members(r), r, joined)
    <2>1. Hub!Members(r) = <<>>
      BY <1>1 DEF Hub!Members
    <2>2. QED
      BY <1>1, <2>1, NobodySeated
  <1>3. QED
    BY <1>1, <1>2 DEF HubOK

\* A table that only has rooms somebody is in shows the same members as one that has all.
LEMMA Pruned ==
  ASSUME NEW f, rooms' = Hub!Holding(f), DOMAIN f \subseteq Rooms,
         \A r \in DOMAIN f : Seated(f[r], r, joined'),
         \A r \in Rooms \ DOMAIN f : \A c \in Conns : <<c, r>> \notin joined'
  PROVE  HubOK'
  <1>1. rooms' = [r \in {s \in DOMAIN f : f[s] # <<>>} |-> f[r]]
    BY DEF Hub!Holding
  <1>2. \A r \in DOMAIN rooms' : r \in Rooms /\ rooms'[r] # <<>>
    BY <1>1
  <1>3. ASSUME NEW r \in Rooms PROVE Seated(Hub!Members(r)', r, joined')
    <2>1. Hub!Members(r)' = IF r \in DOMAIN f THEN f[r] ELSE <<>>
      BY <1>1 DEF Hub!Members
    <2>2. CASE r \in DOMAIN f
      BY <2>1, <2>2
    <2>3. CASE r \notin DOMAIN f
      BY <2>1, <2>3, NobodySeated
    <2>4. QED
      BY <2>2, <2>3
  <1>4. QED
    BY <1>2, <1>3 DEF HubOK, Seated

LEMMA AppendsSomething ==
  ASSUME NEW X, NEW s \in Seq(X), NEW e \in X
  PROVE  Append(s, e) # <<>>
  BY AppendProperties

LEMMA HubJoins ==
  ASSUME HubOK, NEW c \in Conns, NEW R \in SUBSET Rooms,
         \A r \in R : ~ Contains(Hub!Members(r), c),
         rooms' = [r \in DOMAIN rooms \cup R |->
                     IF r \in R THEN Append(Hub!Members(r), c) ELSE rooms[r]],
         joined' = joined \cup ({c} \X R)
  PROVE  HubOK'
  <1>1. ASSUME NEW r \in Rooms PROVE Seated(Hub!Members(r)', r, joined')
    <2>1. Seated(Hub!Members(r), r, joined)
      BY DEF HubOK
    <2>2. CASE r \in R
      <3>1. Hub!Members(r)' = Append(Hub!Members(r), c)
        BY <2>2 DEF Hub!Members
      <3>2. \A d \in Conns : <<d, r>> \in joined' <=> <<d, r>> \in joined \/ d = c
        BY <2>2
      <3> DEFINE m == Hub!Members(r)
      <3>3. Seated(m, r, joined) /\ ~ Contains(m, c)
        BY <2>1, <2>2
      <3> HIDE DEF m
      <3>4. Seated(Append(m, c), r, joined')
        BY <3>2, <3>3, SeatedJoin
      <3>5. QED
        BY <3>1, <3>4 DEF m
    <2>3. CASE r \notin R
      <3>1. Hub!Members(r)' = Hub!Members(r)
        BY <2>3 DEF Hub!Members
      <3>2. \A d \in Conns : <<d, r>> \in joined' <=> <<d, r>> \in joined
        BY <2>3
      <3>3. QED
        BY <2>1, <3>1, <3>2, SeatedSame
    <2>4. QED
      BY <2>2, <2>3
  <1>2. ASSUME NEW r \in DOMAIN rooms' PROVE r \in Rooms /\ rooms'[r] # <<>>
    <2>1. CASE r \in R
      <3>1. rooms'[r] = Append(Hub!Members(r), c) /\ r \in Rooms
        BY <2>1
      <3>2. Hub!Members(r) \in Seq(Conns)
        BY <3>1 DEF HubOK, Seated
      <3>3. QED
        BY <3>1, <3>2, AppendsSomething
    <2>2. CASE r \notin R
      BY <2>2 DEF HubOK
    <2>3. QED
      BY <2>1, <2>2
  <1>3. QED
    BY <1>1, <1>2 DEF HubOK

LEMMA HubNext ==
  ASSUME HubOK, [Hub!Next]_hubVars
  PROVE  HubOK'
  <1>1. ASSUME NEW c \in Conns, NEW R \in SUBSET Rooms, Hub!Connect(c, R)
        PROVE  HubOK'
    <2>1. /\ \A r \in R : ~ Contains(Hub!Members(r), c)
          /\ rooms' = [r \in DOMAIN rooms \cup R |->
                         IF r \in R THEN Append(Hub!Members(r), c) ELSE rooms[r]]
          /\ joined' = joined \cup ({c} \X R)
      BY <1>1, HubContains DEF Hub!Connect
    <2>2. QED
      BY <2>1, HubJoins
  <1>2. ASSUME NEW c \in Conns, NEW r \in Rooms, Hub!Join(c, r)
        PROVE  HubOK'
    <2>1. CASE Contains(Hub!Members(r), c)
      <3>1. UNCHANGED <<rooms, joined>>
        BY <1>2, <2>1, HubContains DEF Hub!Join, Hub!vars
      <3>2. QED
        BY <3>1 DEF HubOK, Hub!Members
    <2>2. CASE ~ Contains(Hub!Members(r), c)
      <3>1. /\ rooms' = Hub!Set(r, Append(Hub!Members(r), c))
            /\ joined' = joined \cup {<<c, r>>}
        BY <1>2, <2>2, HubContains DEF Hub!Join
      <3> DEFINE R == {r}
      <3>2. rooms' = [s \in DOMAIN rooms \cup R |->
                        IF s \in R THEN Append(Hub!Members(s), c) ELSE rooms[s]]
        BY <3>1 DEF Hub!Set
      <3>3. joined' = joined \cup ({c} \X R)
        BY <3>1
      <3>4. R \in SUBSET Rooms /\ \A s \in R : ~ Contains(Hub!Members(s), c)
        BY <2>2
      <3> HIDE DEF R
      <3>5. QED
        BY <3>2, <3>3, <3>4, HubJoins
    <2>3. QED
      BY <2>1, <2>2
  <1>3. ASSUME NEW c \in Conns, NEW r \in Rooms, Hub!Leave(c, r)
        PROVE  HubOK'
    <2> DEFINE m == Hub!Members(r)
    <2>1. PICK pos \in DOMAIN m :
            m[pos] = c /\ rooms' = Hub!Holding(Hub!Set(r, Hub!RemoveAt(m, pos)))
      BY <1>3 DEF Hub!Leave
    <2>2. joined' = joined \ {<<c, r>>}
      BY <1>3 DEF Hub!Leave
    <2>3. Seated(m, r, joined)
      BY DEF HubOK
    <2> DEFINE f == Hub!Set(r, RemoveAt(m, pos))
    <2>4. rooms' = Hub!Holding(f)
      BY <2>1, HubRemoveAt
    <2>5. f = [s \in DOMAIN rooms \cup {r} |-> IF s = r THEN RemoveAt(m, pos) ELSE rooms[s]]
      BY Zenon DEF Hub!Set
    <2> HIDE DEF m, f
    <2>6. Seated(RemoveAt(m, pos), r, joined')
      <3>1. \A d \in Conns : <<d, r>> \in joined' <=> <<d, r>> \in joined /\ d # m[pos]
        BY <2>1, <2>2
      <3>2. QED
        BY <2>1, <2>3, <3>1, SeatedLeave
    <2>7. ASSUME NEW s \in DOMAIN f PROVE s \in Rooms /\ Seated(f[s], s, joined')
      <3>1. CASE s = r
        BY <2>5, <2>6, <3>1
      <3>2. CASE s # r
        <4>1. s \in DOMAIN rooms /\ s \in Rooms /\ f[s] = rooms[s] /\ Seated(rooms[s], s, joined)
          BY <2>5, <3>2 DEF HubOK, Hub!Members
        <4>2. \A d \in Conns : <<d, s>> \in joined' <=> <<d, s>> \in joined
          BY <2>2, <3>2
        <4>3. QED
          BY <4>1, <4>2, SeatedSame
      <3>3. QED
        BY <3>1, <3>2
    <2>8. \A s \in Rooms \ DOMAIN f : \A d \in Conns : <<d, s>> \notin joined'
      <3> SUFFICES ASSUME NEW s \in Rooms \ DOMAIN f, NEW d \in Conns PROVE <<d, s>> \notin joined
        BY <2>2
      <3>1. s \notin DOMAIN rooms
        BY <2>5
      <3>2. Hub!Members(s) = <<>> /\ Seated(Hub!Members(s), s, joined)
        BY <3>1 DEF Hub!Members, HubOK
      <3>3. QED
        BY <3>2 DEF Seated, Contains
    <2>9. QED
      BY <2>4, <2>7, <2>8, Pruned
  <1>4. ASSUME NEW c \in Conns, Hub!Disconnect(c)
        PROVE  HubOK'
    <2> DEFINE f == [s \in DOMAIN rooms |-> Kept(rooms[s], Conns \ {c})]
    <2>1. rooms' = Hub!Holding(f) /\ joined' = {j \in joined : j[1] # c}
      BY <1>4, HubKept DEF Hub!Disconnect
    <2>2. ASSUME NEW s \in DOMAIN f PROVE s \in Rooms /\ Seated(f[s], s, joined')
      <3>1. s \in DOMAIN rooms /\ s \in Rooms /\ Seated(rooms[s], s, joined)
        BY DEF HubOK, Hub!Members
      <3>2. \A d \in Conns : <<d, s>> \in joined' <=> <<d, s>> \in joined /\ d # c
        BY <2>1
      <3>3. f[s] = Kept(rooms[s], Conns \ {c})
        BY <3>1
      <3> HIDE DEF f
      <3>4. Seated(Kept(rooms[s], Conns \ {c}), s, joined')
        BY <3>1, <3>2, SeatedWithout
      <3>5. QED
        BY <3>1, <3>3, <3>4
    <2>3. DOMAIN f = DOMAIN rooms
      OBVIOUS
    <2> HIDE DEF f
    <2>4. \A s \in Rooms \ DOMAIN f : \A d \in Conns : <<d, s>> \notin joined'
      <3> SUFFICES ASSUME NEW s \in Rooms \ DOMAIN f, NEW d \in Conns PROVE <<d, s>> \notin joined
        BY <2>1
      <3>1. Hub!Members(s) = <<>> /\ Seated(Hub!Members(s), s, joined)
        BY <2>3 DEF Hub!Members, HubOK
      <3>2. QED
        BY <3>1 DEF Seated, Contains
    <2>5. QED
      BY <2>1, <2>2, <2>4, Pruned
  <1>5. CASE UNCHANGED hubVars
    BY <1>5 DEF hubVars, HubOK, Hub!Members
  <1>6. QED
    BY <1>1, <1>2, <1>3, <1>4, <1>5 DEF Hub!Next

LEMMA HubSafe == HubOK => Hub!BroadcastsReachTheRoom
  <1> SUFFICES ASSUME HubOK PROVE Hub!BroadcastsReachTheRoom
    OBVIOUS
  <1>1. ASSUME NEW r \in Rooms, NEW sender \in Conns
        PROVE  /\ Hub!IsInjective(Hub!Recipients(r, sender))
               /\ Hub!ToSet(Hub!Recipients(r, sender)) = {c \in Conns \ {sender} : <<c, r>> \in joined}
    <2> DEFINE K == {j \in joined : j[1] # sender}
               k == Hub!Recipients(r, sender)
    <2>1. k = Kept(Hub!Members(r), Conns \ {sender})
      BY HubKept DEF Hub!Recipients
    <2>2. Seated(Hub!Members(r), r, joined)
      BY DEF HubOK
    <2>3. \A d \in Conns : <<d, r>> \in K <=> <<d, r>> \in joined /\ d # sender
      OBVIOUS
    <2> HIDE DEF k, K
    <2>4. Seated(k, r, K)
      BY <2>1, <2>2, <2>3, SeatedWithout
    <2>5. k \in Seq(Conns) /\ DOMAIN k = 1 .. Len(k) /\ \A i \in DOMAIN k : k[i] \in Conns
      BY <2>4, LenProperties, ElementOfSeq DEF Seated
    <2>6. Hub!IsInjective(k)
      BY <2>4, <2>5 DEF Hub!IsInjective, Seated, Distinct
    <2>7. Hub!ToSet(k) = {c \in Conns \ {sender} : <<c, r>> \in joined}
      BY <2>3, <2>4, <2>5 DEF Hub!ToSet, Seated, Contains
    <2>8. QED
      BY <2>6, <2>7 DEF k
  <1>2. QED
    BY <1>1 DEF HubOK, Hub!BroadcastsReachTheRoom

---------------------------------------------------------------------------------
\* Sessions: what the registry wrote down of a JWT are its own claims.

AuthOK ==
  /\ now \in Nat
  /\ \A t \in DOMAIN tokens \ Opaque : tokens[t] = Auth!ToAuthData(t)

LEMMA AuthInit == Auth!Init => AuthOK
  BY DEF Auth!Init, AuthOK

LEMMA AuthNext ==
  ASSUME AuthOK, [Auth!Next]_authVars
  PROVE  AuthOK'
  <1>1. ASSUME NEW sub \in Subjects, NEW custom \in Customs, NEW ttl \in Ttls,
               Auth!Issue(sub, custom, ttl)
        PROVE  AuthOK'
    <2>1. PICK c : tokens' = Auth!With(tokens, c, Auth!ToAuthData(c)) /\ UNCHANGED now
      BY <1>1 DEF Auth!Issue
    <2>2. QED
      BY <2>1 DEF AuthOK, Auth!With
  <1>2. ASSUME NEW t \in Opaque, NEW user \in Subjects, NEW ttl \in Ttls,
               Auth!SetBearer(t, user, ttl)
        PROVE  AuthOK'
    <2>1. PICK data : tokens' = Auth!With(tokens, t, data) /\ UNCHANGED now
      BY <1>2 DEF Auth!SetBearer
    <2>2. QED
      BY <2>1 DEF AuthOK, Auth!With
  <1>3. ASSUME NEW t \in DOMAIN tokens, Auth!RevokeBearer(t)
        PROVE  AuthOK'
    BY <1>3 DEF Auth!RevokeBearer, Auth!Without, AuthOK
  <1>4. CASE Auth!Clear
    BY <1>4 DEF Auth!Clear, AuthOK
  <1>5. CASE Auth!Tick
    BY <1>5 DEF Auth!Tick, AuthOK
  <1>6. CASE UNCHANGED <<tokens, now>>
    BY <1>6 DEF AuthOK
  <1>7. QED
    BY <1>1, <1>2, <1>3, <1>4, <1>5, <1>6
    DEF Auth!Next, Auth!SetApiKey, Auth!RevokeApiKey, authVars

LEMMA AuthSafe == AuthOK => Auth!TheTwoChecksAgree
  <1> SUFFICES ASSUME AuthOK, NEW t \in DOMAIN tokens \ Opaque
               PROVE  /\ (Auth!ValidateHeader("Bearer", t) = Auth!Refused)
                           = (Auth!Authenticate(t) = Auth!Refused)
                      /\ t.custom # "scopes"
                           => Auth!ValidateHeader("Bearer", t) = Auth!Authenticate(t)
    BY DEF Auth!TheTwoChecksAgree
  <1> DEFINE data == Auth!ToAuthData(t)
             over == t.exp # -1 /\ now >= t.exp
  <1>1. tokens[t] = data /\ now \in Nat
    BY DEF AuthOK
  <1>2. data.expires_at = t.exp /\ Auth!NoTtl = -1
    BY DEF Auth!ToAuthData, Auth!AuthData, Auth!NoTtl
  <1>3. Auth!ValidateHeader("Bearer", t) = IF over THEN Auth!Refused ELSE data
    BY <1>1, <1>2 DEF Auth!ValidateHeader, Auth!ValidateBearer, Auth!Looked, Auth!IsExpired
  <1>4. Auth!Authenticate(t) = IF over THEN Auth!Refused ELSE Auth!FromJson(t)
    BY <1>2 DEF Auth!Authenticate, Auth!JwtVerify
  <1>5. t.custom # "scopes" => Auth!FromJson(t) = data
    BY DEF Auth!FromJson
  \* The refusal is no session: what expires at 0 has expired.
  <1>6. ~ over => data # Auth!Refused /\ Auth!FromJson(t) # Auth!Refused
    <2> SUFFICES ASSUME ~ over PROVE data # Auth!Refused /\ Auth!FromJson(t) # Auth!Refused
      OBVIOUS
    <2>1. t.exp # 0
      BY <1>1
    <2>2. data.expires_at # 0 /\ Auth!FromJson(t).expires_at # 0
      BY <2>1 DEF Auth!FromJson, Auth!ToAuthData, Auth!AuthData
    <2>3. Auth!Refused.expires_at = 0
      BY DEF Auth!Refused
    <2>4. QED
      BY <2>2, <2>3
  <1>7. QED
    BY <1>3, <1>4, <1>5, <1>6

---------------------------------------------------------------------------------
\* Infrastructure.

ServiceRecord == [name : Names, addr : Addrs \cup BadAddrs]

InfraOK == services \in Seq(ServiceRecord) /\ Infra!StoredIsUsable

LEMMA InfraInit == Infra!Init => InfraOK
  BY EmptySeq DEF Infra!Init, InfraOK, Infra!StoredIsUsable

\* The databases are as they were, and so are the services but for one address.
LEMMA InfraMoved ==
  ASSUME InfraOK, UNCHANGED databases, NEW n \in Names, NEW a \in Addrs \ BadAddrs,
         NEW known, known = {i \in DOMAIN services : services[i].name = n},
         services' = [i \in DOMAIN services |->
                        IF i \in known THEN [services[i] EXCEPT !.addr = a] ELSE services[i]]
  PROVE  InfraOK'
  <1>1. /\ DOMAIN services = 1 .. Len(services) /\ Len(services) \in Nat
        /\ \A i \in DOMAIN services : services[i] \in ServiceRecord
    BY LenProperties, ElementOfSeq DEF InfraOK
  <1>2. ASSUME NEW i \in DOMAIN services
        PROVE  /\ services'[i] \in ServiceRecord
               /\ services'[i].name = services[i].name
               /\ services'[i].addr \notin BadAddrs
    <2>1. services[i] \in ServiceRecord /\ services[i].addr \notin BadAddrs
      BY <1>1 DEF InfraOK, Infra!StoredIsUsable
    <2>2. services'[i] = services[i] \/ services'[i] = [services[i] EXCEPT !.addr = a]
      OBVIOUS
    <2>3. QED
      BY <2>1, <2>2 DEF ServiceRecord
  <1>3. DOMAIN services' = DOMAIN services
    OBVIOUS
  <1>4. services' \in [1 .. Len(services) -> ServiceRecord]
    BY <1>1, <1>2
  <1>5. services' \in Seq(ServiceRecord)
    BY <1>1, <1>4, SeqDef
  <1>6. QED
    BY <1>2, <1>3, <1>5 DEF InfraOK, Infra!StoredIsUsable

LEMMA InfraAdded ==
  ASSUME InfraOK, UNCHANGED databases, NEW n \in Names, NEW a \in Addrs \ BadAddrs,
         \A i \in DOMAIN services : services[i].name # n,
         services' = Append(services, [name |-> n, addr |-> a])
  PROVE  InfraOK'
  <1> DEFINE new == [name |-> n, addr |-> a]
  <1>1. new \in ServiceRecord /\ new.name = n /\ new.addr = a
    BY DEF ServiceRecord
  <1> HIDE DEF new
  <1>2. /\ DOMAIN services = 1 .. Len(services) /\ Len(services) \in Nat
        /\ services' = Append(services, new) /\ services \in Seq(ServiceRecord)
    BY LenProperties DEF InfraOK, new
  <1>3. /\ services' \in Seq(ServiceRecord) /\ Len(services') = Len(services) + 1
        /\ \A i \in 1 .. Len(services) : services'[i] = services[i]
        /\ services'[Len(services) + 1] = new
    BY <1>1, <1>2, AppendProperties
  <1>4. DOMAIN services' = 1 .. Len(services) + 1
    BY <1>3, LenProperties
  <1>5. QED
    BY <1>1, <1>2, <1>3, <1>4 DEF InfraOK, Infra!StoredIsUsable

LEMMA InfraNext ==
  ASSUME InfraOK, [Infra!Next]_infraVars
  PROVE  InfraOK'
  <1>1. ASSUME NEW n \in Names, NEW a \in Addrs \cup BadAddrs, Infra!RegisterService(n, a)
        PROVE  InfraOK'
    <2> DEFINE known == {i \in DOMAIN services : services[i].name = n}
    <2>1. UNCHANGED databases
      BY <1>1 DEF Infra!RegisterService
    <2>2. CASE a \in BadAddrs
      <3>1. UNCHANGED services
        BY <1>1, <2>2 DEF Infra!RegisterService
      <3>2. QED
        BY <2>1, <3>1 DEF InfraOK, Infra!StoredIsUsable
    <2>3. CASE a \notin BadAddrs /\ known # {}
      <3>1. services' = [i \in DOMAIN services |->
                           IF i \in known THEN [services[i] EXCEPT !.addr = a] ELSE services[i]]
        BY <1>1, <2>3 DEF Infra!RegisterService
      <3>2. QED
        BY <2>1, <2>3, <3>1, InfraMoved
    <2>4. CASE a \notin BadAddrs /\ known = {}
      <3>1. services' = Append(services, [name |-> n, addr |-> a])
        BY <1>1, <2>4 DEF Infra!RegisterService
      <3>2. \A i \in DOMAIN services : services[i].name # n
        BY <2>4
      <3>3. QED
        BY <2>1, <2>4, <3>1, <3>2, InfraAdded
    <2>5. QED
      BY <2>2, <2>3, <2>4
  <1>2. ASSUME NEW n \in Names, NEW engine \in Engines, NEW port \in {0, 5432},
               Infra!UpsertDatabase(n, engine, port)
        PROVE  InfraOK'
    BY <1>2 DEF Infra!UpsertDatabase, Infra!Put, InfraOK, Infra!StoredIsUsable
  <1>3. CASE UNCHANGED <<services, databases>>
    BY <1>3 DEF InfraOK, Infra!StoredIsUsable
  <1>4. QED
    BY <1>1, <1>2, <1>3
    DEF Infra!Next, Infra!SetEnvVar, Infra!ClearEnv, Infra!SetTls, infraVars

---------------------------------------------------------------------------------
\* The namespaces of the test registry.

\* What was handed out carries a number that was taken.
TestsOK ==
  /\ next_seq \in Nat
  /\ \A namespace \in promised : namespace[1] \in 1 .. next_seq

LEMMA TestsInit == Tests!Init => TestsOK
  BY DEF Tests!Init, TestsOK

LEMMA TestsNext ==
  ASSUME TestsOK, [Tests!Next]_testsVars
  PROVE  /\ TestsOK'
         /\ \A namespace \in test_databases' \ test_databases : namespace \notin promised
  <1>1. ASSUME NEW name \in Names, Tests!NewDatabase(name)
        PROVE  /\ TestsOK'
               /\ \A namespace \in test_databases' \ test_databases : namespace \notin promised
    <2> DEFINE new == <<next_seq + 1, name>>
    <2>1. /\ next_seq' = next_seq + 1 /\ test_databases' = test_databases \cup {new}
          /\ promised' = promised \cup {new}
      BY <1>1 DEF Tests!NewDatabase
    <2>2. new[1] = next_seq + 1 /\ next_seq \in Nat
      BY DEF TestsOK
    <2> HIDE DEF new
    <2>3. new \notin promised
      BY <2>2 DEF TestsOK
    <2>4. QED
      BY <2>1, <2>2, <2>3 DEF TestsOK
  <1>2. ASSUME UNCHANGED <<next_seq, promised>>, test_databases' \subseteq test_databases
        PROVE  /\ TestsOK'
               /\ \A namespace \in test_databases' \ test_databases : namespace \notin promised
    BY <1>2 DEF TestsOK
  <1>3. QED
    BY <1>1, <1>2
    DEF Tests!Next, Tests!Cleanup, Tests!EnterMode, Tests!ExitMode, Tests!MockAuth,
        Tests!MockService, Tests!ClearMocks, testsVars

---------------------------------------------------------------------------------
\* The secrets.

\* What an indivisible secrets_get would answer now is among the fitting answers.
FitsNow ==
  /\ get = [c \in Clients |-> get[c]]
  /\ fitting = [c \in Clients |-> fitting[c]]
  /\ answer = [c \in Clients |-> answer[c]]
  /\ \A c \in Clients : get[c] # Sec!Idle => Sec!Answer(secrets, outside, get[c]) \in fitting[c]

LEMMA FitsNowStep ==
  ASSUME FitsNow, [Sec!Next]_secretsVars
  PROVE  FitsNow'
  <1>1. ASSUME UNCHANGED <<get, answer>>, Sec!Note(secrets', outside')
        PROVE  FitsNow'
    BY <1>1 DEF FitsNow, Sec!Note
  <1>2. ASSUME NEW n \in Names, NEW source \in Sec!Sources, Sec!Register(n, source)
        PROVE  FitsNow'
    BY <1>1, <1>2 DEF Sec!Register, Sec!Note
  <1>3. ASSUME NEW n \in Names, Sec!Delete(n)
        PROVE  FitsNow'
    BY <1>1, <1>3 DEF Sec!Delete, Sec!Note
  <1>4. ASSUME NEW p \in Places, NEW v \in Values \cup {Sec!Unset}, Sec!OutsideChanges(p, v)
        PROVE  FitsNow'
    BY <1>1, <1>4 DEF Sec!OutsideChanges, Sec!Note
  <1>5. ASSUME NEW c \in Clients, Sec!AskValue(c)
        PROVE  FitsNow'
    <2>1. /\ get' = [get EXCEPT ![c] = Sec!Idle] /\ UNCHANGED <<secrets, outside, fitting>>
          /\ answer' = [answer EXCEPT ![c] = Sec!Second(secrets, outside, get[c])]
      BY <1>5 DEF Sec!AskValue
    <2>2. QED
      BY <2>1 DEF FitsNow
  <1>6. ASSUME NEW c \in Clients, NEW q, Sec!AskHas(c, q)
        PROVE  FitsNow'
    <2>1. UNCHANGED <<secrets, outside>>
      BY <1>6 DEF Sec!AskHas
    <2>2. CASE q.name \in DOMAIN secrets
      <3>1. /\ get' = [get EXCEPT ![c] = q] /\ UNCHANGED answer
            /\ fitting' = [fitting EXCEPT ![c] = {Sec!Answer(secrets, outside, q)}]
        BY <1>6, <2>2 DEF Sec!AskHas
      <3>2. QED
        BY <2>1, <3>1 DEF FitsNow
    <2>3. CASE q.name \notin DOMAIN secrets
      <3>1. answer' = [answer EXCEPT ![c] = Sec!Missing] /\ UNCHANGED <<get, fitting>>
        BY <1>6, <2>3 DEF Sec!AskHas
      <3>2. QED
        BY <2>1, <3>1 DEF FitsNow
    <2>4. QED
      BY <2>2, <2>3
  <1>7. CASE UNCHANGED secretsVars
    BY <1>7 DEF secretsVars, FitsNow
  <1>8. QED
    BY <1>2, <1>3, <1>4, <1>5, <1>6, <1>7 DEF Sec!Next

\* The answer that a step gives was right at a moment of its request, or is the code's
\* exception.
AnswersFit ==
  \A c \in Clients : get[c] # Sec!Idle /\ get'[c] = Sec!Idle =>
    \/ answer'[c] \in fitting[c]
    \/ get[c].reveal /\ get[c].name \notin DOMAIN secrets /\ answer'[c] = Sec!Unresolved

LEMMA AnswersFitStep ==
  ASSUME FitsNow, [Sec!Next]_secretsVars
  PROVE  AnswersFit
  <1> SUFFICES ASSUME NEW c \in Clients, get[c] # Sec!Idle, get'[c] = Sec!Idle
               PROVE  \/ answer'[c] \in fitting[c]
                      \/ /\ get[c].reveal /\ get[c].name \notin DOMAIN secrets
                         /\ answer'[c] = Sec!Unresolved
    BY DEF AnswersFit
  <1>1. get'[c] # get[c]
    OBVIOUS
  <1>2. \/ Sec!AskValue(c)
        \/ \E q : Sec!AskHas(c, q)
    BY <1>1 DEF Sec!Next, secretsVars, FitsNow, Sec!Register, Sec!Delete, Sec!OutsideChanges,
                Sec!AskValue, Sec!AskHas
  <1>3. ~ \E q : Sec!AskHas(c, q)
    BY DEF Sec!AskHas
  <1>4. answer' = [answer EXCEPT ![c] = Sec!Second(secrets, outside, get[c])]
    BY <1>2, <1>3 DEF Sec!AskValue
  <1>5. /\ answer'[c] = Sec!Second(secrets, outside, get[c])
        /\ Sec!Answer(secrets, outside, get[c]) \in fitting[c]
    BY <1>4 DEF FitsNow
  <1>6. CASE get[c].name \in DOMAIN secrets
    BY <1>5, <1>6 DEF Sec!Second
  <1>7. CASE get[c].name \notin DOMAIN secrets
    BY <1>5, <1>7 DEF Sec!Second, Sec!Answer
  <1>8. QED
    BY <1>6, <1>7

\* Every secret has a source, and every place a value or none.
SecretsOK ==
  /\ \A n \in DOMAIN secrets : secrets[n] \in Sec!Sources
  /\ outside \in [Places -> Values \cup {Sec!Unset}]

LEMMA SecretsInit == Sec!Init => SecretsOK /\ FitsNow
  BY DEF Sec!Init, SecretsOK, FitsNow

LEMMA SecretsNext ==
  ASSUME SecretsOK, [Sec!Next]_secretsVars
  PROVE  SecretsOK'
  <1>1. ASSUME NEW n \in Names, NEW source \in Sec!Sources, Sec!Register(n, source)
        PROVE  SecretsOK'
    BY <1>1 DEF Sec!Register, SecretsOK
  <1>2. ASSUME NEW n \in Names, Sec!Delete(n)
        PROVE  SecretsOK'
    BY <1>2 DEF Sec!Delete, SecretsOK
  <1>3. ASSUME NEW p \in Places, NEW v \in Values \cup {Sec!Unset}, Sec!OutsideChanges(p, v)
        PROVE  SecretsOK'
    BY <1>3 DEF Sec!OutsideChanges, SecretsOK
  <1>4. CASE UNCHANGED <<secrets, outside>>
    BY <1>4 DEF SecretsOK
  <1>5. QED
    BY <1>1, <1>2, <1>3, <1>4
    DEF Sec!Next, Sec!AskValue, Sec!AskHas, secretsVars

\* A name is missing exactly when there is nothing to show for it.
LEMMA SecretsSafe ==
  ASSUME SecretsOK
  PROVE  Sec!ChecksAgreeWithReads
  <1> SUFFICES ASSUME NEW n \in Names
               PROVE  (Sec!CheckRequired(secrets, outside, <<n>>) # <<>>)
                        <=> Sec!Answer(secrets, outside, [name |-> n, reveal |-> TRUE])
                              \in {Sec!Missing, Sec!Unresolved}
    BY DEF Sec!ChecksAgreeWithReads
  <1> DEFINE nothing == n \in DOMAIN secrets => Sec!Resolve(outside, secrets[n]) = Sec!Unset
  <1>1. (Sec!CheckRequired(secrets, outside, <<n>>) # <<>>) <=> nothing
    <2> DEFINE S == {m \in ToSet(<<n>>) : m \in DOMAIN secrets => Sec!Resolve(outside, secrets[m]) = Sec!Unset}
    <2>1. Sec!CheckRequired(secrets, outside, <<n>>) = Kept(<<n>>, S)
      BY DEF Sec!CheckRequired, Sec!Kept, Kept, Sec!KeptUpTo, KeptUpTo, Sec!ToSet, ToSet
    <2>2. n \in S <=> nothing
      BY DEF ToSet
    <2> HIDE DEF S, nothing
    <2>3. Kept(<<n>>, S) = IF n \in S THEN <<n>> ELSE <<>>
      <3>1. <<>> \in Seq(Names) /\ <<n>> = Append(<<>>, n)
        BY EmptySeq
      <3>2. Kept(Append(<<>>, n), S) = IF n \in S THEN Append(Kept(<<>>, S), n) ELSE Kept(<<>>, S)
        BY <3>1, KeptAppend
      <3>3. Kept(<<>>, S) = <<>>
        BY KeptEmpty
      <3>4. QED
        BY <3>1, <3>2, <3>3
    <2>4. <<n>> # <<>>
      OBVIOUS
    <2>5. QED
      BY <2>1, <2>2, <2>3, <2>4
  <1>2. CASE n \notin DOMAIN secrets
    BY <1>1, <1>2 DEF Sec!Answer
  <1>3. CASE n \in DOMAIN secrets
    <2> DEFINE v == Sec!Resolve(outside, secrets[n])
    <2>1. v \in Values \cup {Sec!Unset}
      BY <1>3 DEF SecretsOK, Sec!Sources, Sec!Resolve
    <2>2. Sec!Unset # Sec!Missing /\ Sec!Unset # Sec!Unresolved
      BY DEF Sec!Missing, Sec!Unresolved, Sec!Unset
    <2>3. v # Sec!Missing /\ v # Sec!Unresolved
      <3> HIDE DEF v
      <3>1. QED
        BY <2>1, <2>2, ValuesAssumption
    <2>4. QED
      BY <1>1, <1>3, <2>2, <2>3 DEF Sec!Answer
  <1>4. QED
    BY <1>2, <1>3

---------------------------------------------------------------------------------
\* The traces and the state streams.

\* The ring of traces is the end of what was taken; neither ring is over its size.
RingsOK ==
  /\ traces \in Seq(Nat) /\ trace_counter \in Nat
  /\ Len(traces) <= MaxTraces /\ Len(traces) <= trace_counter
  /\ \A i \in 1 .. Len(traces) : traces[i] = trace_counter - Len(traces) + i
  /\ logs \in Seq(BOOLEAN) /\ Len(logs) <= MaxLogs

IsThread(t) == "at" \in DOMAIN t /\ "session" \in DOMAIN t

\* A thread that runs has a session, which is its own and was opened; session 0 is none.
SessionsOK ==
  /\ counter \in Nat /\ active \subseteq 1 .. counter
  /\ thread = [c \in Clients |-> thread[c]]
  /\ \A c \in Clients : /\ IsThread(thread[c])
                        /\ thread[c].session \in 0 .. counter
                        /\ thread[c].at = "none" <=> thread[c].session = 0
  /\ \A c, d \in Clients : thread[c].session # 0 /\ thread[c].session = thread[d].session => c = d

StreamsOK == RingsOK /\ SessionsOK

LEMMA StreamsInit == Streams!Init => StreamsOK
  BY EmptySeq, RingsAssumption DEF Streams!Init, StreamsOK, RingsOK, SessionsOK, IsThread, Streams!Idle

\* The last n of a sequence that is at most one longer.
IsEnd(t, X, s, e, n) ==
  /\ t \in Seq(X) /\ Len(t) <= n /\ Len(t) <= Len(s) + 1
  /\ \A i \in 1 .. Len(t) : t[i] = IF i = Len(t) THEN e ELSE s[i + (Len(s) + 1 - Len(t))]

LEMMA LastOfAppend ==
  ASSUME NEW X, NEW s \in Seq(X), NEW e \in X, NEW n \in Nat, Len(s) <= n
  PROVE  IsEnd(Streams!LastOf(Append(s, e), n), X, s, e, n)
  <1> DEFINE l == Append(s, e)
             t == Streams!LastOf(l, n)
  <1>1. /\ l \in Seq(X) /\ Len(s) \in Nat /\ Len(l) = Len(s) + 1
        /\ \A i \in 1 .. Len(s) : l[i] = s[i]
        /\ l[Len(s) + 1] = e
    BY AppendProperties, LenProperties
  <1> HIDE DEF l
  <1>2. ASSUME Len(l) > n
        PROVE  IsEnd(t, X, s, e, n)
    <2> DEFINE m == Len(l) - n + 1
    <2>1. t = SubSeq(l, m, Len(l))
      BY <1>2 DEF Streams!LastOf
    <2> HIDE DEF t
    <2>2. /\ m \in Int /\ Len(l) \in Int /\ Len(l) - m + 1 = n
          /\ IF m <= Len(l) THEN TRUE ELSE n = 0
          /\ \A i \in m .. Len(l) : i \in 1 .. Len(l)
      BY <1>1, <1>2
    <2> HIDE DEF m
    <2>3. \A i \in m .. Len(l) : l[i] \in X
      BY <1>1, <2>2, ElementOfSeq
    <2>4. /\ t \in Seq(X) /\ Len(t) = n /\ \A i \in 1 .. n : t[i] = l[m + i - 1]
      BY <1>1, <2>1, <2>2, <2>3, SubSeqProperties
    <2>5. ASSUME NEW i \in 1 .. n
          PROVE  t[i] = IF i = n THEN e ELSE s[i + (Len(s) + 1 - n)]
      <3>1. m + i - 1 = i + (Len(s) + 1 - n) /\ n = Len(s)
        BY <1>1, <1>2 DEF m
      <3>2. t[i] = l[m + i - 1]
        BY <2>4
      <3>3. QED
        BY <1>1, <3>1, <3>2
    <2>6. QED
      BY <1>1, <1>2, <2>4, <2>5 DEF IsEnd
  <1>3. ASSUME ~ (Len(l) > n)
        PROVE  IsEnd(t, X, s, e, n)
    <2>1. t = l
      BY <1>3 DEF Streams!LastOf
    <2>2. QED
      BY <1>1, <1>3, <2>1 DEF IsEnd
  <1>4. QED
    BY <1>2, <1>3 DEF l

LEMMA RingsServed ==
  ASSUME RingsOK, NEW error \in BOOLEAN, Streams!Served(error)
  PROVE  RingsOK'
  <1>1. /\ traces \in Seq(Nat) /\ trace_counter \in Nat /\ Len(traces) <= MaxTraces
        /\ logs \in Seq(BOOLEAN) /\ Len(logs) <= MaxLogs /\ Len(traces) \in Nat
    BY LenProperties DEF RingsOK
  <1>2. logs' = Streams!LastOf(Append(logs, error), MaxLogs)
    BY DEF Streams!Served
  <1>3. logs' \in Seq(BOOLEAN) /\ Len(logs') <= MaxLogs
    BY <1>1, <1>2, LastOfAppend, RingsAssumption DEF IsEnd
  <1>4. CASE UNCHANGED <<traces, trace_counter>>
    BY <1>3, <1>4 DEF RingsOK
  <1>5. CASE /\ trace_counter' = trace_counter + 1
             /\ traces' = Streams!Kept(Append(traces, trace_counter + 1))
    <2> DEFINE e == trace_counter + 1
    <2>1. e \in Nat /\ traces' = Streams!LastOf(Append(traces, e), MaxTraces)
      BY <1>1, <1>5 DEF Streams!Kept
    <2> HIDE DEF e
    <2>2. /\ traces' \in Seq(Nat) /\ Len(traces') <= MaxTraces /\ Len(traces') <= Len(traces) + 1
          /\ \A i \in 1 .. Len(traces') :
               traces'[i] = IF i = Len(traces') THEN e ELSE traces[i + (Len(traces) + 1 - Len(traces'))]
      <3>1. IsEnd(traces', Nat, traces, e, MaxTraces)
        BY <1>1, <2>1, LastOfAppend, RingsAssumption
      <3>2. QED
        BY <3>1 DEF IsEnd
    <2>3. Len(traces') \in Nat
      BY <2>2, LenProperties
    <2>4. ASSUME NEW i \in 1 .. Len(traces')
          PROVE  traces'[i] = trace_counter' - Len(traces') + i
      <3> DEFINE k == i + (Len(traces) + 1 - Len(traces'))
      <3>1. k = Len(traces) + 1 + i - Len(traces') /\ (i # Len(traces') => k \in 1 .. Len(traces))
        BY <1>1, <2>2, <2>3
      <3>2. traces'[i] = IF i = Len(traces') THEN e ELSE traces[k]
        BY <2>2
      <3> HIDE DEF k
      <3>3. traces'[i] = trace_counter - Len(traces) + k
        BY <1>1, <2>3, <3>1, <3>2 DEF RingsOK, e
      <3>4. QED
        BY <1>1, <1>5, <2>3, <3>1, <3>3
    <2>5. Len(traces') <= trace_counter'
      BY <1>1, <1>5, <2>2, <2>3 DEF RingsOK
    <2>6. QED
      BY <1>1, <1>3, <1>5, <2>2, <2>4, <2>5 DEF RingsOK
  <1>6. QED
    BY <1>4, <1>5 DEF Streams!Served

\* A thread changes, keeping its session.
LEMMA SessionKept ==
  ASSUME SessionsOK, NEW c \in Clients, NEW t, UNCHANGED <<counter, active>>,
         thread' = [thread EXCEPT ![c] = t],
         IsThread(t), t.session = thread[c].session, t.at = "none" <=> thread[c].at = "none"
  PROVE  SessionsOK'
  BY DEF SessionsOK

LEMMA SessionsNext ==
  ASSUME SessionsOK, [Streams!Next]_streamsVars
  PROVE  SessionsOK'
  <1>1. ASSUME NEW c \in Clients, Streams!OpenStream(c)
        PROVE  SessionsOK'
    <2> DEFINE u == [Streams!Idle EXCEPT !.at = "poll"]
               t == [u EXCEPT !.session = counter + 1]
    <2>1. /\ counter' = counter + 1 /\ active' = active \cup {counter + 1}
          /\ thread' = [thread EXCEPT ![c] = t]
      BY <1>1 DEF Streams!OpenStream
    <2>2. t.session = counter + 1 /\ t.at = "poll" /\ IsThread(t)
      <3>1. u.at = "poll" /\ IsThread(u)
        BY DEF Streams!Idle, IsThread
      <3> HIDE DEF u
      <3>2. QED
        BY <3>1 DEF IsThread
    <2> HIDE DEF t
    <2>3. QED
      BY <2>1, <2>2 DEF SessionsOK
  <1>2. ASSUME NEW c \in Clients, Streams!Render(c)
        PROVE  SessionsOK'
    <2> DEFINE end == thread[c].ended \/ traces = <<>>
               done == [thread[c] EXCEPT !.at = "finish"]
               shown == [thread[c] EXCEPT !.shown = Streams!LastOf(traces, Burst)]
               more == [thread[c] EXCEPT !.shown = Streams!LastOf(traces, Burst),
                                         !.ended = end]
    <2>1. thread' = [thread EXCEPT ![c] = IF thread[c].gone THEN done ELSE more]
      BY <1>2 DEF Streams!Render
    <2>2. thread[c].at = "poll" /\ UNCHANGED <<counter, active>>
      BY <1>2 DEF Streams!Render
    <2>3. /\ IsThread(done) /\ done.session = thread[c].session /\ done.at = "finish"
          /\ IsThread(more) /\ more.session = thread[c].session /\ more.at = "poll"
      <3>1. IsThread(thread[c])
        BY DEF SessionsOK
      <3>2. IsThread(shown) /\ shown.session = thread[c].session /\ shown.at = "poll"
        BY <2>2, <3>1 DEF IsThread
      <3>3. IsThread(done) /\ done.session = thread[c].session /\ done.at = "finish"
        BY <3>1 DEF IsThread
      <3>4. more = [shown EXCEPT !.ended = end]
        OBVIOUS
      <3> HIDE DEF shown, more, end
      <3>5. QED
        BY <3>2, <3>3, <3>4 DEF IsThread
    <2> HIDE DEF done, more
    <2>4. CASE thread[c].gone
      BY <2>1, <2>2, <2>3, <2>4, SessionKept
    <2>5. CASE ~ thread[c].gone
      BY <2>1, <2>2, <2>3, <2>5, SessionKept
    <2>6. QED
      BY <2>4, <2>5
  <1>3. ASSUME NEW c \in Clients, Streams!Finish(c)
        PROVE  SessionsOK'
    <2>1. /\ UNCHANGED counter /\ active' \subseteq active
          /\ thread' = [thread EXCEPT ![c] = Streams!Idle]
      BY <1>3 DEF Streams!Finish
    <2>2. Streams!Idle.session = 0 /\ Streams!Idle.at = "none" /\ IsThread(Streams!Idle)
      BY DEF Streams!Idle, IsThread
    <2>3. QED
      BY <2>1, <2>2 DEF SessionsOK
  <1>4. ASSUME NEW c \in Clients, Streams!ClientLeaves(c)
        PROVE  SessionsOK'
    <2> DEFINE t == [thread[c] EXCEPT !.gone = TRUE]
    <2>1. thread' = [thread EXCEPT ![c] = t] /\ UNCHANGED <<counter, active>>
      BY <1>4 DEF Streams!ClientLeaves
    <2>2. IsThread(t) /\ t.session = thread[c].session /\ t.at = thread[c].at
      BY DEF SessionsOK, IsThread
    <2> HIDE DEF t
    <2>3. QED
      BY <2>1, <2>2, SessionKept
  <1>5. ASSUME UNCHANGED thread, \/ counter' = counter + 1 /\ active' = active \cup {counter + 1}
                                 \/ counter' = counter /\ active' \subseteq active
        PROVE  SessionsOK'
    BY <1>5 DEF SessionsOK
  <1>6. CASE UNCHANGED <<active, counter, thread>>
    BY <1>6, <1>5
  <1>7. ASSUME NEW id \in active, Streams!TcpStreamClose(id)
        PROVE  SessionsOK'
    BY <1>7, <1>5 DEF Streams!TcpStreamClose
  <1>8. CASE Streams!TcpStreamOpen
    BY <1>8, <1>5 DEF Streams!TcpStreamOpen
  <1>9. QED
    BY <1>1, <1>2, <1>3, <1>4, <1>6, <1>7, <1>8
    DEF Streams!Next, streamsVars, Streams!Served, Streams!ClearTraces, Streams!SetSampling,
        Streams!streamVars

LEMMA StreamsNext ==
  ASSUME StreamsOK, [Streams!Next]_streamsVars
  PROVE  StreamsOK'
  <1>1. ASSUME NEW error \in BOOLEAN, Streams!Served(error)
        PROVE  RingsOK'
    BY <1>1, RingsServed DEF StreamsOK
  <1>2. ASSUME Streams!ClearTraces
        PROVE  RingsOK'
    BY <1>2, EmptySeq, LenProperties, RingsAssumption DEF StreamsOK, RingsOK, Streams!ClearTraces
  <1>3. ASSUME UNCHANGED <<traces, trace_counter, logs>>
        PROVE  RingsOK'
    BY <1>3 DEF StreamsOK, RingsOK
  <1>4. RingsOK'
    <2>1. CASE \E c \in Clients : Streams!OpenStream(c) \/ Streams!Render(c) \/ Streams!Finish(c)
                                  \/ Streams!ClientLeaves(c)
      BY <1>3, <2>1 DEF Streams!traceVars, Streams!OpenStream, Streams!Render, Streams!Finish,
                        Streams!ClientLeaves
    <2>2. QED
    BY <1>1, <1>2, <1>3, <2>1
    DEF Streams!Next, streamsVars, Streams!SetSampling, Streams!OpenStream, Streams!Render,
        Streams!Finish, Streams!ClientLeaves, Streams!TcpStreamOpen, Streams!TcpStreamClose,
        Streams!traceVars
  <1>5. QED
    BY <1>4, SessionsNext DEF StreamsOK

LEMMA StreamsSafe ==
  ASSUME StreamsOK
  PROVE  Streams!TracesAreTheNewest
  <1>1. /\ Len(traces) \in Nat /\ DOMAIN traces = 1 .. Len(traces)
        /\ trace_counter \in Nat /\ Len(traces) <= trace_counter
        /\ \A i \in 1 .. Len(traces) : traces[i] = trace_counter - Len(traces) + i
    BY LenProperties DEF StreamsOK, RingsOK
  <1>2. \A i, j \in DOMAIN traces : i < j => traces[i] < traces[j]
    BY <1>1
  <1>3. ASSUME NEW id \in 1 .. trace_counter
        PROVE  Streams!Found(id) = (id > trace_counter - Len(traces))
    <2>1. ASSUME id > trace_counter - Len(traces)
          PROVE  \E i \in DOMAIN traces : traces[i] = id
      <3> DEFINE i == id - (trace_counter - Len(traces))
      <3>1. i \in 1 .. Len(traces) /\ trace_counter - Len(traces) + i = id
        BY <1>1, <2>1
      <3>2. QED
        BY <1>1, <3>1
    <2>2. ASSUME NEW i \in DOMAIN traces, traces[i] = id
          PROVE  id > trace_counter - Len(traces)
      BY <1>1, <2>2
    <2>3. Streams!Found(id) <=> id > trace_counter - Len(traces)
      BY <2>1, <2>2 DEF Streams!Found
    <2>4. Streams!Found(id) \in BOOLEAN
      BY DEF Streams!Found
    <2>5. QED
      BY <1>1, <2>3, <2>4
  <1>4. QED
    BY <1>1, <1>2, <1>3 DEF StreamsOK, RingsOK, SessionsOK, Streams!TracesAreTheNewest

---------------------------------------------------------------------------------
\* The metrics.

\* What a table says of the positions P of the requests, key having their endpoints: an
\* endpoint is in it when it was met, with how often it was.
Counts(table, key, P) ==
  /\ DOMAIN table = {key[p] : p \in P}
  /\ \A x \in DOMAIN table : table[x] = Cardinality({p \in P : key[p] = x})

\* The numbers of a table's series, in any order, add up to what was counted.
LEMMA SumOfCounts ==
  ASSUME NEW P, IsFiniteSet(P), NEW key, NEW table, Counts(table, key, P)
  PROVE  Counters!Sum(Counters!Numbers(Counters!Series(table))) = Cardinality(P)
  <1> DEFINE D == DOMAIN table
             m == Cardinality(D)
             order == SetToSeq(D)
             s == Counters!Numbers(Counters!Series(table))
             Upto(k) == {p \in P : \E i \in 1 .. k : order[i] = key[p]}
             At(x) == {p \in P : key[p] = x}
  <1>1. IsFiniteSet(D) /\ m \in Nat
    <2> DEFINE f == [p \in P |-> key[p]]
    <2>1. f \in Surjection(P, D)
      BY DEF Surjection, Counts
    <2> HIDE DEF f, D
    <2>2. QED
      BY <2>1, FS_Surjection, FS_CardinalityType
  <1>2. /\ order \in [1 .. m -> D]
        /\ \A i, j \in 1 .. m : order[i] = order[j] => i = j
        /\ \A x \in D : \E i \in 1 .. m : order[i] = x
    <2> HIDE DEF D
    <2>1. \E f \in [1 .. m -> D] : IsInjective(f)
      <3>1. ExistsBijection(1 .. m, D)
        BY <1>1, FS_CardinalityType
      <3>2. QED
        BY <3>1 DEF ExistsBijection, Bijection, Injection
    <2>2. order \in [1 .. m -> D] /\ IsInjective(order)
      BY <2>1 DEF SetToSeq
    <2> HIDE DEF order
    <2>3. order \in Injection(1 .. m, D)
      BY <2>2 DEF Injection
    <2>4. IsFiniteSet(1 .. m) /\ Cardinality(1 .. m) = m
      BY <1>1, FS_Interval, 1 \in Int
    <2>5. order \in Surjection(1 .. m, D)
      BY <1>1, <2>3, <2>4, FS_Injection
    <2>6. QED
      BY <2>2, <2>5 DEF IsInjective, Surjection
  <1>3. /\ s = [i \in 1 .. m |-> table[order[i]]]
        /\ Len(s) = m
    <2>1. order = Counters!SetToSeq(D)
      BY DEF Counters!SetToSeq, SetToSeq, Counters!Cardinality, Cardinality, Counters!IsInjective, IsInjective
    <2> HIDE DEF order, D
    <2>2. DOMAIN order = 1 .. m
      BY <1>2
    <2>3. s = [i \in 1 .. m |-> table[order[i]]]
      BY <2>1, <2>2 DEF Counters!Numbers, Counters!Series, D
    <2> HIDE DEF s
    <2>4. QED
      BY <1>1, <2>3
  <1> HIDE DEF s, order, m
  <1>4. /\ \A x : IsFiniteSet(At(x)) /\ Cardinality(At(x)) \in Nat
        /\ \A k : IsFiniteSet(Upto(k)) /\ Cardinality(Upto(k)) \in Nat
    <2>1. ASSUME NEW Q, Q \subseteq P
          PROVE  IsFiniteSet(Q) /\ Cardinality(Q) \in Nat
      BY <2>1, FS_Subset, FS_CardinalityType
    <2>2. QED
      BY <2>1
  <1> HIDE DEF D
  <1>5. PICK sum \in [0 .. m -> Int] :
          sum[0] = 0 /\ \A i \in 1 .. m : sum[i] = sum[i - 1] + s[i]
    <2> DEFINE step == [i \in 1 .. m |-> [x \in Int |-> x + s[i]]]
    <2>1. ASSUME NEW i \in 1 .. m PROVE s[i] \in Int
      <3>1. s[i] = table[order[i]] /\ order[i] \in D
        BY <1>2, <1>3
      <3>2. s[i] = Cardinality(At(order[i]))
        BY <3>1 DEF Counts, D
      <3> HIDE DEF At
      <3>3. QED
        BY <1>4, <3>2
    <2>2. step \in [1 .. m -> [Int -> Int]]
      BY <2>1
    <2>3. \A i \in 1 .. m : \A x \in Int : step[i][x] = x + s[i]
      OBVIOUS
    <2> HIDE DEF step
    <2>4. PICK f \in [0 .. m -> Int] : f[0] = 0 /\ \A i \in 1 .. m : f[i] = step[i][f[i - 1]]
      <3>1. 0 \in Int
        OBVIOUS
      <3>2. Loops(Int, 0, m, step) # {}
        BY <1>1, <2>2, <3>1, LoopExists
      <3>3. QED
        BY <3>2 DEF Loops
    <2>5. \A i \in 1 .. m : i - 1 \in 0 .. m
      BY <1>1
    <2>6. QED
      BY <2>3, <2>4, <2>5, ZenonT(60)
  <1>6. Counters!Sum(s) = sum[m]
    <2> DEFINE IsSum(f) == f = [i \in 0 .. m |-> IF i = 0 THEN 0 ELSE f[i - 1] + s[i]]
    <2>1. IsSum(sum)
      BY <1>1, <1>5
    <2>2. PICK g : IsSum(g) /\ Counters!Sum(s) = g[m]
      <3>1. Counters!Sum(s) = (CHOOSE f : IsSum(f))[m]
        BY <1>3 DEF Counters!Sum
      <3>2. QED
        BY <2>1, <3>1
    <2>3. \A i \in 0 .. m : g[i] = IF i = 0 THEN 0 ELSE g[i - 1] + s[i]
      BY <2>2
    <2> HIDE DEF IsSum
    <2> DEFINE bad == {i \in Nat : i <= m /\ g[i] # sum[i]}
    <2>4. bad = {}
      <3> SUFFICES ASSUME bad # {} PROVE FALSE
        OBVIOUS
      <3>1. PICK i \in bad : \A j \in bad : i =< j
        <4>1. bad \in SUBSET Nat
          OBVIOUS
        <4> HIDE DEF bad
        <4>2. QED
          BY <4>1, SmallestNat
      <3>2. i # 0
        BY <1>1, <1>5, <2>3
      <3>3. g[i - 1] = sum[i - 1] /\ i \in 1 .. m
        BY <1>1, <3>1, <3>2
      <3>4. QED
        BY <1>1, <1>5, <2>3, <3>1, <3>2, <3>3
    <2>5. QED
      BY <1>1, <2>2, <2>4
  <1>7. \A k \in 0 .. m : sum[k] = Cardinality(Upto(k))
    <2> DEFINE bad == {k \in Nat : k <= m /\ sum[k] # Cardinality(Upto(k))}
    <2> SUFFICES bad = {}
      <3> HIDE DEF Upto
      <3>1. QED
        BY <1>1
    <2> SUFFICES ASSUME bad # {} PROVE FALSE
      OBVIOUS
    <2>1. PICK k \in bad : \A j \in bad : k =< j
      <3>1. bad \in SUBSET Nat
        OBVIOUS
      <3> HIDE DEF bad
      <3>2. QED
        BY <3>1, SmallestNat
    <2>2. k # 0
      <3>1. Upto(0) = {}
        OBVIOUS
      <3>2. QED
        BY <1>5, <2>1, <3>1, FS_EmptySet, ZenonT(60)
    <2>3. k \in 1 .. m /\ sum[k - 1] = Cardinality(Upto(k - 1)) /\ sum[k] = sum[k - 1] + s[k]
      <3> HIDE DEF Upto
      <3>1. k \in Nat /\ k <= m /\ k \in 1 .. m /\ k - 1 \in Nat /\ k - 1 <= m /\ ~ (k =< k - 1)
        BY <1>1, <2>1, <2>2
      <3>2. sum[k - 1] = Cardinality(Upto(k - 1))
        BY <2>1, <3>1
      <3>3. QED
        BY <1>5, <3>1, <3>2
    <2>4. Upto(k) = Upto(k - 1) \cup At(order[k]) /\ Upto(k - 1) \cap At(order[k]) = {}
      <3>1. /\ \A i : i \in 1 .. k <=> i \in 1 .. k - 1 \/ i = k
            /\ \A i \in 1 .. k - 1 : i \in 1 .. m /\ i # k
        BY <1>1, <2>3
      <3>2. QED
        BY <1>2, <2>3, <3>1
    <2>5. s[k] = Cardinality(At(order[k]))
      BY <1>2, <1>3, <2>3 DEF Counts, D
    <2> HIDE DEF Upto, At
    <2>6. Cardinality(Upto(k)) = Cardinality(Upto(k - 1)) + Cardinality(At(order[k])) - Cardinality({})
      BY <1>4, <2>4, FS_Union
    <2>7. QED
      BY <1>4, <2>1, <2>3, <2>5, <2>6, FS_EmptySet
  <1>8. Upto(m) = P
    BY <1>2 DEF Counts, D
  <1> HIDE DEF Upto
  <1>9. sum[m] = Cardinality(P)
    BY <1>1, <1>7, <1>8
  <1>10. QED
    BY <1>6, <1>9 DEF s

\* The endpoints asked, position by position, and what a record is.
SeenRecord == [endpoint : Endpoints, failed : BOOLEAN, ms : Nat]
Asked == [i \in DOMAIN seen |-> seen[i].endpoint]

\* The time spent on an endpoint is between that of as many of its fastest and of as many
\* of its slowest requests.
Between(e) ==
  \E fast, slow \in Counters!Of(e) :
    /\ seen[fast].ms * request_counts[e] <= duration_totals[e]
    /\ duration_totals[e] <= seen[slow].ms * request_counts[e]

MetricsOK ==
  /\ seen \in Seq(SeenRecord)
  /\ total_requests = Len(seen) /\ total_errors = Cardinality(Counters!Failed)
  /\ Counts(request_counts, Asked, DOMAIN seen)
  /\ Counts(error_counts, Asked, Counters!Failed)
  /\ DOMAIN duration_totals = DOMAIN request_counts
  /\ \A e \in DOMAIN duration_totals : duration_totals[e] \in Nat
  /\ \A e \in DOMAIN duration_totals : Between(e)

\* Nothing was counted yet.
LEMMA CountsNone == \A key : Counts([e \in {} |-> 0], key, {})
  BY DEF Counts

\* One more, at a position that is new.
LEMMA CountsPlus ==
  ASSUME NEW P, IsFiniteSet(P), NEW key, NEW more, NEW n, NEW table, Counts(table, key, P),
         n \notin P, \A p \in P : more[p] = key[p],
         NEW e, more[n] = e
  PROVE  Counts(Counters!Plus(table, e, 1), more, P \cup {n})
  <1> DEFINE Q == P \cup {n}
             At(x) == {p \in P : key[p] = x}
             After(x) == {p \in Q : more[p] = x}
             plus == Counters!Plus(table, e, 1)
  <1>1. /\ \A x : x # e => After(x) = At(x)
        /\ After(e) = At(e) \cup {n} /\ n \notin At(e)
    OBVIOUS
  <1>2. IsFiniteSet(At(e))
    <2>1. At(e) \in SUBSET P
      OBVIOUS
    <2> HIDE DEF At
    <2>2. QED
      BY <2>1, FS_Subset
  <1>3. DOMAIN table = {key[p] : p \in P} /\ \A x \in DOMAIN table : table[x] = Cardinality(At(x))
    BY DEF Counts
  <1>4. DOMAIN plus = {more[p] : p \in Q}
    BY <1>3 DEF Counters!Plus
  <1>5. e \notin DOMAIN table => At(e) = {}
    BY <1>3
  <1>6. /\ plus[e] = Counters!ValueOf(table, e) + 1
        /\ \A x \in DOMAIN table : x # e => plus[x] = table[x]
        /\ DOMAIN plus = DOMAIN table \cup {e}
    BY DEF Counters!Plus
  <1> HIDE DEF plus, At, After
  <1>7. Cardinality(After(e)) = Cardinality(At(e)) + 1
    BY <1>1, <1>2, FS_AddElement
  <1>8. Counters!ValueOf(table, e) = Cardinality(At(e))
    BY <1>3, <1>5, FS_EmptySet DEF Counters!ValueOf
  <1>9. ASSUME NEW x \in DOMAIN plus
        PROVE  plus[x] = Cardinality(After(x))
    <2>1. CASE x = e
      BY <1>6, <1>7, <1>8, <2>1
    <2>2. CASE x # e
      BY <1>1, <1>3, <1>6, <2>2
    <2>3. QED
      BY <2>1, <2>2
  <1>10. QED
    BY <1>4, <1>9 DEF Counts, After, plus

\* The same, on positions that are kept.
LEMMA CountsSame ==
  ASSUME NEW P, NEW key, NEW more, NEW table, Counts(table, key, P), \A p \in P : more[p] = key[p]
  PROVE  Counts(table, more, P)
  <1>1. {more[p] : p \in P} = {key[p] : p \in P}
    OBVIOUS
  <1>2. \A x : {p \in P : more[p] = x} = {p \in P : key[p] = x}
    OBVIOUS
  <1>3. QED
    BY <1>1, <1>2 DEF Counts

LEMMA MetricsInit == Counters!Init => MetricsOK
  <1> SUFFICES ASSUME Counters!Init PROVE MetricsOK
    OBVIOUS
  <1>1. /\ seen = <<>> /\ total_requests = 0 /\ total_errors = 0
        /\ request_counts = [e \in {} |-> 0] /\ error_counts = [e \in {} |-> 0]
        /\ duration_totals = [e \in {} |-> 0]
    BY DEF Counters!Init, Counters!Empty
  <1>2. seen \in Seq(SeenRecord) /\ Len(seen) = 0 /\ DOMAIN seen = {}
    BY <1>1, EmptySeq, LenProperties
  <1>3. Counters!Failed = {}
    BY <1>2 DEF Counters!Failed
  <1>4. QED
    BY <1>1, <1>2, <1>3, CountsNone, FS_EmptySet DEF MetricsOK

LEMMA TimesMonotonic == \A a, b, c \in Nat : a <= b => a * c <= b * c
  <1> SUFFICES ASSUME NEW a \in Nat, NEW b \in Nat, NEW c \in Nat, a <= b PROVE a * c <= b * c
    OBVIOUS
  <1> DEFINE d == b - a
  <1>1. d \in Nat /\ b = a + d
    OBVIOUS
  <1> HIDE DEF d
  <1>2. b * c = a * c + d * c /\ d * c \in Nat /\ a * c \in Nat
    BY <1>1
  <1>3. QED
    BY <1>2

\* What one more request does to an average that lies between the fastest and the slowest.
LEMMA BetweenPlus ==
  ASSUME NEW f \in Nat, NEW l \in Nat, NEW ms \in Nat, NEW n \in Nat, NEW t \in Nat,
         f * n <= t, t <= l * n
  PROVE  /\ f * (n + 1) <= t + ms \/ ms * (n + 1) <= t + ms
         /\ t + ms <= l * (n + 1) \/ t + ms <= ms * (n + 1)
  <1>1. /\ f * (n + 1) = f * n + f /\ l * (n + 1) = l * n + l /\ ms * (n + 1) = ms * n + ms
        /\ f * n \in Nat /\ l * n \in Nat /\ ms * n \in Nat
    OBVIOUS
  <1>2. (ms <= f => ms * n <= f * n) /\ (l <= ms => l * n <= ms * n)
    BY TimesMonotonic
  <1>3. QED
    BY <1>1, <1>2

LEMMA MetricsRecord ==
  ASSUME MetricsOK, NEW e \in Endpoints, NEW code \in Successes \cup Failures,
         NEW ms \in Durations, Counters!Record(e, code, ms)
  PROVE  MetricsOK'
  <1> DEFINE new == [endpoint |-> e, failed |-> code \in Failures, ms |-> ms]
             n == Len(seen) + 1
             P == DOMAIN seen
             failed == code \in Failures
  <1>1. Counters!IsError(code) <=> failed
    BY StatusesAssumption DEF Counters!IsError
  <1>2. /\ new \in SeenRecord /\ new.endpoint = e /\ (new.failed <=> failed) /\ new.ms = ms
        /\ ms \in Nat
    <2>1. ms \in Nat
      BY DurationsAssumption
    <2>2. failed \in BOOLEAN
      OBVIOUS
    <2>3. new = [endpoint |-> e, failed |-> failed, ms |-> ms]
      OBVIOUS
    <2> HIDE DEF failed, new
    <2>4. new \in SeenRecord /\ new.endpoint = e /\ new.ms = ms
      BY <2>1, <2>2, <2>3 DEF SeenRecord
    <2>5. new.failed <=> failed
      BY Zenon, <2>3
    <2>6. QED
      BY <2>1, <2>4, <2>5
  <1>3. /\ seen' = Append(seen, new)
        /\ request_counts' = Counters!Plus(request_counts, e, 1)
        /\ duration_totals' = Counters!Plus(duration_totals, e, ms)
        /\ total_requests' = total_requests + 1
    BY DEF Counters!Record
  <1>4. /\ failed => /\ error_counts' = Counters!Plus(error_counts, e, 1)
                     /\ total_errors' = total_errors + 1
        /\ ~ failed => error_counts' = error_counts /\ total_errors' = total_errors + 0
    BY <1>1 DEF Counters!Record
  <1> HIDE DEF new, failed
  <1>5. /\ seen \in Seq(SeenRecord) /\ P = 1 .. Len(seen) /\ Len(seen) \in Nat
        /\ seen' \in Seq(SeenRecord) /\ Len(seen') = n /\ n \notin P
        /\ \A p \in P : seen'[p] = seen[p]
        /\ seen'[n] = new /\ DOMAIN seen' = P \cup {n}
    <2>1. seen \in Seq(SeenRecord) /\ P = 1 .. Len(seen) /\ Len(seen) \in Nat
      BY LenProperties DEF MetricsOK
    <2>2. /\ seen' \in Seq(SeenRecord) /\ Len(seen') = n
          /\ \A p \in 1 .. Len(seen) : seen'[p] = seen[p]
          /\ seen'[n] = new
      BY <1>2, <1>3, <2>1, AppendProperties
    <2>3. DOMAIN seen' = 1 .. n
      BY <2>2, LenProperties
    <2>4. QED
      BY <2>1, <2>2, <2>3
  <1> HIDE DEF n, P
  <1>6. /\ \A p \in P : Asked'[p] = Asked[p]
        /\ Asked'[n] = e
    BY <1>2, <1>5 DEF Asked, P
  <1>7. Counters!Failed' = Counters!Failed \cup (IF failed THEN {n} ELSE {})
    BY <1>2, <1>5 DEF Counters!Failed, P
  <1>8. IsFiniteSet(P) /\ Counters!Failed \in SUBSET P
    BY <1>5, FS_Interval, 1 \in Int DEF Counters!Failed, P
  <1>9. IsFiniteSet(Counters!Failed) /\ n \notin Counters!Failed
    BY <1>5, <1>8, FS_Subset
  <1>10. Counts(request_counts', Asked', DOMAIN seen')
    <2>1. Counts(request_counts, Asked, P)
      BY DEF MetricsOK, P
    <2>2. Counts(Counters!Plus(request_counts, e, 1), Asked', P \cup {n})
      BY <1>5, <1>6, <1>8, <2>1, CountsPlus
    <2>3. QED
      BY <1>3, <1>5, <2>2
  <1>11. Counts(error_counts', Asked', Counters!Failed')
    <2>1. Counts(error_counts, Asked, Counters!Failed)
      BY DEF MetricsOK
    <2>2. \A p \in Counters!Failed : Asked'[p] = Asked[p]
      BY <1>6, <1>8
    <2>3. CASE failed
      <3>1. Counts(Counters!Plus(error_counts, e, 1), Asked', Counters!Failed \cup {n})
        BY <1>6, <1>9, <2>1, <2>2, CountsPlus
      <3>2. QED
        BY <1>4, <1>7, <2>3, <3>1
    <2>4. CASE ~ failed
      <3>1. Counts(error_counts, Asked', Counters!Failed)
        BY <2>1, <2>2, CountsSame
      <3>2. Counters!Failed' = Counters!Failed
        BY <1>7, <2>4
      <3>3. QED
        BY <1>4, <2>4, <3>1, <3>2
    <2>5. QED
      BY <2>3, <2>4
  <1>12. total_requests' = Len(seen') /\ total_errors' = Cardinality(Counters!Failed')
    <2>1. total_requests = Len(seen) /\ total_errors = Cardinality(Counters!Failed)
      BY DEF MetricsOK
    <2>2. Cardinality(Counters!Failed \cup {n}) = Cardinality(Counters!Failed) + 1
      BY <1>9, FS_AddElement
    <2>3. Cardinality(Counters!Failed) \in Nat /\ Counters!Failed \cup {} = Counters!Failed
      BY <1>9, FS_CardinalityType
    <2>4. total_requests' = Len(seen')
      BY <1>3, <1>5, <2>1 DEF n
    <2> DEFINE c == Cardinality(Counters!Failed)
               F == Counters!Failed'
    <2>5. CASE failed
      <3>1. F = Counters!Failed \cup {n} /\ total_errors' = c + 1
        BY <1>4, <1>7, <2>1, <2>5
      <3>2. Cardinality(F) = c + 1
        BY <2>2, <3>1
      <3>3. QED
        BY <2>4, <3>1, <3>2
    <2>6. CASE ~ failed
      <3>1. F = Counters!Failed /\ total_errors' = c
        BY <1>4, <1>7, <2>1, <2>3, <2>6
      <3>2. Cardinality(F) = c
        BY <3>1
      <3>3. QED
        BY <2>4, <3>1, <3>2
    <2>7. QED
      BY <2>5, <2>6
  <1>13. /\ DOMAIN duration_totals' = DOMAIN duration_totals \cup {e}
         /\ DOMAIN request_counts' = DOMAIN request_counts \cup {e}
         /\ \A x \in DOMAIN duration_totals : x # e => duration_totals'[x] = duration_totals[x]
         /\ \A x \in DOMAIN request_counts : x # e => request_counts'[x] = request_counts[x]
         /\ duration_totals'[e] = Counters!ValueOf(duration_totals, e) + ms
         /\ request_counts'[e] = Counters!ValueOf(request_counts, e) + 1
         /\ DOMAIN duration_totals = DOMAIN request_counts
    BY <1>3 DEF Counters!Plus, MetricsOK
  <1>14. \A x \in DOMAIN duration_totals : duration_totals[x] \in Nat /\ Between(x)
    BY DEF MetricsOK
  <1>15. \A x \in DOMAIN duration_totals' : duration_totals'[x] \in Nat
    BY <1>2, <1>13, <1>14 DEF Counters!ValueOf
  <1>16. ASSUME NEW x \in DOMAIN duration_totals'
         PROVE  Between(x)'
    <2>1. /\ \A p \in Counters!Of(x) : p \in Counters!Of(x)' /\ seen'[p] = seen[p] /\ seen[p].ms \in Nat
          /\ n \in Counters!Of(e)' /\ seen'[n].ms = ms
      <3>1. \A p \in P : seen[p] \in SeenRecord
        BY <1>5, ElementOfSeq
      <3>2. QED
        BY <1>2, <1>5, <3>1 DEF Counters!Of, P, SeenRecord
    <2>2. CASE x # e
      <3>1. /\ x \in DOMAIN duration_totals
            /\ request_counts'[x] = request_counts[x] /\ duration_totals'[x] = duration_totals[x]
        BY <1>13, <2>2
      <3>2. PICK fast \in Counters!Of(x), slow \in Counters!Of(x) :
              /\ seen[fast].ms * request_counts[x] <= duration_totals[x]
              /\ duration_totals[x] <= seen[slow].ms * request_counts[x]
        BY <1>14, <3>1 DEF Between
      <3>3. QED
        BY <2>1, <3>1, <3>2 DEF Between
    <2>3. CASE x = e /\ e \in DOMAIN duration_totals
      <3> DEFINE k == request_counts[e]
                 t == duration_totals[e]
      <3>1. PICK fast \in Counters!Of(x), slow \in Counters!Of(x) :
              /\ seen[fast].ms * k <= t
              /\ t <= seen[slow].ms * k
        BY <1>14, <2>3 DEF Between
      <3>2. /\ request_counts'[e] = k + 1 /\ duration_totals'[e] = t + ms
        BY <1>13, <2>3 DEF Counters!ValueOf
      <3>3. k \in Nat /\ t \in Nat /\ seen[fast].ms \in Nat /\ seen[slow].ms \in Nat
        <4>1. k \in Nat
          <5> DEFINE Q == {p \in P : Asked[p] = e}
          <5>1. k = Cardinality(Q)
            BY <1>13, <2>3 DEF MetricsOK, Counts, P
          <5>2. Q \in SUBSET P
            OBVIOUS
          <5> HIDE DEF Q
          <5>3. QED
            BY <1>8, <5>1, <5>2, FS_Subset, FS_CardinalityType
        <4>2. QED
          BY <1>14, <2>1, <2>3, <4>1
      <3> HIDE DEF k, t
      <3>4. /\ seen[fast].ms * (k + 1) <= t + ms \/ ms * (k + 1) <= t + ms
            /\ t + ms <= seen[slow].ms * (k + 1) \/ t + ms <= ms * (k + 1)
        BY <1>2, <3>1, <3>3, BetweenPlus
      <3>5. \E f \in Counters!Of(x)' : seen'[f].ms * (k + 1) <= t + ms
        BY <2>1, <2>3, <3>4
      <3>6. \E l \in Counters!Of(x)' : t + ms <= seen'[l].ms * (k + 1)
        BY <2>1, <2>3, <3>4
      <3>7. QED
        BY <2>3, <3>2, <3>5, <3>6 DEF Between
    <2>4. CASE x = e /\ e \notin DOMAIN duration_totals
      <3>1. request_counts'[e] = 0 + 1 /\ duration_totals'[e] = 0 + ms
        BY <1>13, <2>4 DEF Counters!ValueOf
      <3>2. ms * 1 = ms /\ 0 + 1 = 1 /\ 0 + ms = ms /\ ms <= ms
        BY <1>2
      <3>3. QED
        BY <2>1, <2>4, <3>1, <3>2 DEF Between
    <2>5. QED
      BY <1>13, <2>2, <2>3, <2>4
  <1>17. QED
    BY <1>5, <1>10, <1>11, <1>12, <1>13, <1>15, <1>16 DEF MetricsOK

LEMMA MetricsNext ==
  ASSUME MetricsOK, [Counters!Next]_metricsVars
  PROVE  MetricsOK'
  <1>1. ASSUME NEW e \in Endpoints, NEW code \in Successes \cup Failures, NEW ms \in Durations,
               Counters!Record(e, code, ms)
        PROVE  MetricsOK'
    BY <1>1, MetricsRecord
  <1>2. CASE Counters!Clear
    <2>1. Counters!Init'
      BY <1>2 DEF Counters!Clear, Counters!Init
    <2>2. (Counters!Init => MetricsOK)'
      BY MetricsInit, PTL
    <2>3. QED
      BY <2>1, <2>2
  <1>3. CASE UNCHANGED metricsVars
    BY <1>3 DEF metricsVars, MetricsOK, Counters!Failed, Asked, Between, Counters!Of
  <1>4. QED
    BY <1>1, <1>2, <1>3 DEF Counters!Next

\* The average of numbers that add up to between so many of the lowest and the highest.
LEMMA AverageBetween ==
  ASSUME NEW f \in Nat, NEW l \in Nat, NEW n \in Nat \ {0}, NEW t \in Nat, f * n <= t, t <= l * n
  PROVE  f <= t \div n /\ t \div n <= l
  <1> DEFINE q == t \div n
  <1>1. q \in Nat /\ q * n <= t /\ t < (q + 1) * n
    OBVIOUS
  <1> HIDE DEF q
  <1>2. f <= q
    <2> SUFFICES ASSUME q + 1 <= f PROVE FALSE
      BY <1>1
    <2>1. (q + 1) * n <= f * n
      BY <1>1, TimesMonotonic
    <2>2. (q + 1) * n \in Nat /\ f * n \in Nat
      BY <1>1
    <2>3. QED
      BY <1>1, <2>1, <2>2
  <1>3. q <= l
    <2> SUFFICES ASSUME l + 1 <= q PROVE FALSE
      BY <1>1
    <2>1. (l + 1) * n <= q * n
      BY <1>1, TimesMonotonic
    <2>2. (l + 1) * n = l * n + n /\ l * n \in Nat /\ q * n \in Nat
      BY <1>1
    <2>3. QED
      BY <1>1, <2>1, <2>2
  <1>4. QED
    BY <1>2, <1>3 DEF q

LEMMA MetricsSafe ==
  ASSUME MetricsOK
  PROVE  Counters!MetricsTellWhatWasServed
  <1> DEFINE P == DOMAIN seen
  <1>1. /\ seen \in Seq(SeenRecord) /\ P = 1 .. Len(seen) /\ Len(seen) \in Nat
        /\ \A p \in P : seen[p] \in SeenRecord
    BY LenProperties, ElementOfSeq DEF MetricsOK
  <1>2. /\ total_requests = Len(seen) /\ total_errors = Cardinality(Counters!Failed)
        /\ Counts(request_counts, Asked, P) /\ Counts(error_counts, Asked, Counters!Failed)
        /\ DOMAIN duration_totals = DOMAIN request_counts
        /\ \A e \in DOMAIN duration_totals : duration_totals[e] \in Nat /\ Between(e)
    BY DEF MetricsOK
  <1>3. IsFiniteSet(P) /\ Cardinality(P) = Len(seen) /\ Counters!Failed \in SUBSET P
    BY <1>1, FS_Interval, 1 \in Int DEF Counters!Failed
  <1>4. IsFiniteSet(Counters!Failed)
    BY <1>3, FS_Subset
  <1>5. /\ Counters!Json.requests = total_requests /\ Counters!Json.errors = total_errors
        /\ DOMAIN Counters!Json.endpoints = DOMAIN request_counts
        /\ \A e \in DOMAIN request_counts :
             /\ Counters!Json.endpoints[e].requests = request_counts[e]
             /\ Counters!Json.endpoints[e].errors = Counters!ValueOf(error_counts, e)
             /\ Counters!Json.endpoints[e].avg_ms
                  = Counters!ValueOf(duration_totals, e) \div request_counts[e]
        /\ Counters!Prometheus.endpoints = Counters!Series(request_counts)
        /\ Counters!Prometheus.failures = Counters!Series(error_counts)
    BY DEF Counters!Json, Counters!Prometheus
  <1>6. \A S : Counters!Cardinality(S) = Cardinality(S)
    BY Zenon DEF Counters!Cardinality, Cardinality
  <1>7. DOMAIN request_counts = {seen[i].endpoint : i \in DOMAIN seen}
    BY <1>2 DEF Counts, Asked
  <1>8. ASSUME NEW e \in DOMAIN request_counts
        PROVE  /\ request_counts[e] = Cardinality(Counters!Of(e))
               /\ request_counts[e] \in Nat \ {0}
               /\ Counters!ValueOf(error_counts, e) = Cardinality(Counters!Of(e) \cap Counters!Failed)
               /\ \E fast, slow \in Counters!Of(e) :
                    /\ seen[fast].ms <= Counters!ValueOf(duration_totals, e) \div request_counts[e]
                    /\ Counters!ValueOf(duration_totals, e) \div request_counts[e] <= seen[slow].ms
    <2>1. /\ Counters!Of(e) = {p \in P : Asked[p] = e}
          /\ Counters!Of(e) \cap Counters!Failed = {p \in Counters!Failed : Asked[p] = e}
          /\ Counters!Of(e) \in SUBSET P
      BY <1>3 DEF Counters!Of, Asked
    <2>2. request_counts[e] = Cardinality(Counters!Of(e))
      BY <1>2, <2>1 DEF Counts
    <2>3. PICK fast \in Counters!Of(e), slow \in Counters!Of(e) :
            /\ seen[fast].ms * request_counts[e] <= duration_totals[e]
            /\ duration_totals[e] <= seen[slow].ms * request_counts[e]
      BY <1>2 DEF Between
    <2>4. request_counts[e] \in Nat \ {0}
      <3>1. IsFiniteSet(Counters!Of(e)) /\ Counters!Of(e) # {}
        BY <1>3, <2>1, <2>3, FS_Subset
      <3>2. QED
        BY <2>2, <3>1, FS_CardinalityType, FS_EmptySet
    <2>5. Counters!ValueOf(error_counts, e) = Cardinality(Counters!Of(e) \cap Counters!Failed)
      <3>1. CASE e \in DOMAIN error_counts
        BY <1>2, <2>1, <3>1 DEF Counters!ValueOf, Counts
      <3>2. CASE e \notin DOMAIN error_counts
        <4>1. Counters!Of(e) \cap Counters!Failed = {}
          BY <1>2, <2>1, <3>2 DEF Counts
        <4>2. QED
          BY <3>2, <4>1, FS_EmptySet DEF Counters!ValueOf
      <3>3. QED
        BY <3>1, <3>2
    <2>6. /\ seen[fast].ms \in Nat /\ seen[slow].ms \in Nat /\ duration_totals[e] \in Nat
          /\ Counters!ValueOf(duration_totals, e) = duration_totals[e]
      BY <1>1, <1>2, <2>1 DEF SeenRecord, Counters!ValueOf
    <2>7. /\ seen[fast].ms <= duration_totals[e] \div request_counts[e]
          /\ duration_totals[e] \div request_counts[e] <= seen[slow].ms
      BY <2>3, <2>4, <2>6, AverageBetween
    <2>8. QED
      BY <2>2, <2>4, <2>5, <2>6, <2>7
  <1>9. /\ Counters!Sum(Counters!Numbers(Counters!Series(request_counts))) = Cardinality(P)
        /\ Counters!Sum(Counters!Numbers(Counters!Series(error_counts))) = Cardinality(Counters!Failed)
    BY <1>2, <1>3, <1>4, SumOfCounts
  <1>10. \A e \in DOMAIN Counters!Json.endpoints :
           /\ Counters!Json.endpoints[e].requests = Counters!Cardinality(Counters!Of(e))
           /\ Counters!Json.endpoints[e].errors = Counters!Cardinality(Counters!Of(e) \cap Counters!Failed)
           /\ \E fast, slow \in Counters!Of(e) :
                /\ seen[fast].ms <= Counters!Json.endpoints[e].avg_ms
                /\ Counters!Json.endpoints[e].avg_ms <= seen[slow].ms
    <2> SUFFICES ASSUME NEW e \in DOMAIN request_counts
                 PROVE  /\ Counters!Json.endpoints[e].requests = Counters!Cardinality(Counters!Of(e))
                        /\ Counters!Json.endpoints[e].errors = Counters!Cardinality(Counters!Of(e) \cap Counters!Failed)
                        /\ \E fast, slow \in Counters!Of(e) :
                             /\ seen[fast].ms <= Counters!Json.endpoints[e].avg_ms
                             /\ Counters!Json.endpoints[e].avg_ms <= seen[slow].ms
      BY <1>5
    <2>1. /\ Counters!Json.endpoints[e].requests = Counters!Cardinality(Counters!Of(e))
          /\ Counters!Json.endpoints[e].errors = Counters!Cardinality(Counters!Of(e) \cap Counters!Failed)
      BY <1>5, <1>6, <1>8
    <2>2. Counters!Json.endpoints[e].avg_ms = Counters!ValueOf(duration_totals, e) \div request_counts[e]
      BY <1>5
    <2> DEFINE avg == Counters!ValueOf(duration_totals, e) \div request_counts[e]
    <2>3. \E fast, slow \in Counters!Of(e) : seen[fast].ms <= avg /\ avg <= seen[slow].ms
      BY <1>8
    <2> HIDE DEF avg
    <2>4. QED
      BY <2>1, <2>2, <2>3 DEF avg
  <1>11. QED
    BY <1>2, <1>3, <1>5, <1>6, <1>7, <1>9, <1>10 DEF Counters!MetricsTellWhatWasServed

---------------------------------------------------------------------------------
\* The slot of a key: the division.

\* Of a division that has come down to x^(s+16) and a register: the terms T that are left
\* are the register's lower half, s places up, and the bytes Q that are still to come.
Agree(T, crc, Q, s) ==
  /\ T \in SUBSET Int /\ crc \in SUBSET Nat
  /\ \A e \in Int : e \in T <=> ~ ((e - s \in crc /\ e - s \in 0 .. 15) <=> e \in Q)

LEMMA XorIn == \A a, b : \A x : x \in Cluster!Xor(a, b) <=> ~ (x \in a <=> x \in b)
  BY DEF Cluster!Xor

LEMMA ShiftIn == \A a \in SUBSET Nat : \A n \in Nat : \A x \in Int :
                   x \in Cluster!Shift(a, n) <=> x - n \in a /\ x \in 0 .. 31
  BY DEF Cluster!Shift

LEMMA ShiftType == \A a, n : Cluster!Shift(a, n) \in SUBSET Nat
  BY DEF Cluster!Shift

LEMMA ShiftedType == \A crc \in SUBSET Nat : Cluster!Shifted(crc) \in SUBSET Nat
  BY ShiftType DEF Cluster!Shifted, Cluster!Xor, Cluster!Polynomial

LEMMA DividedType == \A T \in SUBSET Int : \A top \in Int : Cluster!Divided(T, top) \in SUBSET Int
  BY DEF Cluster!Divided, Cluster!Xor

\* One turn of the loop is one step of the division.
LEMMA AgreeTurn ==
  ASSUME NEW T, NEW crc, NEW Q, NEW s \in Nat \ {0}, Agree(T, crc, Q, s),
         \A e \in Q : e \in Int /\ e < s + 15
  PROVE  Agree(Cluster!Divided(T, s + 15), Cluster!Shifted(crc), Q, s - 1)
  <1> DEFINE top == s + 15
             U == Cluster!Divided(T, top)
             after == Cluster!Shifted(crc)
             moved == Cluster!Shift(crc, 1)
  <1>1. /\ T \in SUBSET Int /\ crc \in SUBSET Nat /\ top \in Int
        /\ U \in SUBSET Int /\ after \in SUBSET Nat
    BY DividedType, ShiftedType DEF Agree
  <1>2. /\ \A x \in Int : x \in moved <=> x - 1 \in crc /\ x \in 0 .. 31
        /\ 16 \in moved <=> 15 \in crc
    BY <1>1, ShiftIn
  <1>3. top \in T <=> 15 \in crc
    BY <1>1 DEF Agree
  <1> SUFFICES ASSUME NEW e \in Int
               PROVE  e \in U <=> ~ ((e - (s - 1) \in after /\ e - (s - 1) \in 0 .. 15) <=> e \in Q)
    BY <1>1 DEF Agree
  <1> DEFINE d == e - (s - 1)
  <1>4. d \in Int /\ d - 1 = e - s /\ e = d + s - 1
    OBVIOUS
  <1>5. e \in T <=> ~ ((d - 1 \in crc /\ d - 1 \in 0 .. 15) <=> e \in Q)
    BY <1>4 DEF Agree
  <1>6. CASE 15 \notin crc
    <2>1. U = T /\ after = moved
      BY <1>2, <1>3, <1>6 DEF Cluster!Divided, Cluster!Shifted
    <2>2. d \in moved /\ d \in 0 .. 15 <=> d - 1 \in crc /\ d - 1 \in 0 .. 15
      BY <1>1, <1>2, <1>4, <1>6
    <2> HIDE DEF U, after, moved, d
    <2>3. e \in U <=> ~ ((d \in after /\ d \in 0 .. 15) <=> e \in Q)
      BY <1>5, <2>1, <2>2
    <2>4. QED
      BY <2>3 DEF d
  <1>7. CASE 15 \in crc
    <2>1. U = Cluster!Xor(T, {top, top - 4, top - 11, top - 16}) /\ after = Cluster!Xor(moved, {0, 5, 12})
      BY <1>2, <1>3, <1>7 DEF Cluster!Divided, Cluster!Shifted, Cluster!Polynomial
    <2>2. e \in {top, top - 4, top - 11, top - 16} <=> d \in {16, 12, 5, 0}
      BY <1>4
    <2>3. /\ e \in U <=> ~ (e \in T <=> d \in {16, 12, 5, 0})
          /\ d \in after <=> ~ (d \in moved <=> d \in {0, 5, 12})
      BY <2>1, <2>2, XorIn
    <2>4. d = 16 => e \notin Q
      BY <1>4
    <2> HIDE DEF U, after, moved, d, top
    <2>5. e \in U <=> ~ ((d \in after /\ d \in 0 .. 15) <=> e \in Q)
      <3>1. CASE d \in 0 .. 15
        BY <1>1, <1>2, <1>4, <1>5, <2>3, <3>1
      <3>2. CASE d = 16
        BY <1>4, <1>5, <1>7, <2>3, <2>4, <3>2
      <3>3. CASE d \notin 0 .. 16
        BY <1>1, <1>4, <1>5, <2>3, <3>3
      <3>4. QED
        BY <1>4, <3>1, <3>2, <3>3
    <2>6. QED
      BY <2>5 DEF d
  <1>8. QED
    BY <1>6, <1>7

\* The terms of the bytes after the k-th.
Later(data, k) ==
  {e \in Int : \E m \in k + 1 .. Len(data) :
                 \E i \in Cluster!BitsOf(data[m]) : e = i + 8 * (Len(data) - m) + 16}

LEMMA BitsType == \A byte : \A i \in Cluster!BitsOf(byte) : i \in 0 .. 7
  BY DEF Cluster!BitsOf

\* A byte is added to the register.
LEMMA AgreeByte ==
  ASSUME NEW data, Len(data) \in Nat, NEW k \in 1 .. Len(data), NEW T, NEW crc,
         NEW s, s = 8 * (Len(data) - k) + 8, Agree(T, crc, Later(data, k - 1), s)
  PROVE  Agree(T, Cluster!Xor(crc, Cluster!Shift(Cluster!BitsOf(data[k]), 8)), Later(data, k), s)
  <1> DEFINE bits == Cluster!BitsOf(data[k])
             after == Cluster!Xor(crc, Cluster!Shift(bits, 8))
             L == Len(data)
  <1>1. bits \in SUBSET Nat /\ \A i \in bits : i \in 0 .. 7
    BY BitsType
  <1>2. T \in SUBSET Int /\ crc \in SUBSET Nat /\ after \in SUBSET Nat
    <2>1. crc \in SUBSET Nat /\ Cluster!Shift(bits, 8) \in SUBSET Nat
      BY ShiftType DEF Agree
    <2>2. QED
      BY <2>1 DEF Agree, Cluster!Xor
  <1> SUFFICES ASSUME NEW e \in Int
               PROVE  e \in T <=> ~ ((e - s \in after /\ e - s \in 0 .. 15) <=> e \in Later(data, k))
    BY <1>2 DEF Agree
  <1> DEFINE d == e - s
  <1>3. e \in T <=> ~ ((d \in crc /\ d \in 0 .. 15) <=> e \in Later(data, k - 1))
    BY DEF Agree
  <1>4. e \in Later(data, k - 1) <=> e \in Later(data, k) \/ d - 8 \in bits
    <2>1. \A m : m \in (k - 1) + 1 .. L <=> m \in k + 1 .. L \/ m = k
      OBVIOUS
    <2>2. e \in Later(data, k - 1)
            <=> e \in Later(data, k) \/ \E i \in bits : e = i + 8 * (L - k) + 16
      BY <2>1 DEF Later
    <2>3. (\E i \in bits : e = i + 8 * (L - k) + 16) <=> d - 8 \in bits
      <3>1. \A i \in bits : i \in Int
        BY <1>1
      <3> HIDE DEF bits
      <3>2. ASSUME NEW i \in bits, e = i + 8 * (L - k) + 16
            PROVE  d - 8 = i
        <4>1. i \in Int
          BY <3>1
        <4>2. QED
          BY <3>2, <4>1
      <3>3. ASSUME d - 8 \in bits
            PROVE  e = (d - 8) + 8 * (L - k) + 16
        OBVIOUS
      <3>4. QED
        BY <3>2, <3>3
    <2>4. QED
      BY <2>2, <2>3
  <1>5. ASSUME e \in Later(data, k)
        PROVE  d < 8
    <2>1. PICK m \in k + 1 .. L : \E i \in Cluster!BitsOf(data[m]) : e = i + 8 * (L - m) + 16
      BY <1>5 DEF Later
    <2>2. PICK i \in Cluster!BitsOf(data[m]) : e = i + 8 * (L - m) + 16
      BY <2>1
    <2>3. i \in 0 .. 7
      BY BitsType
    <2>4. QED
      BY <2>2, <2>3
  <1> HIDE DEF bits
  <1>10. d \in Int
    OBVIOUS
  <1>6. d \in after <=> ~ (d \in crc <=> d - 8 \in bits /\ d \in 0 .. 31)
    <2> DEFINE high == Cluster!Shift(bits, 8)
    <2>1. d \in high <=> d - 8 \in bits /\ d \in 0 .. 31
      BY <1>1, <1>10, ShiftIn
    <2> HIDE DEF high
    <2>2. d \in Cluster!Xor(crc, high) <=> ~ (d \in crc <=> d \in high)
      BY XorIn
    <2>3. QED
      BY <2>1, <2>2 DEF high
  <1>7. d - 8 \in bits => d \in 8 .. 15 /\ d \in 0 .. 15 /\ d \in 0 .. 31
    <2> HIDE DEF d
    <2>1. QED
      BY <1>1, <1>10
  <1> HIDE DEF after, bits, d
  <1>8. e \in T <=> ~ ((d \in after /\ d \in 0 .. 15) <=> e \in Later(data, k))
    <2>1. e \in Later(data, k) => ~ (d - 8 \in bits)
      BY <1>5, <1>7
    <2>2. QED
      BY <1>3, <1>4, <1>6, <1>7, <2>1
  <1>9. QED
    BY <1>8 DEF d, after, bits

\* The values of the three loops.
IsTurned(f, start) ==
  f = [i \in 0 .. 8 |-> IF i = 0 THEN start ELSE Cluster!Shifted(f[i - 1])]
IsCrc(f, data) ==
  f = [k \in 0 .. Len(data) |-> IF k = 0 THEN {} ELSE Cluster!WithByte(f[k - 1], data[k])]
IsLeft(f, terms, size) ==
  f = [i \in 0 .. size |-> IF i = 0 THEN terms ELSE Cluster!Divided(f[i - 1], size + 16 - i)]

LEMMA TurnedExists ==
  ASSUME NEW crc \in SUBSET Nat, NEW byte
  PROVE  \E f : /\ IsTurned(f, Cluster!Xor(crc, Cluster!Shift(Cluster!BitsOf(byte), 8)))
               /\ Cluster!WithByte(crc, byte) = f[8]
               /\ \A i \in 0 .. 8 : f[i] \in SUBSET Nat
  <1> DEFINE D == SUBSET Nat
             start == Cluster!Xor(crc, Cluster!Shift(Cluster!BitsOf(byte), 8))
             step == [i \in 1 .. 8 |-> [x \in D |-> Cluster!Shifted(x)]]
  <1>1. start \in D
    BY ShiftType DEF Cluster!Xor
  <1>2. step \in [1 .. 8 -> [D -> D]] /\ \A i \in 1 .. 8 : \A x \in D : step[i][x] = Cluster!Shifted(x)
    BY ShiftedType
  <1>3. Cluster!WithByte(crc, byte) = (CHOOSE f : IsTurned(f, start))[8]
    BY DEF Cluster!WithByte, IsTurned
  <1> HIDE DEF step, start, D
  <1>4. PICK f \in [0 .. 8 -> D] : f[0] = start /\ \A i \in 1 .. 8 : f[i] = step[i][f[i - 1]]
    <2>1. 8 \in Nat
      OBVIOUS
    <2>2. Loops(D, start, 8, step) # {}
      BY <1>1, <1>2, <2>1, LoopExists
    <2>3. QED
      BY <2>2 DEF Loops
  <1>5. IsTurned(f, start)
    <2>1. \A i \in 0 .. 8 : f[i] = IF i = 0 THEN start ELSE Cluster!Shifted(f[i - 1])
      BY <1>2, <1>4
    <2>2. f = [i \in 0 .. 8 |-> f[i]]
      BY <1>4
    <2>3. QED
      BY <2>1, <2>2 DEF IsTurned
  <1>6. PICK g : IsTurned(g, start) /\ Cluster!WithByte(crc, byte) = g[8]
    BY <1>3, <1>5
  <1>7. \A i \in 0 .. 8 : g[i] = IF i = 0 THEN start ELSE Cluster!Shifted(g[i - 1])
    BY <1>6 DEF IsTurned
  <1>8. \A i \in 0 .. 8 : g[i] \in SUBSET Nat
    <2> DEFINE S == {i \in 0 .. 8 : g[i] \in SUBSET Nat}
    <2>1. 0 \in S
      <3>1. g[0] = start /\ 0 \in 0 .. 8
        BY <1>7
      <3>2. g[0] \in SUBSET Nat
        BY <1>1, <3>1 DEF D
      <3>3. QED
        BY <3>1, <3>2
    <2>2. \A i \in 1 .. 8 : i - 1 \in S => i \in S
      BY <1>7, ShiftedType
    <2> HIDE DEF S
    <2>3. \A i \in 0 .. 8 : i \in S
      BY <2>1, <2>2, Stepwise, 8 \in Nat
    <2>4. QED
      BY <2>3 DEF S
  <1>9. QED
    BY <1>6, <1>8 DEF start

LEMMA WithByteType == \A crc \in SUBSET Nat : \A byte : Cluster!WithByte(crc, byte) \in SUBSET Nat
  <1> SUFFICES ASSUME NEW crc \in SUBSET Nat, NEW byte
               PROVE  Cluster!WithByte(crc, byte) \in SUBSET Nat
    OBVIOUS
  <1>1. PICK f : Cluster!WithByte(crc, byte) = f[8] /\ \A i \in 0 .. 8 : f[i] \in SUBSET Nat
    BY TurnedExists
  <1>2. 8 \in 0 .. 8
    OBVIOUS
  <1>3. QED
    BY <1>1, <1>2

LEMMA CrcExists ==
  ASSUME NEW data, Len(data) \in Nat
  PROVE  \E f : IsCrc(f, data) /\ Cluster!Crc16(data) = Cluster!NumberOf(f[Len(data)] \cap 0 .. 15)
  <1> DEFINE D == SUBSET Nat
             L == Len(data)
             start == {}
             step == [i \in 1 .. L |-> [x \in D |-> Cluster!WithByte(x, data[i])]]
  <1>1. start \in D
    OBVIOUS
  <1>2. step \in [1 .. L -> [D -> D]] /\ \A i \in 1 .. L : \A x \in D : step[i][x] = Cluster!WithByte(x, data[i])
    BY WithByteType
  <1>3. Cluster!Crc16(data) = Cluster!NumberOf((CHOOSE f : IsCrc(f, data))[L] \cap 0 .. 15)
    BY DEF Cluster!Crc16, IsCrc
  <1> HIDE DEF step, start, D
  <1>4. PICK f \in [0 .. L -> D] : f[0] = start /\ \A i \in 1 .. L : f[i] = step[i][f[i - 1]]
    <2>1. Loops(D, start, L, step) # {}
      BY <1>1, <1>2, LoopExists
    <2>2. QED
      BY <2>1 DEF Loops
  <1>5. IsCrc(f, data)
    <2>1. ASSUME NEW i \in 0 .. L
          PROVE  f[i] = IF i = 0 THEN {} ELSE Cluster!WithByte(f[i - 1], data[i])
      <3>1. CASE i = 0
        BY <1>4, <3>1 DEF start
      <3>2. CASE i # 0
        <4>1. i \in 1 .. L /\ i - 1 \in 0 .. L
          BY <3>2
        <4>2. QED
          BY <1>2, <1>4, <3>2, <4>1
      <3>3. QED
        BY <3>1, <3>2
    <2>2. f = [i \in 0 .. L |-> f[i]]
      BY <1>4
    <2>3. QED
      BY <2>1, <2>2 DEF IsCrc
  <1>6. QED
    BY <1>3, <1>5

LEMMA ExponentsIn ==
  ASSUME NEW data, Len(data) \in Nat, DOMAIN data = 1 .. Len(data)
  PROVE  \A e : e \in {x + 16 : x \in Cluster!Exponents(data)} <=> e \in Later(data, 0)
  <1> DEFINE L == Len(data)
  <1>1. \A x : x \in Cluster!Exponents(data)
                <=> \E m \in 1 .. L : \E i \in Cluster!BitsOf(data[m]) : x = i + 8 * (L - m)
    BY DEF Cluster!Exponents
  <1>2. \A m \in 1 .. L : \A i \in Cluster!BitsOf(data[m]) : i \in Int /\ m \in Int
    BY BitsType
  <1>3. ASSUME NEW x \in Cluster!Exponents(data)
        PROVE  x + 16 \in Later(data, 0)
    <2>1. PICK m \in 1 .. L : \E i \in Cluster!BitsOf(data[m]) : x = i + 8 * (L - m)
      BY <1>1
    <2>2. PICK i \in Cluster!BitsOf(data[m]) : x = i + 8 * (L - m)
      BY <2>1
    <2>3. i \in Int /\ m \in 0 + 1 .. L
      BY <1>2
    <2>4. x + 16 \in Int /\ x + 16 = i + 8 * (L - m) + 16
      BY <2>2, <2>3
    <2>5. QED
      BY <2>3, <2>4 DEF Later
  <1>4. ASSUME NEW e \in Later(data, 0)
        PROVE  e - 16 \in Cluster!Exponents(data) /\ e = (e - 16) + 16
    <2>1. PICK m \in 0 + 1 .. L : \E i \in Cluster!BitsOf(data[m]) : e = i + 8 * (L - m) + 16
      BY DEF Later
    <2>2. PICK i \in Cluster!BitsOf(data[m]) : e = i + 8 * (L - m) + 16
      BY <2>1
    <2>3. m \in 1 .. L /\ i \in Int
      BY <1>2
    <2>4. e - 16 = i + 8 * (L - m) /\ e = (e - 16) + 16
      BY <2>2, <2>3
    <2>5. QED
      BY <1>1, <2>3, <2>4
  <1>5. QED
    BY <1>3, <1>4

LEMMA LeftExists ==
  ASSUME NEW data, Len(data) \in Nat, DOMAIN data = 1 .. Len(data)
  PROVE  \E f : /\ IsLeft(f, Later(data, 0), 8 * Len(data))
               /\ Cluster!Remainder(data) = Cluster!NumberOf(f[8 * Len(data)])
  <1> DEFINE D == SUBSET Int
             size == 8 * Len(data)
             start == Later(data, 0)
             step == [i \in 1 .. size |-> [x \in D |-> Cluster!Divided(x, size + 16 - i)]]
  <1>1. start \in D
    BY DEF Later
  <1>2. /\ step \in [1 .. size -> [D -> D]]
        /\ \A i \in 1 .. size : \A x \in D : step[i][x] = Cluster!Divided(x, size + 16 - i)
        /\ size \in Nat
    <2>1. size \in Nat
      OBVIOUS
    <2> HIDE DEF size
    <2>2. \A i \in 1 .. size : size + 16 - i \in Int
      BY <2>1
    <2>3. \A i \in 1 .. size : \A x \in D : Cluster!Divided(x, size + 16 - i) \in D
      BY <2>2, DividedType
    <2>4. QED
      BY <2>1, <2>3
  <1>3. Cluster!Remainder(data) = Cluster!NumberOf((CHOOSE f : IsLeft(f, start, size))[size])
    <2>1. {e + 16 : e \in Cluster!Exponents(data)} = start
      BY ExponentsIn
    <2>2. Cluster!Remainder(data)
            = Cluster!NumberOf((CHOOSE f : IsLeft(f, {e + 16 : e \in Cluster!Exponents(data)}, size))[size])
      BY DEF Cluster!Remainder, IsLeft
    <2>3. QED
      BY <2>1, <2>2
  <1> HIDE DEF step, start, D, size
  <1>4. PICK f \in [0 .. size -> D] : f[0] = start /\ \A i \in 1 .. size : f[i] = step[i][f[i - 1]]
    <2>1. Loops(D, start, size, step) # {}
      BY <1>1, <1>2, LoopExists
    <2>2. QED
      BY <2>1 DEF Loops
  <1>5. IsLeft(f, start, size)
    <2>1. ASSUME NEW i \in 0 .. size
          PROVE  f[i] = IF i = 0 THEN start ELSE Cluster!Divided(f[i - 1], size + 16 - i)
      <3>1. CASE i = 0
        BY <1>4, <3>1
      <3>2. CASE i # 0
        <4>1. i \in 1 .. size /\ i - 1 \in 0 .. size
          BY <1>2, <3>2
        <4>2. QED
          BY <1>2, <1>4, <3>2, <4>1
      <3>3. QED
        BY <3>1, <3>2
    <2>2. f = [i \in 0 .. size |-> f[i]]
      BY <1>4
    <2>3. QED
      BY <2>1, <2>2 DEF IsLeft
  <1>6. QED
    BY <1>3, <1>5 DEF start, size

LEMMA NumberIsNat ==
  ASSUME NEW bits
  PROVE  Cluster!NumberOf(bits) \in Nat
  <1> DEFINE bit(i) == IF 16 - i \in bits THEN 1 ELSE 0
             IsNumber(f) == f = [i \in 0 .. 16 |-> IF i = 0 THEN 0 ELSE 2 * f[i - 1] + bit(i)]
             step == [i \in 1 .. 16 |-> [x \in Nat |-> 2 * x + bit(i)]]
  <1>1. \A i \in 1 .. 16 : \A x \in Nat : 2 * x + bit(i) \in Nat
    OBVIOUS
  <1>2. Cluster!NumberOf(bits) = (CHOOSE f : IsNumber(f))[16]
    BY DEF Cluster!NumberOf
  <1> HIDE DEF bit
  <1>3. step \in [1 .. 16 -> [Nat -> Nat]] /\ \A i \in 1 .. 16 : \A x \in Nat : step[i][x] = 2 * x + bit(i)
    BY <1>1
  <1> HIDE DEF step
  <1>4. PICK f \in [0 .. 16 -> Nat] : f[0] = 0 /\ \A i \in 1 .. 16 : f[i] = step[i][f[i - 1]]
    <2>1. 16 \in Nat /\ 0 \in Nat
      OBVIOUS
    <2>2. Loops(Nat, 0, 16, step) # {}
      BY <1>3, <2>1, LoopExists
    <2>3. QED
      BY <2>2 DEF Loops
  <1>5. IsNumber(f)
    <2>1. ASSUME NEW i \in 0 .. 16
          PROVE  f[i] = IF i = 0 THEN 0 ELSE 2 * f[i - 1] + bit(i)
      <3>1. CASE i = 0
        BY <1>4, <3>1
      <3>2. CASE i # 0
        <4>1. i \in 1 .. 16 /\ i - 1 \in 0 .. 16
          BY <3>2
        <4>2. QED
          BY <1>3, <1>4, <3>2, <4>1
      <3>3. QED
        BY <3>1, <3>2
    <2>2. f = [i \in 0 .. 16 |-> f[i]]
      BY <1>4
    <2>3. QED
      BY <2>1, <2>2
  <1>6. PICK g : IsNumber(g) /\ Cluster!NumberOf(bits) = g[16]
    BY <1>2, <1>5
  <1>7. \A i \in 0 .. 16 : g[i] = IF i = 0 THEN 0 ELSE 2 * g[i - 1] + bit(i)
    BY <1>6
  <1> HIDE DEF IsNumber
  <1>8. \A i \in 0 .. 16 : g[i] \in Nat
    <2> DEFINE S == {i \in 0 .. 16 : g[i] \in Nat}
    <2>1. 0 \in S
      BY <1>7
    <2>2. ASSUME NEW i \in 1 .. 16, i - 1 \in S PROVE i \in S
      <3>1. g[i] = 2 * g[i - 1] + bit(i) /\ g[i - 1] \in Nat
        BY <1>7, <2>2
      <3>2. QED
        BY <1>1, <3>1
    <2> HIDE DEF S
    <2>3. \A i \in 0 .. 16 : i \in S
      BY <2>1, <2>2, Stepwise, 16 \in Nat
    <2>4. QED
      BY <2>3 DEF S
  <1>9. QED
    BY <1>6, <1>8

\* Byte by byte, and turn by turn, the loop is the division.
THEOREM CrcIsTheRemainder ==
  ASSUME NEW data, Len(data) \in Nat, DOMAIN data = 1 .. Len(data)
  PROVE  Cluster!Crc16(data) = Cluster!Remainder(data)
  <1> DEFINE L == Len(data)
             size == 8 * L
  <1>1. PICK crc : IsCrc(crc, data) /\ Cluster!Crc16(data) = Cluster!NumberOf(crc[L] \cap 0 .. 15)
    BY CrcExists
  <1>2. PICK left : IsLeft(left, Later(data, 0), size) /\ Cluster!Remainder(data) = Cluster!NumberOf(left[size])
    BY LeftExists
  <1>3. /\ crc[0] = {}
        /\ \A k \in 1 .. L : crc[k] = Cluster!WithByte(crc[k - 1], data[k])
    <2>1. \A k \in 0 .. L : crc[k] = IF k = 0 THEN {} ELSE Cluster!WithByte(crc[k - 1], data[k])
      BY <1>1 DEF IsCrc
    <2>2. 0 \in 0 .. L /\ \A k \in 1 .. L : k \in 0 .. L /\ k # 0
      OBVIOUS
    <2>3. QED
      BY <2>1, <2>2
  <1>4. /\ left[0] = Later(data, 0)
        /\ \A i \in 1 .. size : left[i] = Cluster!Divided(left[i - 1], size + 16 - i)
    BY <1>2 DEF IsLeft
  <1> DEFINE Reached(k) == Agree(left[8 * k], crc[k], Later(data, k), 8 * (L - k))
             S == {k \in 0 .. L : Reached(k)}
  <1>5. 0 \in S
    <2>1. Later(data, 0) \in SUBSET Int /\ 8 * 0 = 0
      BY DEF Later
    <2>2. Agree(Later(data, 0), {}, Later(data, 0), 8 * (L - 0))
      BY <2>1 DEF Agree
    <2>3. Reached(0)
      BY <1>3, <1>4, <2>1, <2>2
    <2>4. QED
      BY <2>3
  <1>6. ASSUME NEW k \in 1 .. L, Reached(k - 1)
        PROVE  Reached(k)
    <2> DEFINE s == 8 * (L - k) + 8
               Q == Later(data, k)
               b == 8 * (k - 1)
               start == Cluster!Xor(crc[k - 1], Cluster!Shift(Cluster!BitsOf(data[k]), 8))
    <2>1. s \in Nat /\ 8 * (L - (k - 1)) = s /\ b \in Nat /\ b + 8 = 8 * k /\ b + s = size
          /\ s - 8 = 8 * (L - k) /\ s - 8 >= 0
      OBVIOUS
    <2>2. Agree(left[b], crc[k - 1], Later(data, k - 1), s)
      BY <1>6, <2>1
    <2>3. Agree(left[b], start, Q, s)
      BY <2>2, AgreeByte
    <2>4. PICK turned : IsTurned(turned, start) /\ Cluster!WithByte(crc[k - 1], data[k]) = turned[8]
      <3>1. crc[k - 1] \in SUBSET Nat
        BY <2>2 DEF Agree
      <3>2. QED
        BY <3>1, TurnedExists
    <2>5. turned[0] = start /\ \A t \in 1 .. 8 : turned[t] = Cluster!Shifted(turned[t - 1])
      BY <2>4 DEF IsTurned
    <2>6. \A e \in Q : e \in Int /\ e <= s + 7
      <3> SUFFICES ASSUME NEW e \in Q PROVE e \in Int /\ e <= s + 7
        OBVIOUS
      <3>1. PICK m \in k + 1 .. L : \E i \in Cluster!BitsOf(data[m]) : e = i + 8 * (L - m) + 16
        BY DEF Later
      <3>2. PICK i \in Cluster!BitsOf(data[m]) : e = i + 8 * (L - m) + 16
        BY <3>1
      <3>3. i \in 0 .. 7
        BY BitsType
      <3>4. QED
        BY <3>2, <3>3
    <2> HIDE DEF s, Q, b, start
    <2> DEFINE Turned(t) == Agree(left[b + t], turned[t], Q, s - t)
               U == {t \in 0 .. 8 : Turned(t)}
    <2>7. 0 \in U
      <3>1. b + 0 = b /\ s - 0 = s
        BY <2>1
      <3>2. QED
        BY <2>3, <2>5, <3>1
    <2>8. ASSUME NEW t \in 1 .. 8, Turned(t - 1)
          PROVE  Turned(t)
      <3> DEFINE r == s - (t - 1)
      <3>1. /\ r \in Nat \ {0} /\ r - 1 = s - t /\ b + (t - 1) = (b + t) - 1 /\ b + t \in 1 .. size
            /\ r + 15 = size + 16 - (b + t) /\ r >= s - 7
        BY <2>1
      <3>2. \A e \in Q : e \in Int /\ e < r + 15
        BY <2>1, <2>6, <3>1
      <3> HIDE DEF r, size
      <3>3. Agree(left[(b + t) - 1], turned[t - 1], Q, r)
        BY <2>8, <3>1 DEF r
      <3>4. Agree(Cluster!Divided(left[(b + t) - 1], r + 15), Cluster!Shifted(turned[t - 1]), Q, r - 1)
        BY <3>1, <3>2, <3>3, AgreeTurn
      <3>5. left[b + t] = Cluster!Divided(left[(b + t) - 1], r + 15)
        BY <1>4, <3>1
      <3>6. turned[t] = Cluster!Shifted(turned[t - 1])
        BY <2>5
      <3>7. QED
        BY <3>1, <3>4, <3>5, <3>6
    <2> HIDE DEF Turned
    <2>9. \A t \in 1 .. 8 : t - 1 \in U => t \in U
      BY <2>8
    <2> HIDE DEF U
    <2>10. \A t \in 0 .. 8 : t \in U
      BY <2>7, <2>9, Stepwise, 8 \in Nat
    <2>11. 8 \in U
      BY <2>10
    <2>12. Agree(left[b + 8], turned[8], Q, s - 8)
      BY <2>11 DEF U, Turned
    <2>13. crc[k] = turned[8]
      BY <1>3, <2>4
    <2>14. QED
      BY <2>1, <2>12, <2>13 DEF Q
  <1> HIDE DEF Reached
  <1>7. \A k \in 1 .. L : k - 1 \in S => k \in S
    BY <1>6
  <1> HIDE DEF S
  <1>8. \A k \in 0 .. L : k \in S
    BY <1>5, <1>7, Stepwise
  <1>9. L \in S
    BY <1>8
  <1>10. Agree(left[size], crc[L], Later(data, L), 0)
    <2>1. 8 * (L - L) = 0
      OBVIOUS
    <2>2. QED
      BY <1>9, <2>1 DEF S, Reached
  <1>11. Later(data, L) = {}
    <2>1. \A m : m \notin L + 1 .. L
      OBVIOUS
    <2>2. QED
      BY <2>1 DEF Later
  <1>12. left[size] = crc[L] \cap 0 .. 15
    <2> DEFINE T == left[size]
               c == crc[L]
    <2>1. /\ T \in SUBSET Int /\ c \in SUBSET Nat
          /\ \A e \in Int : e \in T <=> ~ ((e - 0 \in c /\ e - 0 \in 0 .. 15) <=> e \in {})
      BY <1>10, <1>11 DEF Agree
    <2> HIDE DEF T, c
    <2>2. \A e \in Int : e \in T <=> e \in c /\ e \in 0 .. 15
      BY <2>1
    <2>3. ASSUME NEW e PROVE e \in T <=> e \in c /\ e \in 0 .. 15
      <3>1. CASE e \in Int
        BY <2>2, <3>1
      <3>2. CASE e \notin Int
        <4>1. e \notin 0 .. 15
          BY <3>2
        <4>2. e \notin T
          BY <2>1, <3>2
        <4>3. QED
          BY <4>1, <4>2
      <3>3. QED
        BY <3>1, <3>2
    <2>4. QED
      BY <2>3 DEF T, c
  <1>13. QED
    BY <1>1, <1>2, <1>12

---------------------------------------------------------------------------------
\* The table of slots.

\* A slot's node is there and counts it among its own; replica lists name nodes.
ClusterOK ==
  /\ DOMAIN nodes \subseteq Nodes /\ DOMAIN slot_map \subseteq Cluster!Numbers
  /\ \A s \in DOMAIN slot_map : slot_map[s] \in DOMAIN nodes /\ s \in nodes[slot_map[s]]
  /\ \A n \in DOMAIN replicas : replicas[n] \in Seq(Nodes)

LEMMA ClusterInit == Cluster!Init => ClusterOK
  BY DEF Cluster!Init, ClusterOK

LEMMA ClusterNext ==
  ASSUME ClusterOK, [Cluster!Next]_clusterVars
  PROVE  ClusterOK'
  <1>1. ASSUME NEW n \in Nodes, NEW slots \in SUBSET Cluster!Numbers, Cluster!AddNode(n, slots)
        PROVE  ClusterOK'
    BY <1>1 DEF ClusterOK, Cluster!AddNode, Cluster!With
  <1>2. ASSUME NEW n \in Nodes, Cluster!RemoveNode(n)
        PROVE  ClusterOK'
    BY <1>2 DEF ClusterOK, Cluster!RemoveNode, Cluster!Without
  <1>3. ASSUME NEW n \in Nodes, NEW slots \in SUBSET Cluster!Numbers, Cluster!AssignSlots(n, slots)
        PROVE  ClusterOK'
    BY <1>3 DEF ClusterOK, Cluster!AssignSlots
  <1>4. ASSUME NEW m \in Nodes, NEW r \in Nodes, Cluster!AddReplica(m, r)
        PROVE  ClusterOK'
    <2> DEFINE old == IF m \in DOMAIN replicas THEN replicas[m] ELSE <<>>
    <2>1. replicas' = Cluster!With(replicas, m, Append(old, r)) /\ UNCHANGED <<nodes, slot_map>>
      BY <1>4 DEF Cluster!AddReplica
    <2>2. old \in Seq(Nodes)
      BY EmptySeq DEF ClusterOK
    <2> HIDE DEF old
    <2>3. Append(old, r) \in Seq(Nodes)
      BY <2>2, AppendProperties
    <2>4. QED
      BY <2>1, <2>3 DEF ClusterOK, Cluster!With
  <1>5. CASE UNCHANGED clusterVars
    BY <1>5 DEF ClusterOK, clusterVars
  <1>6. QED
    BY <1>1, <1>2, <1>3, <1>4, <1>5 DEF Cluster!Next

LEMMA Interval ==
  ASSUME NEW n \in Nat
  PROVE  IsFiniteSet(0 .. n - 1) /\ Cardinality(0 .. n - 1) = n
  <1>1. 0 \in Int /\ n - 1 \in Int
    OBVIOUS
  <1>2. n = IF 0 > n - 1 THEN 0 ELSE (n - 1) - 0 + 1
    OBVIOUS
  <1>3. QED
    BY <1>1, <1>2, FS_Interval

\* The slots without a node and the numbers in the table are as many as the slots and the
\* numbers in the table that are none.
LEMMA ClusterCounts ==
  ASSUME ClusterOK
  PROVE  LET assigned == DOMAIN slot_map
             unserved == {s \in Cluster!Slots : Cluster!NodeForSlot(s) = Cluster!Absent}
             beyond == assigned \ Cluster!Slots
         IN /\ Cluster!Cardinality(assigned) \in 0 .. NumNumbers
            /\ Cluster!Cardinality(unserved) \in Nat /\ Cluster!Cardinality(beyond) \in Nat
            /\ Cluster!Cardinality(unserved) + Cluster!Cardinality(assigned) = NumSlots + Cluster!Cardinality(beyond)
            /\ Cluster!Cardinality(unserved) = 0 => unserved = {}
            /\ beyond = {} => Cluster!Cardinality(beyond) = 0
  <1> DEFINE assigned == DOMAIN slot_map
             slots == Cluster!Slots
             unserved == {s \in slots : Cluster!NodeForSlot(s) = Cluster!Absent}
             beyond == assigned \ slots
  <1>1. IsFiniteSet(slots) /\ Cardinality(slots) = NumSlots
    BY SlotsAssumption, Interval DEF Cluster!Slots
  <1>2. IsFiniteSet(Cluster!Numbers) /\ Cardinality(Cluster!Numbers) = NumNumbers
    BY SlotsAssumption, Interval DEF Cluster!Numbers
  <1>3. IsFiniteSet(assigned) /\ Cardinality(assigned) <= NumNumbers
    BY <1>2, FS_Subset DEF ClusterOK
  <1>4. unserved = slots \ assigned
    BY NodesAssumption DEF ClusterOK, Cluster!NodeForSlot
  <1> HIDE DEF assigned, slots, unserved
  <1>5. Cardinality(unserved) = Cardinality(slots) - Cardinality(slots \cap assigned) /\ IsFiniteSet(unserved)
    BY <1>1, <1>3, <1>4, FS_Difference
  <1>6. Cardinality(beyond) = Cardinality(assigned) - Cardinality(assigned \cap slots) /\ IsFiniteSet(beyond)
    BY <1>1, <1>3, FS_Difference
  <1>7. slots \cap assigned = assigned \cap slots /\ IsFiniteSet(slots \cap assigned)
    BY <1>1, FS_Subset
  <1> HIDE DEF beyond
  <1>8. /\ Cardinality(assigned) \in Nat /\ Cardinality(unserved) \in Nat /\ Cardinality(beyond) \in Nat
        /\ Cardinality(slots \cap assigned) \in Nat
    BY <1>3, <1>5, <1>6, <1>7, FS_CardinalityType
  <1>9. /\ Cardinality(unserved) + Cardinality(assigned) = NumSlots + Cardinality(beyond)
        /\ Cardinality(assigned) \in 0 .. NumNumbers
    <2> DEFINE a == Cardinality(assigned)
               b == Cardinality(beyond)
               u == Cardinality(unserved)
               both == Cardinality(slots \cap assigned)
    <2>1. u = NumSlots - both /\ b = a - both
      BY <1>1, <1>5, <1>6, <1>7, Zenon
    <2>2. a \in Nat /\ b \in Nat /\ u \in Nat /\ both \in Nat /\ a <= NumNumbers
      BY <1>3, <1>8, Zenon
    <2> HIDE DEF a, b, u, both
    <2>3. u + a = NumSlots + b /\ a \in 0 .. NumNumbers
      BY <2>1, <2>2, SlotsAssumption
    <2>4. QED
      BY <2>3, Zenon DEF a, b, u
  <1>10. /\ Cardinality(unserved) = 0 => unserved = {}
         /\ beyond = {} => Cardinality(beyond) = 0
    BY <1>5, <1>6, FS_EmptySet
  <1>11. /\ Cluster!Cardinality(assigned) = Cardinality(assigned)
         /\ Cluster!Cardinality(unserved) = Cardinality(unserved)
         /\ Cluster!Cardinality(beyond) = Cardinality(beyond)
    BY Zenon DEF Cluster!Cardinality, Cardinality
  <1>12. QED
    BY <1>8, <1>9, <1>10, <1>11 DEF assigned, slots, unserved, beyond

LEMMA ClusterSafe ==
  ASSUME ClusterOK
  PROVE  Cluster!HealthyClustersServeEveryKey /\ Cluster!SlotsAreRemainders
  <1> DEFINE assigned == Cluster!Cardinality(DOMAIN slot_map)
             unserved == {s \in Cluster!Slots : Cluster!NodeForSlot(s) = Cluster!Absent}
             beyond == DOMAIN slot_map \ Cluster!Slots
             missing == Cluster!Cardinality(unserved)
             extra == Cluster!Cardinality(beyond)
  <1>a. /\ assigned \in Nat /\ missing \in Nat /\ extra \in Nat
        /\ missing + assigned = NumSlots + extra
        /\ missing = 0 => unserved = {}
        /\ beyond = {} => extra = 0
    BY ClusterCounts
  <1>b. ASSUME NEW info \in Cluster!Infos
        PROVE  /\ info.state = "ok" => ~ (assigned < NumSlots)
               /\ info.state = "panic" => assigned > NumSlots
               /\ info.state # "panic" => info.slots_fail = (NumSlots - assigned) % Word
    BY DEF Cluster!Infos
  <1>c. \A key \in Keys : Cluster!ForKey(key) \in Cluster!Slots
    <2> SUFFICES ASSUME NEW key \in Keys
                 PROVE  Cluster!ForKey(key) \in 0 .. NumSlots - 1
      BY DEF Cluster!Slots
    <2>1. Cluster!Crc16(Cluster!HashTag(key)) \in Nat
      BY NumberIsNat DEF Cluster!Crc16
    <2>2. QED
      BY <2>1, SlotsAssumption DEF Cluster!ForKey
  <1>d. ASSUME NEW info \in Cluster!Infos, info.state = "ok"
        PROVE  missing <= extra
    <2> HIDE DEF assigned, missing, extra
    <2>1. QED
      BY <1>a, <1>b, <1>d, SlotsAssumption
  <1>1. ASSUME beyond = {}, NEW info \in Cluster!Infos
        PROVE  /\ info.state # "panic" /\ info.slots_fail = missing
               /\ info.state = "ok" => \A key \in Keys : Cluster!NodeForSlot(Cluster!ForKey(key)) # Cluster!Absent
    <2>1. /\ info.state # "panic" /\ info.slots_fail = missing
          /\ info.state = "ok" => unserved = {}
      <3> HIDE DEF assigned, missing, extra, unserved, beyond
      <3>1. missing + assigned = NumSlots /\ NumSlots - assigned = missing /\ ~ (assigned > NumSlots)
        BY <1>1, <1>a, SlotsAssumption
      <3>2. missing < Word
        BY <1>a, <3>1, SlotsAssumption
      <3>3. missing % Word = missing
        BY <1>a, <3>2, SlotsAssumption
      <3>4. info.state # "panic" /\ info.slots_fail = missing
        BY <1>b, <3>1, <3>3
      <3>5. info.state = "ok" => missing = 0
        BY <1>a, <1>b, <3>1, SlotsAssumption
      <3>6. QED
        BY <1>a, <3>4, <3>5
    <2>2. QED
      BY <2>1, <1>c
  <1>2. \A s \in DOMAIN slot_map : Cluster!NodeForSlot(s) # Cluster!Absent /\ s \in nodes[slot_map[s]]
    BY NodesAssumption DEF ClusterOK, Cluster!NodeForSlot
  <1>3. ASSUME NEW n \in Nodes
        PROVE  Cluster!ToSet(Cluster!Replicas(n)) \subseteq DOMAIN nodes
    <2>1. \A s : Cluster!ToSet(s) = ToSet(s)
      BY DEF Cluster!ToSet, ToSet
    <2>2. CASE n \in DOMAIN replicas
      <3>1. replicas[n] \in Seq(Nodes)
        BY <2>2 DEF ClusterOK
      <3>2. Cluster!Replicas(n) = Kept(replicas[n], DOMAIN nodes)
        BY <2>2 DEF Cluster!Replicas, Cluster!Kept, Kept, Cluster!KeptUpTo, KeptUpTo
      <3>3. \A x : Contains(Kept(replicas[n], DOMAIN nodes), x) => x \in DOMAIN nodes
        BY <3>1, KeptContains
      <3>4. Kept(replicas[n], DOMAIN nodes) \in Seq(Nodes \cap DOMAIN nodes)
        BY <3>1, KeptType
      <3>5. DOMAIN Kept(replicas[n], DOMAIN nodes) = 1 .. Len(Kept(replicas[n], DOMAIN nodes))
        BY <3>4, LenProperties
      <3>6. QED
        BY <2>1, <3>2, <3>3, <3>5 DEF Contains, ToSet
    <2>3. CASE n \notin DOMAIN replicas
      BY <2>1, <2>3 DEF Cluster!Replicas, ToSet
    <2>4. QED
      BY <2>2, <2>3
  <1>4. Cluster!SlotsAreRemainders
    <2>1. ASSUME NEW key \in Keys
          PROVE  Cluster!Crc16(key) = Cluster!Remainder(key)
      <3>1. Len(key) \in Nat /\ DOMAIN key = 1 .. Len(key)
        BY KeysAssumption, LenProperties
      <3>2. QED
        BY <3>1, CrcIsTheRemainder
    <2>2. QED
      BY <2>1 DEF Cluster!SlotsAreRemainders, Cluster!ForKey
  <1>5. QED
    BY <1>1, <1>d, <1>2, <1>3, <1>4 DEF Cluster!HealthyClustersServeEveryKey

---------------------------------------------------------------------------------
\* All together.

RegistriesOK ==
  AuthOK /\ StreamsOK /\ InfraOK /\ HubOK /\ MetricsOK /\ SecretsOK /\ FitsNow /\ ClusterOK /\ TestsOK
  /\ StaticOK /\ ManifestsOK

\* A step is a step of one registry.
LEMMA OneMoves ==
  ASSUME [RegistriesNext]_registryVars
  PROVE  /\ [Auth!Next]_authVars /\ [Streams!Next]_streamsVars /\ [Infra!Next]_infraVars
         /\ [Hub!Next]_hubVars /\ [Counters!Next]_metricsVars /\ [Sec!Next]_secretsVars
         /\ [Cluster!Next]_clusterVars /\ [Tests!Next]_testsVars
         /\ [Static!Next]_staticVars /\ [Manifests!Next]_builders
  <1>1. CASE UNCHANGED registryVars
    BY <1>1 DEF registryVars
  <1>2. CASE RegistriesNext
    BY <1>2 DEF RegistriesNext, In
  <1>3. QED
    BY <1>1, <1>2

LEMMA RegistriesInitOK == RegistriesInit => RegistriesOK
  BY AuthInit, StreamsInit, InfraInit, HubInit, MetricsInit, SecretsInit, ClusterInit, TestsInit, StaticInit,
     ManifestsInit
  DEF RegistriesInit, RegistriesOK

LEMMA RegistriesNextOK == RegistriesOK /\ [RegistriesNext]_registryVars => RegistriesOK'
  <1> SUFFICES ASSUME RegistriesOK, [RegistriesNext]_registryVars PROVE RegistriesOK'
    OBVIOUS
  <1>1. AuthOK' /\ InfraOK' /\ HubOK' /\ ClusterOK'
    BY OneMoves, AuthNext, InfraNext, HubNext, ClusterNext DEF RegistriesOK
  <1>2. StreamsOK' /\ MetricsOK' /\ SecretsOK' /\ FitsNow' /\ TestsOK'
    BY OneMoves, StreamsNext, MetricsNext, SecretsNext, FitsNowStep, TestsNext DEF RegistriesOK
  <1>3. StaticOK' /\ ManifestsOK'
    BY OneMoves, StaticNext, ManifestsNext DEF RegistriesOK
  <1>4. QED
    BY <1>1, <1>2, <1>3 DEF RegistriesOK

\* What the registries promise, all of it and always: sessions and keys are read alike
\* both ways, the rings hold the newest traces, stored infrastructure can be used,
\* broadcasts reach who joined, both views of the metrics tell what was served, the checks
\* of secrets agree with the reads, a healthy cluster serves each key from the slot that
\* is the remainder of its division, the most specific mount serves a path and no stale
\* copy is confirmed, and two manifests lock to the same text exactly when the same was
\* declared.
THEOREM TheyKeepTheirWord == RegistriesSpec => []RegistriesKeepTheirWord
  <1>1. RegistriesOK => RegistriesKeepTheirWord
    <2> SUFFICES ASSUME RegistriesOK PROVE RegistriesKeepTheirWord
      OBVIOUS
    <2>1. Auth!TheTwoChecksAgree /\ Infra!StoredIsUsable /\ Hub!BroadcastsReachTheRoom
      BY AuthSafe, HubSafe DEF RegistriesOK, InfraOK
    <2>2. /\ Streams!TracesAreTheNewest /\ Counters!MetricsTellWhatWasServed
          /\ Sec!ChecksAgreeWithReads
          /\ Cluster!HealthyClustersServeEveryKey /\ Cluster!SlotsAreRemainders
      BY StreamsSafe, MetricsSafe, SecretsSafe, ClusterSafe DEF RegistriesOK
    <2>3. /\ Static!MostSpecificMountServes /\ Static!CopiesAreConfirmed
          /\ Manifests!LocksTellContents
      BY StaticSafe, ManifestSafe DEF RegistriesOK
    <2>4. QED
      BY <2>1, <2>2, <2>3 DEF RegistriesKeepTheirWord
  <1>2. QED
    BY RegistriesInitOK, RegistriesNextOK, <1>1, PTL DEF RegistriesSpec

\* Between its two locks a secrets_get may meet any change: its answer is still one that
\* was right at a moment of the request, but for the code's exception.
THEOREM EveryAnswerWasRight == RegistriesSpec => AnswersFitAMoment
  <1>1. RegistriesOK /\ [RegistriesNext]_registryVars => [AnswersFit]_(Sec!vars)
    BY OneMoves, AnswersFitStep DEF RegistriesOK
  <1>2. AnswersFitAMoment <=> [][AnswersFit]_(Sec!vars)
    BY PTL DEF AnswersFitAMoment, Sec!AnswersFitAMoment, AnswersFit
  <1>3. QED
    BY RegistriesInitOK, RegistriesNextOK, <1>1, <1>2, PTL DEF RegistriesSpec

\* No namespace is handed out twice, whoever cleans up in between.
THEOREM NamespacesAreUnique == RegistriesSpec => NamespacesAreFresh
  <1> DEFINE Fresh == \A namespace \in test_databases' \ test_databases : namespace \notin promised
  <1>1. RegistriesOK /\ [RegistriesNext]_registryVars => [Fresh]_(Tests!vars)
    BY OneMoves, TestsNext DEF RegistriesOK
  <1>2. QED
    BY RegistriesInitOK, RegistriesNextOK, <1>1, PTL
    DEF RegistriesSpec, NamespacesAreFresh, Tests!NamespacesAreFresh

=================================================================================
