--------------------------------- MODULE Deploy ---------------------------------
(***************************************************************************)
(* Deployment tracking: daemon/src/deploy.rs and its HTTP handlers.        *)
(*                                                                         *)
(* Every handler does its whole work under the State lock, so an operation *)
(* is one action.  A deployment is named by its position in the registry's *)
(* Vec ("dep-1" is 1); platform and revision text is not modelled, and a   *)
(* refused call (400, 404) changes nothing and is no step.                 *)
(***************************************************************************)
EXTENDS Naturals, Sequences

CONSTANTS Targets,          \* deployment target names
          MaxDeployments,   \* bound: deployments ever created
          None              \* Option::None

Ids == 1 .. MaxDeployments

ASSUME BoundAssumption == MaxDeployments \in Nat
ASSUME NoneAssumption == None \notin Ids

Statuses == {"Queued", "Building", "Deploying", "Deployed", "Failed"}

Deployment == [target : Targets, status : Statuses, superseded_by : Ids \cup {None}]

VARIABLES
  deployments,   \* the registry's Vec, in order of creation
  displaced      \* history: target -> [live, by]: what the live deployment took
                 \* over from, and whether by a "deploy" or by a "rollback"

vars == <<deployments, displaced>>

\* can_transition
Transitions ==
  {<<"Queued", "Building">>, <<"Queued", "Failed">>,
   <<"Building", "Deploying">>, <<"Building", "Failed">>,
   <<"Deploying", "Deployed">>, <<"Deploying", "Failed">>}

\* The live deployments of target t; AtMostOneLive says there is one at most.
Live(t) == {d \in DOMAIN deployments :
              deployments[d].target = t /\ deployments[d].status = "Deployed"}

\* The deployments on record as replaced by d.
ReplacedBy(d) == {c \in DOMAIN deployments : deployments[c].superseded_by = d}

Demoted(record, winner) == [target |-> record.target, status |-> "Failed",
                            superseded_by |-> winner]

InStatus(record, s) == [target |-> record.target, status |-> s,
                        superseded_by |-> record.superseded_by]

Restored(record) == [target |-> record.target, status |-> "Deployed",
                     superseded_by |-> None]

\* The history after d goes live in the place of the deployments in old.
Displaces(t, old, how) ==
  [displaced EXCEPT ![t] =
     [live |-> IF old = {} THEN None ELSE CHOOSE d \in old : TRUE, by |-> how]]

---------------------------------------------------------------------------------

Init ==
  /\ deployments = <<>>
  /\ displaced = [t \in Targets |-> [live |-> None, by |-> "deploy"]]

\* create
Create(t) ==
  /\ Len(deployments) < MaxDeployments
  /\ deployments' = Append(deployments,
                           [target |-> t, status |-> "Queued", superseded_by |-> None])
  /\ UNCHANGED displaced

\* Mutation: going live leaves the previous live deployment alone.
SetStatusKeepsOther(d, s) ==
  /\ d \in DOMAIN deployments
  /\ <<deployments[d].status, s>> \in Transitions
  /\ deployments' = [deployments EXCEPT ![d] = InStatus(@, s)]
  /\ displaced' = IF s = "Deployed"
                  THEN Displaces(deployments[d].target, Live(deployments[d].target), "deploy")
                  ELSE displaced

\* Mutation: going live demotes every other deployment of the target.
SetStatusDemotesAll(d, s) ==
  /\ d \in DOMAIN deployments
  /\ <<deployments[d].status, s>> \in Transitions
  /\ deployments' =
       [e \in DOMAIN deployments |->
          IF e = d THEN InStatus(deployments[d], s)
          ELSE IF s = "Deployed" /\ deployments[e].target = deployments[d].target
          THEN Demoted(deployments[e], d) ELSE deployments[e]]
  /\ displaced' = IF s = "Deployed"
                  THEN Displaces(deployments[d].target, Live(deployments[d].target), "deploy")
                  ELSE displaced

\* Mutation: the live deployment may be moved to failed.
SetStatusFailsLive(d, s) ==
  /\ d \in DOMAIN deployments
  /\ <<deployments[d].status, s>> \in Transitions \cup {<<"Deployed", "Failed">>}
  /\ deployments' =
       [e \in DOMAIN deployments |->
          IF e = d THEN InStatus(deployments[d], s)
          ELSE IF s = "Deployed" /\ e \in Live(deployments[d].target)
          THEN Demoted(deployments[e], d) ELSE deployments[e]]
  /\ displaced' = IF s = "Deployed"
                  THEN Displaces(deployments[d].target, Live(deployments[d].target), "deploy")
                  ELSE displaced

\* set_status: a legal transition; one that goes live demotes the deployment
\* that was live on the same target and records who replaced it.
SetStatus(d, s) ==
  /\ d \in DOMAIN deployments
  /\ <<deployments[d].status, s>> \in Transitions
  /\ deployments' =
       [e \in DOMAIN deployments |->
          IF e = d THEN InStatus(deployments[d], s)
          ELSE IF s = "Deployed" /\ e \in Live(deployments[d].target)
          THEN Demoted(deployments[e], d) ELSE deployments[e]]
  /\ displaced' = IF s = "Deployed"
                  THEN Displaces(deployments[d].target, Live(deployments[d].target), "deploy")
                  ELSE displaced

\* Mutation: the restored deployment keeps its superseded_by.
RollbackKeepsMark(t) ==
  \E l \in Live(t) :
    /\ \A k \in Live(t) : k <= l
    /\ \E c \in ReplacedBy(l) :
         /\ \A k \in ReplacedBy(l) : c <= k
         /\ deployments' =
              [e \in DOMAIN deployments |->
                 IF e = c THEN InStatus(deployments[c], "Deployed")
                 ELSE IF e \in Live(t) THEN Demoted(deployments[e], c) ELSE deployments[e]]
         /\ displaced' = Displaces(t, Live(t), "rollback")

\* Mutation: rollback takes the oldest deployment ever superseded on the target.
RollbackOldest(t) ==
  \E l \in Live(t) :
    \E c \in {d \in DOMAIN deployments : deployments[d].target = t
                                           /\ deployments[d].superseded_by # None} :
      /\ \A k \in DOMAIN deployments :
           deployments[k].target = t /\ deployments[k].superseded_by # None => c <= k
      /\ deployments' =
           [e \in DOMAIN deployments |->
              IF e = c THEN Restored(deployments[c])
              ELSE IF e \in Live(t) THEN Demoted(deployments[e], c) ELSE deployments[e]]
      /\ displaced' = Displaces(t, Live(t), "rollback")

\* rollback: the first deployment on record as replaced by the live one goes
\* live again, and the live one is on record as replaced by it.  The superseded
\* deployments of a live one are of its target (SuccessionLeadsToLive).
Rollback(t) ==
  \E l \in Live(t) :
    /\ \A k \in Live(t) : k <= l
    /\ \E c \in ReplacedBy(l) :
         /\ \A k \in ReplacedBy(l) : c <= k
         /\ deployments' =
              [e \in DOMAIN deployments |->
                 IF e = c THEN Restored(deployments[c])
                 ELSE IF e \in Live(t) THEN Demoted(deployments[e], c) ELSE deployments[e]]
         /\ displaced' = Displaces(t, Live(t), "rollback")

Next ==
  \/ \E t \in Targets : Create(t) \/ Rollback(t)
  \/ \E d \in Ids, s \in Statuses : SetStatus(d, s)

Spec == Init /\ [][Next]_vars

---------------------------------------------------------------------------------
\* Properties

\* The variables have their types.
TypeOK ==
  /\ deployments \in Seq(Deployment)
  /\ Len(deployments) <= MaxDeployments
  /\ displaced \in [Targets -> [live : Ids \cup {None}, by : {"deploy", "rollback"}]]

\* A target has one live deployment at most, over any mix of promotions and
\* rollbacks.
AtMostOneLive == \A t \in Targets : \A c, d \in Live(t) : c = d

\* Whoever follows superseded_by from a superseded deployment stays on its
\* target, never goes round in a circle, and so ends at the live deployment:
\* rollback, which turns one of these pointers round, keeps the succession a
\* tree rooted there.
SuccessionLeadsToLive ==
  LET Superseded == {d \in DOMAIN deployments : deployments[d].superseded_by # None}
  IN /\ \A d \in Superseded :
          /\ deployments[d].status = "Failed"
          /\ deployments[d].superseded_by \in DOMAIN deployments
          /\ LET e == deployments[d].superseded_by
             IN /\ deployments[e].target = deployments[d].target
                /\ e \in Superseded \/ deployments[e].status = "Deployed"
     /\ \A S \in SUBSET Superseded :
          S # {} => \E d \in S : deployments[d].superseded_by \notin S

\* A target that is live stays live: no status update and no rollback takes
\* its deployment away without putting another in its place.
NeverGoesDark == [][\A t \in Targets : Live(t) # {} => Live(t)' # {}]_vars

\* A build that failed on its own never goes live: whatever a rollback promotes
\* had come out of the pipeline and been live before.
FailedBuildsStayDown ==
  [][\A d \in DOMAIN deployments :
       deployments[d].status \in {"Queued", "Building", "Failed"}
         /\ deployments[d].superseded_by = None
         => deployments'[d].status # "Deployed" /\ deployments'[d].superseded_by = None]_vars

\* A rollback right after a promotion puts back exactly the deployment that
\* promotion displaced, however many were promoted and rolled back before.
RollbackUndoesDeploy ==
  [][\A t \in Targets :
       Rollback(t) /\ displaced[t].by = "deploy" => Live(t)' = {displaced[t].live}]_vars

\* docs/api-reference.md: rollback "promotes exactly the revision the current
\* live deployment displaced (ping-pong works)".
RollbackRestoresDisplaced ==
  [][\A t \in Targets : Rollback(t) => Live(t)' = {displaced[t].live}]_vars

==================================================================================
