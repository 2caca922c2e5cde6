---------------------------------- MODULE MCPubSub ----------------------------------
(***************************************************************************)
(* Instances of PubSub for TLC, and its refinement: each (topic,           *)
(* subscriber) queue of the broker implements SubscriptionQueue, also when *)
(* several subscribers share the topic and the in_flight map.              *)
(***************************************************************************)
EXTENDS PubSub

\* One ordered configuration without retries, one unordered with a retry.
OrderedNoRetry == [max_retries |-> 0, message_ordering |-> TRUE]
UnorderedOneRetry == [max_retries |-> 1, message_ordering |-> FALSE]

MCConfigs == {OrderedNoRetry, UnorderedOneRetry}

---------------------------------------------------------------------------------
\* The refinement

AbstractState == [Pending |-> "pending", Delivered |-> "delivered", DeadLetter |-> "dead"]

\* Where message m stands in queue p.
StatusIn(p) ==
  [m \in Ids |-> IF \E e \in queues[p] : e.id = m
                 THEN AbstractState[(CHOOSE e \in queues[p] : e.id = m).state]
                 ELSE "out"]

AttemptsIn(p) ==
  [m \in Ids |-> IF \E e \in queues[p] : e.id = m
                 THEN (CHOOSE e \in queues[p] : e.id = m).attempt
                 ELSE 0]

Queue(p) == INSTANCE SubscriptionQueue
              WITH published <- publish_count,
                   ordered   <- configs[p[2]].message_ordering,
                   retries   <- configs[p[2]].max_retries,
                   status    <- StatusIn(p),
                   attempts  <- AttemptsIn(p)

\* Every subscription gets what SubscriptionQueue promises: delivery in
\* publication order, again after a nack until its current max_retries are used up
\* and never after that, removal only through a settlement of its own copy, and a
\* wait for the unsettled head when it is ordered.
\* It is \A p \in Pairs : Queue(p)!Spec with the quantifier moved inwards, the
\* form TLC accepts.
QueuesImplementSubscriptions ==
  /\ \A p \in Pairs : Queue(p)!Init
  /\ [][\A p \in Pairs : [Queue(p)!Next]_(Queue(p)!vars)]_vars

=====================================================================================
