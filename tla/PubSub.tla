--------------------------------- MODULE PubSub ---------------------------------
(***************************************************************************)
(* The daemon's in-process message broker: daemon/src/pubsub.rs, with the  *)
(* HTTP and TCP handlers that call it.                                     *)
(*                                                                         *)
(* Every broker operation runs under the broker's own mutex, so each is    *)
(* one action.  The HTTP publish handler is two: it publishes, gives the   *)
(* State lock back, and takes it again to count the subscribers it reports. *)
(*                                                                         *)
(* A message id is an opaque fresh string; the model names a message by    *)
(* the position of its publish (1 for the first).  A VecDeque of queue     *)
(* entries is the set of its entries, ordered by id and then by slot, the  *)
(* position in the topic's subscriber Vec that the copy was pushed for:    *)
(* push_back is always behind everything older, nothing is ever reordered. *)
(* Payloads, attributes and clock readings are not modelled.  Neither are  *)
(* ack_deadline_secs, retry_delay_ms and max_concurrency: the code stores  *)
(* them and never reads them.                                              *)
(***************************************************************************)
EXTENDS Naturals, Sequences

CONSTANTS Topics,         \* topic names
          Subscribers,    \* subscriber names
          Publishers,     \* HTTP connections that publish
          Configs,        \* [max_retries, message_ordering] a client may ask for
          DefaultConfig,  \* SubscriptionConfig::default()
          MaxPublish,     \* bound: messages published in a behaviour
          None            \* Option::None

ASSUME ConfigAssumption ==
  Configs \cup {DefaultConfig} \subseteq [max_retries : Nat, message_ordering : BOOLEAN]
ASSUME BoundAssumption == MaxPublish \in Nat
ASSUME NoneAssumption ==
  None \notin (Topics \X Subscribers) \cup [topic : Topics, width : Nat]

Ids == 1 .. MaxPublish

\* The key of the broker's queue and dlq maps.
Pairs == Topics \X Subscribers

States == {"Pending", "Delivered", "DeadLetter"}

Entry == [id : Ids, slot : Nat, attempt : Nat, state : States]

VARIABLES
  subscriptions,   \* topic -> its subscribers, in order of arrival
  queues,          \* (topic, subscriber) -> queue entries
  in_flight,       \* msg id -> the (topic, subscriber) it was last delivered to
  configs,         \* subscriber -> config
  dlq,             \* (topic, subscriber) -> dead-lettered ids, oldest first
  publish_count,
  replying         \* HTTP publisher -> the publish it has yet to answer

vars == <<subscriptions, queues, in_flight, configs, dlq, publish_count, replying>>
broker == <<subscriptions, queues, in_flight, configs, dlq, publish_count>>

---------------------------------------------------------------------------------
\* Helpers

SubscribersOf(t) == IF t \in DOMAIN subscriptions THEN subscriptions[t] ELSE <<>>

Attached(t, s) == \E i \in DOMAIN SubscribersOf(t) : SubscribersOf(t)[i] = s

\* Queue order.
Before(e, f) == e.id < f.id \/ (e.id = f.id /\ e.slot < f.slot)

Delivered(e) ==
  [id |-> e.id, slot |-> e.slot, attempt |-> e.attempt + 1, state |-> "Delivered"]

InState(e, x) == [e EXCEPT !.state = x]

\* Queue q with entry e updated to f, in place.
Updated(q, e, f) == (q \ {e}) \cup {f}

\* e is what iter().find(..) returns among the entries S.
IsFirst(e, S) == e \in S /\ \A f \in S \ {e} : Before(e, f)

---------------------------------------------------------------------------------
\* Broker operations

Init ==
  /\ subscriptions = [t \in {} |-> <<>>]
  /\ queues = [p \in Pairs |-> {}]
  /\ in_flight = [m \in Ids |-> None]
  /\ configs = [s \in Subscribers |-> DefaultConfig]
  /\ dlq = [p \in Pairs |-> <<>>]
  /\ publish_count = 0
  /\ replying = [c \in Publishers |-> None]

\* ensure_topic behind the handler's 409 check; both run under the State lock.
CreateTopic(t) ==
  /\ t \notin DOMAIN subscriptions
  /\ subscriptions' = [u \in DOMAIN subscriptions \cup {t} |-> SubscribersOf(u)]
  /\ UNCHANGED <<queues, in_flight, configs, dlq, publish_count, replying>>

\* Mutation: subscribe pushes without looking for the subscriber first.
SubscribeAlwaysPushes(t, s, config) ==
  /\ subscriptions' =
       [u \in DOMAIN subscriptions \cup {t} |->
          IF u = t THEN Append(SubscribersOf(t), s) ELSE SubscribersOf(u)]
  /\ configs' = [configs EXCEPT ![s] = config]
  /\ UNCHANGED <<queues, in_flight, dlq, publish_count, replying>>

\* Mutation: a subscriber that comes again is taken off the Vec first, and then
\* not pushed.
SubscribeDetaches(t, s, config) ==
  /\ subscriptions' =
       [u \in DOMAIN subscriptions \cup {t} |->
          IF u # t THEN SubscribersOf(u)
          ELSE IF Attached(t, s) THEN SelectSeq(SubscribersOf(t), LAMBDA x : x # s)
               ELSE Append(SubscribersOf(t), s)]
  /\ configs' = [configs EXCEPT ![s] = config]
  /\ UNCHANGED <<queues, in_flight, dlq, publish_count, replying>>

\* subscribe: idempotent on the Vec, always overwrites the subscriber's config.
Subscribe(t, s, config) ==
  /\ subscriptions' =
       [u \in DOMAIN subscriptions \cup {t} |->
          IF u = t /\ ~Attached(t, s) THEN Append(SubscribersOf(t), s)
                                      ELSE SubscribersOf(u)]
  /\ configs' = [configs EXCEPT ![s] = config]
  /\ UNCHANGED <<queues, in_flight, dlq, publish_count, replying>>

\* The copies of message id that a publish on t pushes for subscriber s.
Copies(t, s, id) ==
  {[id |-> id, slot |-> i, attempt |-> 0, state |-> "Pending"] :
     i \in {j \in DOMAIN SubscribersOf(t) : SubscribersOf(t)[j] = s}}

\* publish: count it, fan it out to the current subscribers of the topic.  A
\* topic without subscribers swallows the message and is not created.
Publish(t) ==
  /\ publish_count < MaxPublish
  /\ publish_count' = publish_count + 1
  /\ queues' = [p \in Pairs |->
                  IF p[1] = t THEN queues[p] \cup Copies(t, p[2], publish_count + 1)
                              ELSE queues[p]]
  /\ UNCHANGED <<subscriptions, in_flight, configs, dlq>>

\* Mutation: pull without the ordering gate.
PullUngated(t, s) ==
  LET p == <<t, s>> IN
  /\ \E e \in queues[p] :
       /\ IsFirst(e, {f \in queues[p] : f.state = "Pending"})
       /\ queues' = [queues EXCEPT ![p] = Updated(@, e, Delivered(e))]
       /\ in_flight' = [in_flight EXCEPT ![e.id] = p]
  /\ UNCHANGED <<subscriptions, configs, dlq, publish_count, replying>>

\* Mutation: pull does not count the attempt.
PullUncounted(t, s) ==
  LET p == <<t, s>> IN
  /\ configs[s].message_ordering => \A e \in queues[p] : e.state # "Delivered"
  /\ \E e \in queues[p] :
       /\ IsFirst(e, {f \in queues[p] : f.state = "Pending"})
       /\ queues' = [queues EXCEPT ![p] = Updated(@, e, InState(e, "Delivered"))]
       /\ in_flight' = [in_flight EXCEPT ![e.id] = p]
  /\ UNCHANGED <<subscriptions, configs, dlq, publish_count, replying>>

\* pull: an ordered subscription with an unsettled delivery gets nothing, else
\* the first pending entry is delivered.
Pull(t, s) ==
  LET p == <<t, s>> IN
  /\ configs[s].message_ordering => \A e \in queues[p] : e.state # "Delivered"
  /\ \E e \in queues[p] :
       /\ IsFirst(e, {f \in queues[p] : f.state = "Pending"})
       /\ queues' = [queues EXCEPT ![p] = Updated(@, e, Delivered(e))]
       /\ in_flight' = [in_flight EXCEPT ![e.id] = p]
  /\ UNCHANGED <<subscriptions, configs, dlq, publish_count, replying>>

\* Mutation: ack settles the copies of every subscriber of the topic.
AckEverywhere(m) ==
  /\ in_flight[m] # None
  /\ in_flight' = [in_flight EXCEPT ![m] = None]
  /\ queues' = [p \in Pairs |-> IF p[1] = in_flight[m][1] THEN {e \in queues[p] : e.id # m}
                                                         ELSE queues[p]]
  /\ UNCHANGED <<subscriptions, configs, dlq, publish_count, replying>>

\* ack: settles the copy in_flight points at.  An id that is not in flight
\* changes nothing (404).
Ack(m) ==
  /\ in_flight[m] # None
  /\ in_flight' = [in_flight EXCEPT ![m] = None]
  /\ queues' = [queues EXCEPT ![in_flight[m]] = {e \in @ : e.id # m}]
  /\ UNCHANGED <<subscriptions, configs, dlq, publish_count, replying>>

\* Mutation: nack leaves the message in flight.
NackKeepsInFlight(m) ==
  LET p == in_flight[m] IN
  /\ p # None
  /\ \E e \in queues[p] :
       /\ IsFirst(e, {f \in queues[p] : f.id = m})
       /\ IF e.attempt > configs[p[2]].max_retries
          THEN /\ queues' = [queues EXCEPT ![p] = Updated(@, e, InState(e, "DeadLetter"))]
               /\ dlq' = [dlq EXCEPT ![p] = Append(@, m)]
          ELSE /\ queues' = [queues EXCEPT ![p] = Updated(@, e, InState(e, "Pending"))]
               /\ UNCHANGED dlq
  /\ UNCHANGED <<subscriptions, in_flight, configs, publish_count, replying>>

\* Mutation: the copy filed in the dead-letter queue goes back to pending.
NackRequeuesDead(m) ==
  LET p == in_flight[m] IN
  /\ p # None
  /\ in_flight' = [in_flight EXCEPT ![m] = None]
  /\ \E e \in queues[p] :
       /\ IsFirst(e, {f \in queues[p] : f.id = m})
       /\ queues' = [queues EXCEPT ![p] = Updated(@, e, InState(e, "Pending"))]
       /\ dlq' = IF e.attempt > configs[p[2]].max_retries
                 THEN [dlq EXCEPT ![p] = Append(@, m)] ELSE dlq
  /\ UNCHANGED <<subscriptions, configs, publish_count, replying>>

\* Mutation: one retry too many.
NackOffByOne(m) ==
  LET p == in_flight[m] IN
  /\ p # None
  /\ in_flight' = [in_flight EXCEPT ![m] = None]
  /\ \E e \in queues[p] :
       /\ IsFirst(e, {f \in queues[p] : f.id = m})
       /\ IF e.attempt > configs[p[2]].max_retries + 1
          THEN /\ queues' = [queues EXCEPT ![p] = Updated(@, e, InState(e, "DeadLetter"))]
               /\ dlq' = [dlq EXCEPT ![p] = Append(@, m)]
          ELSE /\ queues' = [queues EXCEPT ![p] = Updated(@, e, InState(e, "Pending"))]
               /\ UNCHANGED dlq
  /\ UNCHANGED <<subscriptions, configs, publish_count, replying>>

\* nack: back to pending, or to the dead-letter queue once attempt exceeds the
\* subscriber's current max_retries.  The entry is always found
\* (InFlightIsDelivered), so the code's way out without one is never taken.
Nack(m) ==
  LET p == in_flight[m] IN
  /\ p # None
  /\ in_flight' = [in_flight EXCEPT ![m] = None]
  /\ \E e \in queues[p] :
       /\ IsFirst(e, {f \in queues[p] : f.id = m})
       /\ IF e.attempt > configs[p[2]].max_retries
          THEN /\ queues' = [queues EXCEPT ![p] = Updated(@, e, InState(e, "DeadLetter"))]
               /\ dlq' = [dlq EXCEPT ![p] = Append(@, m)]
          ELSE /\ queues' = [queues EXCEPT ![p] = Updated(@, e, InState(e, "Pending"))]
               /\ UNCHANGED dlq
  /\ UNCHANGED <<subscriptions, configs, publish_count, replying>>

---------------------------------------------------------------------------------
\* Handlers that are more than one broker operation

\* TCP publish: answers with publish_count under the same lock.
TcpPublish(t) == Publish(t) /\ UNCHANGED replying

\* HTTP publish, first lock: publish; width is the real fan-out.
HttpPublish(c, t) ==
  /\ replying[c] = None
  /\ Publish(t)
  /\ replying' = [replying EXCEPT ![c] = [topic |-> t, width |-> Len(SubscribersOf(t))]]

\* HTTP publish, second lock: the "subscribers" of the answer.
Reported(c) == Len(SubscribersOf(replying[c].topic))

HttpPublishReply(c) ==
  /\ replying[c] # None
  /\ replying' = [replying EXCEPT ![c] = None]
  /\ UNCHANGED broker

Next ==
  \/ \E t \in Topics : CreateTopic(t) \/ TcpPublish(t)
  \/ \E t \in Topics, s \in Subscribers, config \in Configs \cup {DefaultConfig} :
        Subscribe(t, s, config)
  \/ \E t \in Topics, s \in Subscribers : Pull(t, s)
  \/ \E m \in Ids : Ack(m) \/ Nack(m)
  \/ \E c \in Publishers, t \in Topics : HttpPublish(c, t)
  \/ \E c \in Publishers : HttpPublishReply(c)

Spec == Init /\ [][Next]_vars

\* A consumer that keeps pulling each subscription and answers, one way or the
\* other, every message it holds.  Nothing is assumed of publishers.
Consuming ==
  /\ \A t \in Topics, s \in Subscribers : WF_vars(Pull(t, s))
  /\ \A m \in Ids : WF_vars(Ack(m) \/ Nack(m))

LiveSpec == Spec /\ Consuming

---------------------------------------------------------------------------------
\* Properties

\* The variables have their types.
TypeOK ==
  /\ DOMAIN subscriptions \subseteq Topics
  /\ subscriptions \in [DOMAIN subscriptions -> Seq(Subscribers)]
  /\ queues \in [Pairs -> SUBSET Entry]
  /\ in_flight \in [Ids -> Pairs \cup {None}]
  /\ configs \in [Subscribers -> Configs \cup {DefaultConfig}]
  /\ dlq \in [Pairs -> Seq(Ids)]
  /\ publish_count \in 0 .. MaxPublish
  /\ replying \in [Publishers -> [topic : Topics, width : Nat] \cup {None}]

\* An id in flight stands for exactly the copy an ack or nack will act on: that
\* subscription's queue holds it, delivered.  An ack can therefore never
\* discard a message that was requeued or dead-lettered in the meantime.
InFlightIsDelivered ==
  \A m \in Ids : in_flight[m] # None =>
    \E e \in queues[in_flight[m]] : e.id = m /\ e.state = "Delivered"

\* A queue holds one copy of a message at most, however often its subscriber
\* re-subscribed before the publish.
NoDoubleDelivery ==
  \A p \in Pairs : \A e, f \in queues[p] : e.id = f.id => e = f

\* The dead-letter queue lists each dead entry of the queue once, and nothing
\* that may still be delivered.
DeadLettersAreFiled ==
  \A p \in Pairs :
    /\ \A m \in Ids :
         (\E e \in queues[p] : e.id = m /\ e.state = "DeadLetter")
           <=> (\E i \in DOMAIN dlq[p] : dlq[p][i] = m)
    /\ \A i, j \in DOMAIN dlq[p] : dlq[p][i] = dlq[p][j] => i = j

\* The answer to an HTTP publish never reports fewer subscribers than the
\* message was fanned out to, whatever ran between the handler's two locks.
FanOutNotUnderstated ==
  \A c \in Publishers : replying[c] # None => replying[c].width <= Reported(c)

\* A message leaves a subscription's queue only after that very subscription
\* was handed it: no other subscriber's ack, and no stale ack, can lose it.
LostOnlyIfDelivered ==
  [][\A p \in Pairs : \A e \in queues[p] :
       (\A f \in queues[p]' : f.id # e.id) => e.state = "Delivered"]_vars

\* An ordered subscription is handed a message only when nothing else of the
\* queue is out for delivery and everything older is dead, including messages
\* that were nacked, and whenever the ordering flag was switched on.
OrderedDelivery ==
  [][\A t \in Topics, s \in Subscribers : configs[s].message_ordering =>
       \A e \in queues[<<t, s>>]' \ queues[<<t, s>>] : e.state = "Delivered" =>
         \A f \in queues[<<t, s>>] : f.id # e.id =>
           /\ f.state # "Delivered"
           /\ f.id < e.id => f.state = "DeadLetter"]_vars

\* pubsub.rs says in_flight holds what is "Delivered but not yet acked".  The
\* map has one place per message id, so this can only hold while no message is
\* out to two subscribers of its topic at once.
DeliveredIsInFlight ==
  \A p \in Pairs : \A e \in queues[p] : e.state = "Delivered" => in_flight[e.id] = p

\* Under a consumer that pulls and answers, whatever is queued for a
\* subscription is in the end settled or dead-lettered: no order of nacks,
\* re-subscriptions and publishes keeps a message pending or unsettled for ever.
EveryMessageSettles ==
  \A p \in Pairs, m \in Ids :
    (\E e \in queues[p] : e.id = m)
      ~> (\A e \in queues[p] : e.id = m => e.state = "DeadLetter")

==================================================================================
