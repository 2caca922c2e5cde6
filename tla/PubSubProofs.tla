-------------------------------- MODULE PubSubProofs --------------------------------
(* Theorems about PubSub, for any topics, subscribers, configurations and bound. *)
EXTENDS MCPubSub, TLAPS

\* A subscriber has one place in a topic's list.
SubscribersDistinct ==
  \A t \in DOMAIN subscriptions : \A i, j \in DOMAIN subscriptions[t] :
    subscriptions[t][i] = subscriptions[t][j] => i = j

\* Nothing is queued under an id still to be given out.
QueuedArePublished ==
  \A p \in Pairs : \A e \in queues[p] : e.id <= publish_count

\* The inductive invariant.  NoDoubleDelivery needs SubscribersDistinct (a
\* publish pushes one copy) and QueuedArePublished (no older copy has its id);
\* DeadLettersAreFiled needs NoDoubleDelivery and InFlightIsDelivered (an ack
\* removes the delivered copy and no dead one).
IInv ==
  /\ TypeOK
  /\ SubscribersDistinct
  /\ QueuedArePublished
  /\ NoDoubleDelivery
  /\ InFlightIsDelivered
  /\ DeadLettersAreFiled

---------------------------------------------------------------------------------
\* What the operations write.

\* A list of subscribers is a list, whether or not the topic exists.
LEMMA SubscribersOfType ==
  ASSUME TypeOK, NEW t \in Topics
  PROVE  SubscribersOf(t) \in Seq(Subscribers)
  BY DEF TypeOK, SubscribersOf

\* A publish pushes entries only.
LEMMA CopiesType ==
  ASSUME TypeOK, NEW t \in Topics, NEW s \in Subscribers, NEW id \in Ids
  PROVE  Copies(t, s, id) \subseteq Entry
  <1>1. SubscribersOf(t) \in Seq(Subscribers)
    BY SubscribersOfType
  <1>2. DOMAIN SubscribersOf(t) \subseteq Nat
    BY <1>1
  <1>3. QED
    BY <1>2 DEF Copies, Entry, States

\* Moving an entry to another state, and delivering it, makes an entry of the
\* same message.
LEMMA EntryUpdates ==
  ASSUME NEW e \in Entry, NEW x \in States
  PROVE  /\ InState(e, x) \in Entry
         /\ InState(e, x).id = e.id
         /\ InState(e, x).state = x
         /\ Delivered(e) \in Entry
         /\ Delivered(e).id = e.id
         /\ Delivered(e).state = "Delivered"
  <1>1. InState(e, x) = [id |-> e.id, slot |-> e.slot, attempt |-> e.attempt, state |-> x]
    BY DEF Entry, InState
  <1>2. QED
    BY <1>1 DEF Entry, Delivered, States

\* Replacing one entry of one queue.
LEMMA UpdatedType ==
  ASSUME NEW Q \in [Pairs -> SUBSET Entry], NEW p \in Pairs,
         NEW e \in Entry, NEW f \in Entry
  PROVE  [Q EXCEPT ![p] = Updated(Q[p], e, f)] \in [Pairs -> SUBSET Entry]
  <1>1. Updated(Q[p], e, f) \in SUBSET Entry
    BY DEF Updated
  <1>2. QED
    BY <1>1

\* What a pull writes, with the entry it picked.
LEMMA PullEffect ==
  ASSUME TypeOK, NEW t \in Topics, NEW s \in Subscribers, Pull(t, s)
  PROVE  \E p \in Pairs : \E e \in queues[p] :
           /\ p = <<t, s>>
           /\ e \in Entry /\ e.state = "Pending"
           /\ \A f \in queues[p] : f.state = "Pending" /\ f # e => Before(e, f)
           /\ queues' = [queues EXCEPT ![p] = Updated(queues[p], e, Delivered(e))]
           /\ in_flight' = [in_flight EXCEPT ![e.id] = p]
  <1> DEFINE p == <<t, s>>
  <1>1. p \in Pairs
    BY DEF Pairs
  <1>2. PICK e \in queues[p] :
          /\ IsFirst(e, {f \in queues[p] : f.state = "Pending"})
          /\ queues' = [queues EXCEPT ![p] = Updated(@, e, Delivered(e))]
          /\ in_flight' = [in_flight EXCEPT ![e.id] = p]
    BY DEF Pull
  <1>3. e \in Entry
    BY <1>1 DEF TypeOK
  <1>4. e.state = "Pending" /\ \A f \in queues[p] : f.state = "Pending" /\ f # e => Before(e, f)
    BY <1>2 DEF IsFirst
  <1>5. QED
    BY <1>1, <1>2, <1>3, <1>4

\* What a nack writes: the entry of m in the queue in_flight points at moves to
\* state x, and is filed when x is the dead-letter state.
LEMMA NackEffect ==
  ASSUME TypeOK, NEW m \in Ids, Nack(m)
  PROVE  \E p \in Pairs, x \in {"Pending", "DeadLetter"} : \E e \in queues[p] :
           /\ p = in_flight[m]
           /\ e \in Entry /\ e.id = m
           /\ queues' = [queues EXCEPT ![p] = Updated(queues[p], e, InState(e, x))]
           /\ dlq' = IF x = "DeadLetter" THEN [dlq EXCEPT ![p] = Append(dlq[p], m)] ELSE dlq
           /\ in_flight' = [in_flight EXCEPT ![m] = None]
  <1> DEFINE p == in_flight[m]
  <1>1. p \in Pairs
    BY DEF Nack, TypeOK
  <1>2. PICK e \in queues[p] :
          /\ IsFirst(e, {f \in queues[p] : f.id = m})
          /\ IF e.attempt > configs[p[2]].max_retries
             THEN /\ queues' = [queues EXCEPT ![p] = Updated(@, e, InState(e, "DeadLetter"))]
                  /\ dlq' = [dlq EXCEPT ![p] = Append(@, m)]
             ELSE /\ queues' = [queues EXCEPT ![p] = Updated(@, e, InState(e, "Pending"))]
                  /\ UNCHANGED dlq
    BY DEF Nack
  <1>3. e \in Entry /\ e.id = m
    BY <1>1, <1>2 DEF TypeOK, IsFirst
  <1>4. in_flight' = [in_flight EXCEPT ![m] = None]
    BY DEF Nack
  <1>5. CASE e.attempt > configs[p[2]].max_retries
    <2>1. /\ queues' = [queues EXCEPT ![p] = Updated(queues[p], e, InState(e, "DeadLetter"))]
          /\ dlq' = [dlq EXCEPT ![p] = Append(dlq[p], m)]
      BY <1>2, <1>5
    <2>2. QED
      BY <1>1, <1>3, <1>4, <2>1
  <1>6. CASE ~(e.attempt > configs[p[2]].max_retries)
    <2>1. /\ queues' = [queues EXCEPT ![p] = Updated(queues[p], e, InState(e, "Pending"))]
          /\ dlq' = dlq
      BY <1>2, <1>6
    <2>2. QED
      BY <1>1, <1>3, <1>4, <2>1
  <1>7. QED
    BY <1>5, <1>6

---------------------------------------------------------------------------------
\* Type correctness.

\* The empty broker is well typed.
LEMMA InitTypeOK == Init => TypeOK
  BY ConfigAssumption, BoundAssumption DEF Init, TypeOK, Pairs, Ids

\* A publish keeps the broker's own variables typed.
LEMMA PublishTypeOK ==
  ASSUME TypeOK, NEW t \in Topics, Publish(t)
  PROVE  /\ queues' \in [Pairs -> SUBSET Entry]
         /\ publish_count' \in 0 .. MaxPublish
  <1>1. publish_count + 1 \in Ids
    BY BoundAssumption DEF TypeOK, Publish, Ids
  <1>2. ASSUME NEW p \in Pairs
        PROVE  Copies(t, p[2], publish_count + 1) \subseteq Entry
    BY <1>1, CopiesType DEF Pairs
  <1>3. QED
    BY <1>1, <1>2, BoundAssumption DEF TypeOK, Publish, Ids

\* Every operation keeps the types.
LEMMA NextTypeOK == TypeOK /\ [Next]_vars => TypeOK'
  <1> SUFFICES ASSUME TypeOK, [Next]_vars PROVE TypeOK'
    OBVIOUS
  <1>1. ASSUME NEW t \in Topics, CreateTopic(t) PROVE TypeOK'
    <2>1. \A u \in DOMAIN subscriptions \cup {t} : SubscribersOf(u) \in Seq(Subscribers)
      BY SubscribersOfType DEF TypeOK
    <2>2. QED
      BY <1>1, <2>1 DEF CreateTopic, TypeOK, Reported
  <1>2. ASSUME NEW t \in Topics, TcpPublish(t) PROVE TypeOK'
    BY <1>2, PublishTypeOK DEF TcpPublish, Publish, TypeOK
  <1>3. ASSUME NEW t \in Topics, NEW s \in Subscribers,
               NEW config \in Configs \cup {DefaultConfig}, Subscribe(t, s, config)
        PROVE  TypeOK'
    <2>1. \A u \in DOMAIN subscriptions \cup {t} :
            /\ SubscribersOf(u) \in Seq(Subscribers)
            /\ Append(SubscribersOf(u), s) \in Seq(Subscribers)
      BY SubscribersOfType DEF TypeOK
    <2>2. DOMAIN subscriptions' = DOMAIN subscriptions \cup {t}
      BY <1>3 DEF Subscribe
    <2>3. subscriptions' \in [DOMAIN subscriptions' -> Seq(Subscribers)]
      BY <1>3, <2>1, <2>2 DEF Subscribe
    <2>4. DOMAIN subscriptions' \subseteq Topics
      BY <2>2 DEF TypeOK
    <2>5. QED
      BY <1>3, <2>3, <2>4 DEF Subscribe, TypeOK
  <1>4. ASSUME NEW t \in Topics, NEW s \in Subscribers, Pull(t, s) PROVE TypeOK'
    <2>1. PICK p \in Pairs : \E e \in queues[p] :
            /\ e \in Entry
            /\ queues' = [queues EXCEPT ![p] = Updated(queues[p], e, Delivered(e))]
            /\ in_flight' = [in_flight EXCEPT ![e.id] = p]
      BY <1>4, PullEffect
    <2>2. PICK e \in queues[p] :
            /\ e \in Entry
            /\ queues' = [queues EXCEPT ![p] = Updated(queues[p], e, Delivered(e))]
            /\ in_flight' = [in_flight EXCEPT ![e.id] = p]
      BY <2>1
    <2>3. queues' \in [Pairs -> SUBSET Entry]
      BY <2>2, EntryUpdates, UpdatedType DEF TypeOK, States
    <2>4. in_flight' \in [Ids -> Pairs \cup {None}]
      BY <2>2 DEF TypeOK, Entry
    <2>5. QED
      BY <1>4, <2>3, <2>4 DEF Pull, TypeOK
  <1>5. ASSUME NEW m \in Ids, Ack(m) PROVE TypeOK'
    BY <1>5 DEF Ack, TypeOK
  <1>6. ASSUME NEW m \in Ids, Nack(m) PROVE TypeOK'
    <2>1. PICK p \in Pairs, x \in {"Pending", "DeadLetter"} : \E e \in queues[p] :
            /\ e \in Entry
            /\ queues' = [queues EXCEPT ![p] = Updated(queues[p], e, InState(e, x))]
            /\ dlq' = IF x = "DeadLetter" THEN [dlq EXCEPT ![p] = Append(dlq[p], m)] ELSE dlq
            /\ in_flight' = [in_flight EXCEPT ![m] = None]
      BY <1>6, NackEffect
    <2>2. queues' \in [Pairs -> SUBSET Entry]
      <3>1. PICK e \in queues[p] :
              /\ e \in Entry
              /\ queues' = [queues EXCEPT ![p] = Updated(queues[p], e, InState(e, x))]
        BY <2>1
      <3>2. InState(e, x) \in Entry
        BY <3>1, EntryUpdates DEF States
      <3>3. QED
        BY <3>1, <3>2, UpdatedType DEF TypeOK
    <2>3. Append(dlq[p], m) \in Seq(Ids)
      BY DEF TypeOK
    <2>4. dlq' \in [Pairs -> Seq(Ids)]
      BY <2>1, <2>3 DEF TypeOK
    <2>5. in_flight' \in [Ids -> Pairs \cup {None}]
      BY <2>1 DEF TypeOK
    <2>6. QED
      BY <1>6, <2>2, <2>4, <2>5 DEF Nack, TypeOK
  <1>7. ASSUME NEW c \in Publishers, NEW t \in Topics, HttpPublish(c, t) PROVE TypeOK'
    <2>1. Len(SubscribersOf(t)) \in Nat
      BY SubscribersOfType
    <2>2. QED
      BY <1>7, <2>1, PublishTypeOK DEF HttpPublish, Publish, TypeOK
  <1>8. ASSUME NEW c \in Publishers, HttpPublishReply(c) PROVE TypeOK'
    BY <1>8 DEF HttpPublishReply, broker, TypeOK
  <1>9. CASE UNCHANGED vars
    BY <1>9 DEF vars, TypeOK
  <1>10. QED
    BY <1>1, <1>2, <1>3, <1>4, <1>5, <1>6, <1>7, <1>8, <1>9 DEF Next

\* The broker's state stays well formed under every interleaving of its
\* operations.
THEOREM TypeCorrect == Spec => []TypeOK
  <1>1. QED
    BY InitTypeOK, NextTypeOK, PTL DEF Spec

---------------------------------------------------------------------------------
\* The invariant.

\* An update in place keeps ids distinct and the other entries where they are.
LEMMA UpdatedProperties ==
  ASSUME NEW q, NEW e \in q, NEW f, f.id = e.id,
         \A x, y \in q : x.id = y.id => x = y
  PROVE  /\ \A x, y \in Updated(q, e, f) : x.id = y.id => x = y
         /\ \A x \in Updated(q, e, f) : x = f \/ (x \in q /\ x.id # e.id)
         /\ \A x \in q : x.id # e.id => x \in Updated(q, e, f)
         /\ f \in Updated(q, e, f)
  BY DEF Updated

\* The empty broker satisfies the invariant.
LEMMA InitIInv == Init => IInv
  <1> SUFFICES ASSUME Init PROVE IInv
    OBVIOUS
  <1>1. TypeOK
    BY InitTypeOK
  <1>2. SubscribersDistinct
    BY DEF Init, SubscribersDistinct
  <1>3. QueuedArePublished /\ NoDoubleDelivery /\ InFlightIsDelivered
    BY DEF Init, QueuedArePublished, NoDoubleDelivery, InFlightIsDelivered
  <1>4. DeadLettersAreFiled
    BY DEF Init, DeadLettersAreFiled
  <1>5. QED
    BY <1>1, <1>2, <1>3, <1>4 DEF IInv

\* Attaching a subscriber, or creating a topic, keeps the lists duplicate free.
LEMMA SubscribeKeepsDistinct ==
  ASSUME TypeOK, SubscribersDistinct, NEW t \in Topics, NEW s \in Subscribers,
         NEW config, Subscribe(t, s, config)
  PROVE  SubscribersDistinct'
  <1> SUFFICES ASSUME NEW u \in DOMAIN subscriptions',
                      NEW i \in DOMAIN subscriptions'[u], NEW j \in DOMAIN subscriptions'[u],
                      subscriptions'[u][i] = subscriptions'[u][j]
               PROVE  i = j
    BY DEF SubscribersDistinct
  <1>1. u \in DOMAIN subscriptions \cup {t}
    BY DEF Subscribe
  <1>2. SubscribersOf(u) \in Seq(Subscribers)
    BY <1>1, SubscribersOfType DEF TypeOK
  <1>3. \A k, l \in DOMAIN SubscribersOf(u) : SubscribersOf(u)[k] = SubscribersOf(u)[l] => k = l
    BY DEF SubscribersDistinct, SubscribersOf
  <1>4. CASE u = t /\ ~Attached(t, s)
    <2>1. subscriptions'[u] = Append(SubscribersOf(u), s)
      BY <1>1, <1>4 DEF Subscribe
    <2>2. \A k \in DOMAIN SubscribersOf(u) : SubscribersOf(u)[k] # s
      BY <1>4 DEF Attached
    <2>3. QED
      BY <1>2, <1>3, <2>1, <2>2
  <1>5. CASE ~(u = t /\ ~Attached(t, s))
    <2>1. subscriptions'[u] = SubscribersOf(u)
      BY <1>1, <1>5 DEF Subscribe
    <2>2. QED
      BY <1>3, <2>1
  <1>6. QED
    BY <1>4, <1>5

\* A publish pushes one copy, under an id nothing in any queue has.
LEMMA PublishKeepsIInv ==
  ASSUME IInv, NEW t \in Topics, Publish(t)
  PROVE  /\ SubscribersDistinct' /\ QueuedArePublished' /\ NoDoubleDelivery'
         /\ InFlightIsDelivered' /\ DeadLettersAreFiled'
  <1> DEFINE new == publish_count + 1
  <1>1. publish_count \in Nat /\ publish_count' = new
    BY BoundAssumption DEF IInv, TypeOK, Publish
  <1>2. SubscribersDistinct'
    BY DEF IInv, Publish, SubscribersDistinct
  <1>3. ASSUME NEW s \in Subscribers
        PROVE  /\ \A x \in Copies(t, s, new) : x.id = new /\ x.state = "Pending"
               /\ \A x, y \in Copies(t, s, new) : x = y
    BY DEF Copies, IInv, SubscribersDistinct, SubscribersOf
  <1>4. ASSUME NEW p \in Pairs
        PROVE  /\ queues[p] \subseteq queues'[p]
               /\ \A x \in queues'[p] \ queues[p] : x.id = new /\ x.state = "Pending"
               /\ \A x, y \in queues'[p] \ queues[p] : x = y
    BY <1>3 DEF Publish, Pairs
  <1>5. \A p \in Pairs : \A x \in queues[p] : x.id \in Nat /\ x.id <= publish_count
    BY DEF IInv, TypeOK, Entry, QueuedArePublished, Ids
  <1>6. QueuedArePublished'
    BY <1>1, <1>4, <1>5 DEF QueuedArePublished
  <1>7. NoDoubleDelivery'
    <2> SUFFICES ASSUME NEW p \in Pairs, NEW x \in queues'[p], NEW y \in queues'[p],
                        x.id = y.id
                 PROVE  x = y
      BY DEF NoDoubleDelivery
    <2>1. CASE x \in queues[p] /\ y \in queues[p]
      BY <2>1 DEF IInv, NoDoubleDelivery
    <2>2. CASE x \notin queues[p] /\ y \notin queues[p]
      BY <2>2, <1>4
    <2>3. CASE x \in queues[p] <=> y \notin queues[p]
      BY <2>3, <1>1, <1>4, <1>5
    <2>4. QED
      BY <2>1, <2>2, <2>3
  <1>8. InFlightIsDelivered'
    BY <1>4 DEF IInv, TypeOK, InFlightIsDelivered, Publish
  <1>9. DeadLettersAreFiled'
    <2>1. dlq' = dlq
      BY DEF Publish
    <2>2. \A p \in Pairs, m \in Ids :
            (\E e \in queues'[p] : e.id = m /\ e.state = "DeadLetter")
              <=> (\E e \in queues[p] : e.id = m /\ e.state = "DeadLetter")
      BY <1>4
    <2>3. QED
      BY <2>1, <2>2 DEF IInv, DeadLettersAreFiled
  <1>10. QED
    BY <1>2, <1>6, <1>7, <1>8, <1>9

\* A pull delivers the copy it points in_flight at.
LEMMA PullKeepsIInv ==
  ASSUME IInv, NEW t \in Topics, NEW s \in Subscribers, Pull(t, s)
  PROVE  /\ SubscribersDistinct' /\ QueuedArePublished' /\ NoDoubleDelivery'
         /\ InFlightIsDelivered' /\ DeadLettersAreFiled'
  <1>1. PICK p \in Pairs : \E e \in queues[p] :
          /\ e \in Entry /\ e.state = "Pending"
          /\ queues' = [queues EXCEPT ![p] = Updated(queues[p], e, Delivered(e))]
          /\ in_flight' = [in_flight EXCEPT ![e.id] = p]
    BY PullEffect DEF IInv
  <1>2. PICK e \in queues[p] :
          /\ e \in Entry /\ e.state = "Pending"
          /\ queues' = [queues EXCEPT ![p] = Updated(queues[p], e, Delivered(e))]
          /\ in_flight' = [in_flight EXCEPT ![e.id] = p]
    BY <1>1
  <1> DEFINE q == Updated(queues[p], e, Delivered(e))
  <1>3. Delivered(e).id = e.id /\ Delivered(e).state = "Delivered"
    BY DEF Delivered
  <1>4. /\ \A x, y \in q : x.id = y.id => x = y
        /\ \A x \in q : x = Delivered(e) \/ (x \in queues[p] /\ x.id # e.id)
        /\ \A x \in queues[p] : x.id # e.id => x \in q
        /\ Delivered(e) \in q
    BY <1>3, UpdatedProperties DEF IInv, NoDoubleDelivery
  <1>5. queues'[p] = q /\ \A r \in Pairs : r # p => queues'[r] = queues[r]
    BY <1>2 DEF IInv, TypeOK
  <1> HIDE DEF q
  <1>6. SubscribersDistinct'
    BY DEF IInv, Pull, SubscribersDistinct
  <1>7. QueuedArePublished'
    BY <1>3, <1>4, <1>5 DEF IInv, Pull, QueuedArePublished
  <1>8. NoDoubleDelivery'
    BY <1>4, <1>5 DEF IInv, NoDoubleDelivery
  <1>9. InFlightIsDelivered'
    <2> SUFFICES ASSUME NEW m \in Ids, in_flight'[m] # None
                 PROVE  \E x \in queues'[in_flight'[m]] : x.id = m /\ x.state = "Delivered"
      BY DEF InFlightIsDelivered
    <2>1. CASE m = e.id
      BY <1>2, <1>3, <1>4, <1>5, <2>1 DEF IInv, TypeOK
    <2>2. CASE m # e.id
      <3>1. in_flight'[m] = in_flight[m] /\ in_flight[m] \in Pairs
        BY <1>2, <2>2 DEF IInv, TypeOK
      <3>2. PICK x \in queues[in_flight[m]] : x.id = m /\ x.state = "Delivered"
        BY <3>1 DEF IInv, InFlightIsDelivered
      <3>3. QED
        BY <1>4, <1>5, <2>2, <3>1, <3>2
    <2>3. QED
      BY <2>1, <2>2
  <1>10. DeadLettersAreFiled'
    <2>1. dlq' = dlq
      BY DEF Pull
    <2>2. \A r \in Pairs, m \in Ids :
            (\E x \in queues'[r] : x.id = m /\ x.state = "DeadLetter")
              <=> (\E x \in queues[r] : x.id = m /\ x.state = "DeadLetter")
      <3>1. \A x \in queues[p] : x.id = e.id => x = e
        BY DEF IInv, NoDoubleDelivery
      <3>2. QED
        BY <1>2, <1>3, <1>4, <1>5, <3>1
    <2>3. QED
      BY <2>1, <2>2 DEF IInv, DeadLettersAreFiled
  <1>11. QED
    BY <1>6, <1>7, <1>8, <1>9, <1>10

\* What in_flight points at is the only copy of m in that queue, and delivered.
LEMMA InFlightCopy ==
  ASSUME IInv, NEW m \in Ids, in_flight[m] # None
  PROVE  /\ in_flight[m] \in Pairs
         /\ \A x \in queues[in_flight[m]] : x.id = m => x.state = "Delivered"
  <1>1. in_flight[m] \in Pairs
    BY DEF IInv, TypeOK
  <1>2. PICK y \in queues[in_flight[m]] : y.id = m /\ y.state = "Delivered"
    BY DEF IInv, InFlightIsDelivered
  <1>3. \A x \in queues[in_flight[m]] : x.id = m => x = y
    BY <1>1, <1>2 DEF IInv, NoDoubleDelivery
  <1>4. QED
    BY <1>1, <1>2, <1>3

\* An ack removes a delivered copy, and the id from flight.
LEMMA AckKeepsIInv ==
  ASSUME IInv, NEW m \in Ids, Ack(m)
  PROVE  /\ SubscribersDistinct' /\ QueuedArePublished' /\ NoDoubleDelivery'
         /\ InFlightIsDelivered' /\ DeadLettersAreFiled'
  <1> DEFINE p == in_flight[m]
  <1>1. /\ p \in Pairs
        /\ \A x \in queues[p] : x.id = m => x.state = "Delivered"
    BY InFlightCopy DEF Ack
  <1>2. /\ queues'[p] = {x \in queues[p] : x.id # m}
        /\ \A r \in Pairs : r # p => queues'[r] = queues[r]
    BY <1>1 DEF Ack, IInv, TypeOK
  <1>3. SubscribersDistinct'
    BY DEF IInv, Ack, SubscribersDistinct
  <1>4. QueuedArePublished'
    BY <1>2 DEF IInv, Ack, QueuedArePublished
  <1>5. NoDoubleDelivery'
    BY <1>2 DEF IInv, NoDoubleDelivery
  <1>6. InFlightIsDelivered'
    <2> SUFFICES ASSUME NEW k \in Ids, in_flight'[k] # None
                 PROVE  \E x \in queues'[in_flight'[k]] : x.id = k /\ x.state = "Delivered"
      BY DEF InFlightIsDelivered
    <2>1. k # m /\ in_flight'[k] = in_flight[k] /\ in_flight[k] \in Pairs
      BY DEF Ack, IInv, TypeOK
    <2>2. PICK x \in queues[in_flight[k]] : x.id = k /\ x.state = "Delivered"
      BY <2>1 DEF IInv, InFlightIsDelivered
    <2>3. QED
      BY <1>2, <2>1, <2>2
  <1>7. DeadLettersAreFiled'
    <2>1. dlq' = dlq
      BY DEF Ack
    <2>2. \A r \in Pairs, k \in Ids :
            (\E x \in queues'[r] : x.id = k /\ x.state = "DeadLetter")
              <=> (\E x \in queues[r] : x.id = k /\ x.state = "DeadLetter")
      BY <1>1, <1>2
    <2>3. QED
      BY <2>1, <2>2 DEF IInv, DeadLettersAreFiled
  <1>8. QED
    BY <1>3, <1>4, <1>5, <1>6, <1>7

\* Filing m keeps the list of dead letters exact when m was not in it.
LEMMA FiledOnce ==
  ASSUME NEW d \in Seq(Ids), NEW m \in Ids,
         \A i \in DOMAIN d : d[i] # m,
         \A i, j \in DOMAIN d : d[i] = d[j] => i = j
  PROVE  /\ \A i, j \in DOMAIN Append(d, m) : Append(d, m)[i] = Append(d, m)[j] => i = j
         /\ \A k \in Ids : (\E i \in DOMAIN Append(d, m) : Append(d, m)[i] = k)
                            <=> (k = m \/ \E i \in DOMAIN d : d[i] = k)
  <1>1. /\ DOMAIN d = 1 .. Len(d) /\ Len(d) \in Nat
        /\ DOMAIN Append(d, m) = 1 .. Len(d) + 1
        /\ Append(d, m)[Len(d) + 1] = m
        /\ \A i \in 1 .. Len(d) : Append(d, m)[i] = d[i]
    OBVIOUS
  <1>2. QED
    BY <1>1

\* A nack requeues or files a delivered copy, once, and takes its id from flight.
LEMMA NackKeepsIInv ==
  ASSUME IInv, NEW m \in Ids, Nack(m)
  PROVE  /\ SubscribersDistinct' /\ QueuedArePublished' /\ NoDoubleDelivery'
         /\ InFlightIsDelivered' /\ DeadLettersAreFiled'
  <1>1. PICK p \in Pairs, x \in {"Pending", "DeadLetter"} : \E e \in queues[p] :
          /\ p = in_flight[m]
          /\ e \in Entry /\ e.id = m
          /\ queues' = [queues EXCEPT ![p] = Updated(queues[p], e, InState(e, x))]
          /\ dlq' = IF x = "DeadLetter" THEN [dlq EXCEPT ![p] = Append(dlq[p], m)] ELSE dlq
          /\ in_flight' = [in_flight EXCEPT ![m] = None]
    BY NackEffect DEF IInv
  <1>2. PICK e \in queues[p] :
          /\ p = in_flight[m]
          /\ e \in Entry /\ e.id = m
          /\ queues' = [queues EXCEPT ![p] = Updated(queues[p], e, InState(e, x))]
          /\ dlq' = IF x = "DeadLetter" THEN [dlq EXCEPT ![p] = Append(dlq[p], m)] ELSE dlq
          /\ in_flight' = [in_flight EXCEPT ![m] = None]
    BY <1>1
  <1> DEFINE g == InState(e, x)
             q == Updated(queues[p], e, g)
  <1>3. g.id = m /\ g.state = x
    BY <1>2, EntryUpdates DEF States
  <1>4. in_flight[m] # None
    BY DEF Nack
  <1>5. \A y \in queues[p] : y.id = m => y.state = "Delivered"
    BY <1>2, <1>4, InFlightCopy
  <1>6. \A y, z \in queues[p] : y.id = z.id => y = z
    BY DEF IInv, NoDoubleDelivery
  <1>7. /\ \A y, z \in q : y.id = z.id => y = z
        /\ \A y \in q : y = g \/ (y \in queues[p] /\ y.id # m)
        /\ \A y \in queues[p] : y.id # m => y \in q
        /\ g \in q
    <2> HIDE DEF g
    <2>1. QED
      BY <1>2, <1>3, <1>6, UpdatedProperties
  <1>8. queues'[p] = q /\ \A r \in Pairs : r # p => queues'[r] = queues[r]
    BY <1>2 DEF IInv, TypeOK
  <1> HIDE DEF g, q
  <1>9. SubscribersDistinct'
    BY DEF IInv, Nack, SubscribersDistinct
  <1>10. QueuedArePublished'
    BY <1>2, <1>3, <1>7, <1>8 DEF IInv, Nack, QueuedArePublished
  <1>11. NoDoubleDelivery'
    BY <1>7, <1>8 DEF IInv, NoDoubleDelivery
  <1>12. InFlightIsDelivered'
    <2> SUFFICES ASSUME NEW k \in Ids, in_flight'[k] # None
                 PROVE  \E y \in queues'[in_flight'[k]] : y.id = k /\ y.state = "Delivered"
      BY DEF InFlightIsDelivered
    <2>1. k # m /\ in_flight'[k] = in_flight[k] /\ in_flight[k] \in Pairs
      BY <1>2 DEF IInv, TypeOK
    <2>2. PICK y \in queues[in_flight[k]] : y.id = k /\ y.state = "Delivered"
      BY <2>1 DEF IInv, InFlightIsDelivered
    <2>3. QED
      BY <1>7, <1>8, <2>1, <2>2
  <1>13. DeadLettersAreFiled'
    <2> SUFFICES ASSUME NEW r \in Pairs
                 PROVE  /\ \A k \in Ids :
                             (\E y \in queues'[r] : y.id = k /\ y.state = "DeadLetter")
                               <=> (\E i \in DOMAIN dlq'[r] : dlq'[r][i] = k)
                        /\ \A i, j \in DOMAIN dlq'[r] : dlq'[r][i] = dlq'[r][j] => i = j
      BY DEF DeadLettersAreFiled
    <2>1. /\ \A k \in Ids :
               (\E y \in queues[r] : y.id = k /\ y.state = "DeadLetter")
                 <=> (\E i \in DOMAIN dlq[r] : dlq[r][i] = k)
          /\ \A i, j \in DOMAIN dlq[r] : dlq[r][i] = dlq[r][j] => i = j
      BY DEF IInv, DeadLettersAreFiled
    <2>2. CASE r # p
      <3>1. queues'[r] = queues[r] /\ dlq'[r] = dlq[r]
        BY <1>2, <1>8, <2>2 DEF IInv, TypeOK
      <3>2. QED
        BY <2>1, <3>1
    <2>3. CASE r = p /\ x = "Pending"
      <3>1. dlq'[r] = dlq[r]
        BY <1>2, <2>3
      <3>2. \A k \in Ids :
              (\E y \in queues'[r] : y.id = k /\ y.state = "DeadLetter")
                <=> (\E y \in queues[r] : y.id = k /\ y.state = "DeadLetter")
        BY <1>3, <1>5, <1>7, <1>8, <2>3
      <3>3. QED
        BY <2>1, <3>1, <3>2
    <2>4. CASE r = p /\ x = "DeadLetter"
      <3>1. dlq[r] \in Seq(Ids) /\ dlq'[r] = Append(dlq[r], m)
        BY <1>2, <2>4 DEF IInv, TypeOK
      <3>2. \A i \in DOMAIN dlq[r] : dlq[r][i] # m
        BY <1>5, <2>1, <2>4
      <3>3. \A k \in Ids :
              (\E y \in queues'[r] : y.id = k /\ y.state = "DeadLetter")
                <=> (k = m \/ \E y \in queues[r] : y.id = k /\ y.state = "DeadLetter")
        BY <1>3, <1>5, <1>7, <1>8, <2>4
      <3>4. /\ \A i, j \in DOMAIN dlq'[r] : dlq'[r][i] = dlq'[r][j] => i = j
            /\ \A k \in Ids : (\E i \in DOMAIN dlq'[r] : dlq'[r][i] = k)
                               <=> (k = m \/ \E i \in DOMAIN dlq[r] : dlq[r][i] = k)
        <4> DEFINE d == dlq[r]
        <4>1. d \in Seq(Ids) /\ dlq'[r] = Append(d, m)
          BY <3>1
        <4>2. /\ \A i \in DOMAIN d : d[i] # m
              /\ \A i, j \in DOMAIN d : d[i] = d[j] => i = j
          BY <2>1, <3>2
        <4> HIDE DEF d
        <4>3. /\ \A i, j \in DOMAIN Append(d, m) : Append(d, m)[i] = Append(d, m)[j] => i = j
              /\ \A k \in Ids : (\E i \in DOMAIN Append(d, m) : Append(d, m)[i] = k)
                                 <=> (k = m \/ \E i \in DOMAIN d : d[i] = k)
          BY <4>1, <4>2, FiledOnce
        <4>4. QED
          BY <4>1, <4>3 DEF d
      <3>5. QED
        BY <2>1, <3>3, <3>4
    <2>5. QED
      BY <2>2, <2>3, <2>4
  <1>14. QED
    BY <1>9, <1>10, <1>11, <1>12, <1>13

\* Every operation keeps the invariant.
LEMMA NextIInv == IInv /\ [Next]_vars => IInv'
  <1> SUFFICES ASSUME IInv, [Next]_vars PROVE IInv'
    OBVIOUS
  <1> DEFINE Rest == /\ SubscribersDistinct /\ QueuedArePublished /\ NoDoubleDelivery
                     /\ InFlightIsDelivered /\ DeadLettersAreFiled
  <1>1. TypeOK'
    BY NextTypeOK DEF IInv
  <1>2. ASSUME NEW t \in Topics, CreateTopic(t) PROVE Rest'
    <2>1. SubscribersDistinct'
      BY <1>2 DEF CreateTopic, IInv, SubscribersDistinct, SubscribersOf
    <2>2. QED
      BY <1>2, <2>1 DEF CreateTopic, IInv, QueuedArePublished, NoDoubleDelivery,
                        InFlightIsDelivered, DeadLettersAreFiled
  <1>3. ASSUME NEW t \in Topics, NEW s \in Subscribers, NEW config, Subscribe(t, s, config)
        PROVE  Rest'
    <2>1. SubscribersDistinct'
      BY <1>3, SubscribeKeepsDistinct DEF IInv
    <2>2. QED
      BY <1>3, <2>1 DEF Subscribe, IInv, QueuedArePublished, NoDoubleDelivery,
                        InFlightIsDelivered, DeadLettersAreFiled
  <1>4. ASSUME NEW t \in Topics, Publish(t) PROVE Rest'
    BY <1>4, PublishKeepsIInv
  <1>5. ASSUME NEW t \in Topics, NEW s \in Subscribers, Pull(t, s) PROVE Rest'
    BY <1>5, PullKeepsIInv
  <1>6. ASSUME NEW m \in Ids, Ack(m) PROVE Rest'
    BY <1>6, AckKeepsIInv
  <1>7. ASSUME NEW m \in Ids, Nack(m) PROVE Rest'
    BY <1>7, NackKeepsIInv
  <1>8. ASSUME UNCHANGED broker PROVE Rest'
    BY <1>8 DEF broker, IInv, SubscribersDistinct, QueuedArePublished, NoDoubleDelivery,
                InFlightIsDelivered, DeadLettersAreFiled
  <1>9. Rest'
    <2>1. UNCHANGED vars => UNCHANGED broker
      BY DEF vars, broker
    <2> HIDE DEF Rest
    <2>2. QED
      BY <1>2, <1>3, <1>4, <1>5, <1>6, <1>7, <1>8, <2>1
      DEF Next, TcpPublish, HttpPublish, HttpPublishReply
  <1>10. QED
    BY <1>1, <1>9 DEF IInv

\* The invariant holds throughout.
LEMMA Invariance == Spec => []IInv
  <1>1. QED
    BY InitIInv, NextIInv, PTL DEF Spec

\* Whatever the subscribers of a topic do to each other's place in in_flight, an
\* id in flight designates a delivered copy: no ack or nack settles a message
\* that is pending or dead.
THEOREM InFlightSafe == Spec => []InFlightIsDelivered
  <1>1. IInv => InFlightIsDelivered
    BY DEF IInv
  <1>2. QED
    BY <1>1, Invariance, PTL

\* Re-subscribing never makes a later publish arrive twice.
THEOREM DeliveredOnce == Spec => []NoDoubleDelivery
  <1>1. IInv => NoDoubleDelivery
    BY DEF IInv
  <1>2. QED
    BY <1>1, Invariance, PTL

\* The dead-letter lists are exact.
THEOREM DeadLettersExact == Spec => []DeadLettersAreFiled
  <1>1. IInv => DeadLettersAreFiled
    BY DEF IInv
  <1>2. QED
    BY <1>1, Invariance, PTL

\* A message is lost to a subscription only through an ack of its own delivery.
THEOREM NothingLost == Spec => LostOnlyIfDelivered
  <1> DEFINE A == \A p \in Pairs : \A e \in queues[p] :
                    (\A f \in queues[p]' : f.id # e.id) => e.state = "Delivered"
  <1>1. ASSUME IInv, [Next]_vars PROVE [A]_vars
    <2> SUFFICES ASSUME Next, NEW p \in Pairs, NEW e \in queues[p],
                        \A f \in queues'[p] : f.id # e.id
                 PROVE  e.state = "Delivered"
      BY <1>1
    <2>1. ASSUME UNCHANGED queues PROVE FALSE
      BY <2>1
    <2>2. ASSUME NEW t \in Topics, Publish(t) PROVE FALSE
      BY <2>2 DEF Publish
    <2>3. ASSUME NEW t \in Topics, NEW s \in Subscribers, Pull(t, s) PROVE FALSE
      <3>1. PICK r \in Pairs : \E x \in queues[r] :
              queues' = [queues EXCEPT ![r] = Updated(queues[r], x, Delivered(x))]
        BY <1>1, <2>3, PullEffect DEF IInv
      <3>2. PICK x \in queues[r] :
              queues' = [queues EXCEPT ![r] = Updated(queues[r], x, Delivered(x))]
        BY <3>1
      <3>3. Delivered(x).id = x.id
        BY DEF Delivered
      <3>4. QED
        BY <1>1, <3>2, <3>3 DEF IInv, TypeOK, Updated
    <2>4. ASSUME NEW m \in Ids, Ack(m) PROVE e.state = "Delivered"
      <3>1. in_flight[m] \in Pairs
        BY <1>1, <2>4, InFlightCopy DEF Ack
      <3>2. p = in_flight[m] /\ e.id = m
        BY <1>1, <2>4, <3>1 DEF Ack, IInv, TypeOK
      <3>3. QED
        BY <1>1, <2>4, <3>2, InFlightCopy DEF Ack
    <2>5. ASSUME NEW m \in Ids, Nack(m) PROVE FALSE
      <3>1. PICK r \in Pairs, y \in {"Pending", "DeadLetter"} : \E x \in queues[r] :
              /\ x \in Entry
              /\ queues' = [queues EXCEPT ![r] = Updated(queues[r], x, InState(x, y))]
        BY <1>1, <2>5, NackEffect DEF IInv
      <3>2. PICK x \in queues[r] :
              /\ x \in Entry
              /\ queues' = [queues EXCEPT ![r] = Updated(queues[r], x, InState(x, y))]
        BY <3>1
      <3>3. InState(x, y).id = x.id
        BY <3>2, EntryUpdates DEF States
      <3>4. QED
        BY <1>1, <3>2, <3>3 DEF IInv, TypeOK, Updated
    <2>6. QED
      BY <2>1, <2>2, <2>3, <2>4, <2>5
      DEF Next, CreateTopic, Subscribe, TcpPublish, HttpPublish, HttpPublishReply, broker
  <1>2. QED
    BY <1>1, Invariance, PTL DEF Spec, LostOnlyIfDelivered

\* Strict FIFO for an ordered subscription.
THEOREM FifoWhenOrdered == Spec => OrderedDelivery
  <1> DEFINE A == \A t \in Topics, s \in Subscribers : configs[s].message_ordering =>
                    \A e \in queues[<<t, s>>]' \ queues[<<t, s>>] : e.state = "Delivered" =>
                      \A f \in queues[<<t, s>>] : f.id # e.id =>
                        /\ f.state # "Delivered"
                        /\ f.id < e.id => f.state = "DeadLetter"
  <1>1. ASSUME IInv, [Next]_vars PROVE [A]_vars
    <2> SUFFICES ASSUME Next, NEW t \in Topics, NEW s \in Subscribers,
                        configs[s].message_ordering,
                        NEW e \in queues'[<<t, s>>], e \notin queues[<<t, s>>],
                        e.state = "Delivered",
                        NEW f \in queues[<<t, s>>], f.id # e.id
                 PROVE  /\ f.state # "Delivered"
                        /\ f.id < e.id => f.state = "DeadLetter"
      BY <1>1
    <2> DEFINE p == <<t, s>>
    <2>1. p \in Pairs /\ f \in Entry
      BY <1>1 DEF Pairs, IInv, TypeOK
    <2>2. ASSUME UNCHANGED queues PROVE FALSE
      BY <2>2
    <2>3. ASSUME NEW u \in Topics, Publish(u) PROVE FALSE
      <3>1. e \in Copies(u, s, publish_count + 1)
        BY <2>1, <2>3 DEF Publish
      <3>2. QED
        BY <3>1 DEF Copies
    <2>4. ASSUME NEW m \in Ids, Ack(m) PROVE FALSE
      BY <1>1, <2>1, <2>4, InFlightCopy DEF Ack, IInv, TypeOK
    <2>5. ASSUME NEW m \in Ids, Nack(m) PROVE FALSE
      <3>1. PICK r \in Pairs, y \in {"Pending", "DeadLetter"} : \E x \in queues[r] :
              /\ x \in Entry
              /\ queues' = [queues EXCEPT ![r] = Updated(queues[r], x, InState(x, y))]
        BY <1>1, <2>5, NackEffect DEF IInv
      <3>2. PICK x \in queues[r] :
              /\ x \in Entry
              /\ queues' = [queues EXCEPT ![r] = Updated(queues[r], x, InState(x, y))]
        BY <3>1
      <3>3. InState(x, y).state = y
        BY <3>2, EntryUpdates DEF States
      <3>4. QED
        BY <1>1, <2>1, <3>2, <3>3 DEF IInv, TypeOK, Updated
    <2>6. ASSUME NEW u \in Topics, NEW v \in Subscribers, Pull(u, v)
          PROVE  /\ f.state # "Delivered"
                 /\ f.id < e.id => f.state = "DeadLetter"
      <3>1. PICK r \in Pairs : \E x \in queues[r] :
              /\ r = <<u, v>>
              /\ x \in Entry
              /\ \A g \in queues[r] : g.state = "Pending" /\ g # x => Before(x, g)
              /\ queues' = [queues EXCEPT ![r] = Updated(queues[r], x, Delivered(x))]
        BY <1>1, <2>6, PullEffect DEF IInv
      <3>2. PICK x \in queues[r] :
              /\ r = <<u, v>>
              /\ x \in Entry
              /\ \A g \in queues[r] : g.state = "Pending" /\ g # x => Before(x, g)
              /\ queues' = [queues EXCEPT ![r] = Updated(queues[r], x, Delivered(x))]
        BY <3>1
      <3>3. r = p /\ e = Delivered(x)
        BY <1>1, <2>1, <3>2 DEF IInv, TypeOK, Updated
      <3>4. e.id = x.id
        BY <3>3 DEF Delivered
      <3>5. u = t /\ v = s
        BY <3>2, <3>3
      <3>6. f.state # "Delivered"
        BY <2>6, <3>5 DEF Pull
      <3>7. ASSUME f.id < e.id PROVE f.state # "Pending"
        BY <2>1, <3>2, <3>3, <3>4, <3>7 DEF Before, Entry, Ids
      <3>8. f.state \in States
        BY <2>1 DEF Entry
      <3>9. QED
        BY <3>6, <3>7, <3>8 DEF States
    <2>7. QED
      BY <2>2, <2>3, <2>4, <2>5, <2>6
      DEF Next, CreateTopic, Subscribe, TcpPublish, HttpPublish, HttpPublishReply, broker
  <1>2. QED
    BY <1>1, Invariance, PTL DEF Spec, OrderedDelivery

\* The handler's second count can only have grown since the fan-out.
THEOREM FanOutBound == Spec => []FanOutNotUnderstated
  <1> DEFINE Inv == IInv /\ FanOutNotUnderstated
  <1>1. Init => Inv
    BY InitIInv DEF Init, FanOutNotUnderstated
  <1>2. ASSUME Inv, [Next]_vars PROVE Inv'
    <2>1. \A t \in Topics :
            /\ Len(SubscribersOf(t)) \in Nat
            /\ Len(SubscribersOf(t)') \in Nat
            /\ Len(SubscribersOf(t)) <= Len(SubscribersOf(t)')
      <3> SUFFICES ASSUME NEW t \in Topics
                   PROVE  /\ Len(SubscribersOf(t)) \in Nat
                          /\ Len(SubscribersOf(t)') \in Nat
                          /\ Len(SubscribersOf(t)) <= Len(SubscribersOf(t)')
        OBVIOUS
      <3>1. SubscribersOf(t) \in Seq(Subscribers)
        BY <1>2, SubscribersOfType DEF IInv
      <3>2. Len(SubscribersOf(t)) \in Nat
        BY <3>1
      <3>3. ASSUME UNCHANGED subscriptions PROVE SubscribersOf(t)' = SubscribersOf(t)
        BY <3>3 DEF SubscribersOf
      <3>4. ASSUME NEW u \in Topics, CreateTopic(u)
            PROVE  SubscribersOf(t)' = SubscribersOf(t)
        BY <3>4 DEF CreateTopic, SubscribersOf
      <3>5. ASSUME NEW u \in Topics, NEW s \in Subscribers, NEW config, Subscribe(u, s, config)
            PROVE  \/ SubscribersOf(t)' = SubscribersOf(t)
                   \/ SubscribersOf(t)' = Append(SubscribersOf(t), s)
        BY <3>5 DEF Subscribe, SubscribersOf
      <3>6. \/ SubscribersOf(t)' = SubscribersOf(t)
            \/ \E s \in Subscribers : SubscribersOf(t)' = Append(SubscribersOf(t), s)
        BY <1>2, <3>3, <3>4, <3>5
        DEF Next, vars, TcpPublish, HttpPublish, Publish, Pull, Ack, Nack, HttpPublishReply, broker
      <3>7. \A s \in Subscribers : Len(Append(SubscribersOf(t), s)) = Len(SubscribersOf(t)) + 1
        BY <3>1
      <3>8. QED
        BY <3>2, <3>6, <3>7
    <2>2. FanOutNotUnderstated'
      <3> SUFFICES ASSUME NEW c \in Publishers, replying'[c] # None
                   PROVE  \A u \in Topics : replying'[c].topic = u => replying'[c].width <= Len(SubscribersOf(u)')
        <4>1. TypeOK'
          BY <1>2, NextIInv DEF IInv
        <4>2. \A c \in Publishers : replying'[c] # None => replying'[c].topic \in Topics
          BY <4>1 DEF TypeOK
        <4>3. QED
          BY <4>2 DEF FanOutNotUnderstated, Reported, SubscribersOf
      <3>1. ASSUME replying'[c] = replying[c]
            PROVE  \A u \in Topics : replying'[c].topic = u => replying'[c].width <= Len(SubscribersOf(u)')
        <4>1. replying[c] \in [topic : Topics, width : Nat]
          BY <1>2, <3>1 DEF IInv, TypeOK
        <4>2. replying[c].width <= Len(SubscribersOf(replying[c].topic))
          BY <1>2, <3>1 DEF FanOutNotUnderstated, Reported
        <4>3. QED
          BY <2>1, <3>1, <4>1, <4>2
      <3>2. ASSUME NEW t \in Topics, HttpPublish(c, t)
            PROVE  \A u \in Topics : replying'[c].topic = u => replying'[c].width <= Len(SubscribersOf(u)')
        <4>1. replying'[c] = [topic |-> t, width |-> Len(SubscribersOf(t))]
          BY <1>2, <3>2 DEF HttpPublish, IInv, TypeOK
        <4>2. QED
          BY <2>1, <4>1
      <3>3. replying'[c] = replying[c] \/ \E t \in Topics : HttpPublish(c, t)
        BY <1>2 DEF Next, vars, CreateTopic, Subscribe, TcpPublish, Pull, Ack, Nack,
                    HttpPublish, HttpPublishReply, IInv, TypeOK
      <3>4. QED
        BY <3>1, <3>2, <3>3
    <2>3. QED
      BY <1>2, <2>2, NextIInv
  <1>3. QED
    BY <1>1, <1>2, PTL DEF Spec

---------------------------------------------------------------------------------
\* Every queue implements SubscriptionQueue.

\* What the mapping makes of a message the queue holds, and of one it does not.
MapsTo(p) ==
  /\ \A e \in queues[p] : StatusIn(p)[e.id] = AbstractState[e.state]
                          /\ AttemptsIn(p)[e.id] = e.attempt
  /\ \A m \in Ids : (\A e \in queues[p] : e.id # m) =>
       StatusIn(p)[m] = "out" /\ AttemptsIn(p)[m] = 0
  /\ StatusIn(p) = [m \in Ids |-> StatusIn(p)[m]]
  /\ AttemptsIn(p) = [m \in Ids |-> AttemptsIn(p)[m]]

LEMMA Mapped ==
  ASSUME IInv, NEW p \in Pairs
  PROVE  MapsTo(p)
  <1>1. ASSUME NEW e \in queues[p]
        PROVE  StatusIn(p)[e.id] = AbstractState[e.state] /\ AttemptsIn(p)[e.id] = e.attempt
    <2>1. e.id \in Ids
      BY DEF IInv, TypeOK, Entry
    <2>2. (CHOOSE f \in queues[p] : f.id = e.id) = e
      BY DEF IInv, NoDoubleDelivery
    <2>3. QED
      BY <2>1, <2>2 DEF StatusIn, AttemptsIn
  <1>2. QED
    BY <1>1 DEF MapsTo, StatusIn, AttemptsIn

AllMapped == \A p \in Pairs : MapsTo(p)

LEMMA MappedNow == IInv => AllMapped
  BY Mapped DEF AllMapped

LEMMA MappedNext == IInv' => AllMapped'
  BY MappedNow, PTL

LEMMA MappedAfter ==
  ASSUME IInv'
  PROVE  \A p \in Pairs : MapsTo(p)'
  BY MappedNext DEF AllMapped

\* A message that is handed out, or waits, is in the queue.
LEMMA MappedBack ==
  ASSUME IInv, NEW p \in Pairs, NEW m \in Ids, StatusIn(p)[m] # "out"
  PROVE  \E e \in queues[p] : e.id = m /\ StatusIn(p)[m] = AbstractState[e.state]
                              /\ AttemptsIn(p)[m] = e.attempt
  <1>1. PICK e \in queues[p] : e.id = m
    BY Mapped DEF MapsTo
  <1>2. QED
    BY <1>1, Mapped DEF MapsTo

\* What moves no entry of the queue is a stutter or a new configuration.
LEMMA NothingQueued ==
  ASSUME IInv, IInv', NEW p \in Pairs, queues'[p] = queues[p], publish_count' = publish_count
  PROVE  [Queue(p)!Next]_(Queue(p)!vars)
  <1>1. StatusIn(p)' = StatusIn(p) /\ AttemptsIn(p)' = AttemptsIn(p)
    BY DEF StatusIn, AttemptsIn
  <1>2. configs'[p[2]].message_ordering \in BOOLEAN /\ configs'[p[2]].max_retries \in Nat
    BY ConfigAssumption DEF IInv, TypeOK, Pairs
  <1>3. Queue(p)!Reconfigure
    BY <1>1, <1>2 DEF Queue!Reconfigure
  <1>4. QED
    BY <1>3 DEF Queue!Next

LEMMA OfferStep ==
  ASSUME IInv, IInv', NEW p \in Pairs, NEW t \in Topics, Publish(t)
  PROVE  [Queue(p)!Next]_(Queue(p)!vars)
  <1> DEFINE n == publish_count + 1
             new == Copies(t, p[2], n)
  <1>1. publish_count < MaxPublish /\ publish_count' = n /\ configs' = configs
    BY DEF Publish
  <1>2. queues'[p] = IF p[1] = t THEN queues[p] \cup new ELSE queues[p]
    BY DEF Publish
  <1>3. n \in Ids /\ \A e \in queues[p] : e.id # n
    BY <1>1, BoundAssumption DEF IInv, TypeOK, QueuedArePublished, Ids, Entry
  <1>4. \A e \in new : e.id = n /\ e.attempt = 0 /\ e.state = "Pending"
    BY DEF Copies
  <1>5. p[2] \in Subscribers /\ n \in 1 .. MaxPublish
    BY <1>3 DEF Pairs, Ids
  <1> HIDE DEF new, n
  <1>6. AttemptsIn(p)' = AttemptsIn(p)
    <2>1. ASSUME NEW m \in Ids PROVE AttemptsIn(p)'[m] = AttemptsIn(p)[m]
      <3>1. CASE \E e \in queues[p] : e.id = m
        <4>1. PICK e \in queues[p] : e.id = m
          BY <3>1
        <4>2. e \in queues'[p]
          BY <1>2, <4>1
        <4>3. AttemptsIn(p)'[e.id] = e.attempt
          BY <4>2, Mapped, MappedAfter DEF MapsTo
        <4>4. QED
          BY <4>1, <4>3, Mapped, MappedAfter DEF MapsTo
      <3>2. CASE ~ \E e \in queues[p] : e.id = m
        <4>1. AttemptsIn(p)[m] = 0
          BY <3>2, Mapped DEF MapsTo
        <4>2. CASE \E e \in queues'[p] : e.id = m
          <5>1. PICK e \in queues'[p] : e.id = m
            BY <4>2
          <5>2. e.attempt = 0
            BY <1>2, <1>4, <3>2, <5>1
          <5>3. AttemptsIn(p)'[e.id] = e.attempt
            BY <5>1, Mapped, MappedAfter DEF MapsTo
          <5>4. QED
            BY <4>1, <5>1, <5>2, <5>3
        <4>3. CASE ~ \E e \in queues'[p] : e.id = m
          <5>1. AttemptsIn(p)'[m] = 0
            BY <4>3, Mapped, MappedAfter DEF MapsTo
          <5>2. QED
            BY <4>1, <5>1
        <4>4. QED
          BY <4>2, <4>3
      <3>3. QED
        BY <3>1, <3>2
    <2>2. /\ AttemptsIn(p) = [m \in Ids |-> AttemptsIn(p)[m]]
          /\ AttemptsIn(p)' = [m \in Ids |-> AttemptsIn(p)'[m]]
      BY Mapped, MappedAfter DEF MapsTo
    <2>3. QED
      BY <2>1, <2>2
  <1>7. ASSUME NEW m \in Ids, m # n PROVE StatusIn(p)'[m] = StatusIn(p)[m]
    <2>1. CASE \E e \in queues[p] : e.id = m
      <3>1. PICK e \in queues[p] : e.id = m
        BY <2>1
      <3>2. e \in queues'[p]
        BY <1>2, <3>1
      <3>3. StatusIn(p)'[e.id] = AbstractState[e.state]
        BY <3>2, Mapped, MappedAfter DEF AbstractState, MapsTo
      <3>4. QED
        BY <3>1, <3>3, Mapped, MappedAfter DEF MapsTo
    <2>2. CASE ~ \E e \in queues[p] : e.id = m
      <3>1. \A e \in queues'[p] : e.id # m
        BY <1>2, <1>4, <1>7, <2>2
      <3>2. StatusIn(p)'[m] = "out"
        BY <3>1, Mapped, MappedAfter DEF MapsTo
      <3>3. QED
        BY <2>2, <3>2, Mapped, MappedAfter DEF MapsTo
    <2>3. QED
      BY <2>1, <2>2
  <1>8. /\ StatusIn(p) = [m \in Ids |-> StatusIn(p)[m]]
        /\ StatusIn(p)' = [m \in Ids |-> StatusIn(p)'[m]]
    BY Mapped, MappedAfter DEF MapsTo
  <1>9. StatusIn(p)' \in {StatusIn(p), [StatusIn(p) EXCEPT ![n] = "pending"]}
    <2>1. CASE \E e \in queues'[p] : e.id = n
      <3>1. PICK e \in queues'[p] : e.id = n
        BY <2>1
      <3>2. e.state = "Pending"
        BY <1>2, <1>3, <1>4, <3>1
      <3>3. StatusIn(p)'[e.id] = AbstractState[e.state]
        BY <3>1, Mapped, MappedAfter DEF AbstractState, MapsTo
      <3>4. StatusIn(p)'[n] = "pending"
        BY <3>1, <3>2, <3>3 DEF AbstractState
      <3>5. StatusIn(p)' = [StatusIn(p) EXCEPT ![n] = "pending"]
        BY <1>3, <1>7, <1>8, <3>4
      <3>6. QED
        BY <3>5
    <2>2. CASE \A e \in queues'[p] : e.id # n
      <3>1. StatusIn(p)'[n] = "out" /\ StatusIn(p)[n] = "out"
        BY <1>3, <2>2, Mapped, MappedAfter DEF MapsTo
      <3>2. QED
        BY <1>7, <1>8, <3>1
    <2>3. QED
      BY <2>1, <2>2
  <1>10. Queue(p)!Offer
    BY <1>1, <1>6, <1>9 DEF Queue!Offer, n
  <1>11. QED
    BY <1>10 DEF Queue!Next

\* An update of one entry in place.
LEMMA MappedUpdate ==
  ASSUME IInv, IInv', NEW p \in Pairs, NEW e \in queues[p], NEW f \in Entry, f.id = e.id,
         queues'[p] = Updated(queues[p], e, f)
  PROVE  /\ StatusIn(p)' = [StatusIn(p) EXCEPT ![e.id] = AbstractState[f.state]]
         /\ AttemptsIn(p)' = [AttemptsIn(p) EXCEPT ![e.id] = f.attempt]
  <1>1. e.id \in Ids /\ f \in queues'[p]
    BY DEF IInv, TypeOK, Entry, Updated
  <1>2. /\ StatusIn(p)'[e.id] = AbstractState[f.state]
        /\ AttemptsIn(p)'[e.id] = f.attempt
    <2>1. /\ StatusIn(p)'[f.id] = AbstractState[f.state]
          /\ AttemptsIn(p)'[f.id] = f.attempt
      BY <1>1, Mapped, MappedAfter DEF AbstractState, MapsTo
    <2>2. QED
      BY <2>1
  <1>3. ASSUME NEW m \in Ids, m # e.id
        PROVE  StatusIn(p)'[m] = StatusIn(p)[m] /\ AttemptsIn(p)'[m] = AttemptsIn(p)[m]
    <2>1. CASE \E g \in queues[p] : g.id = m
      <3>1. PICK g \in queues[p] : g.id = m
        BY <2>1
      <3>2. g \in queues'[p]
        BY <1>3, <3>1 DEF Updated
      <3>3. StatusIn(p)'[g.id] = AbstractState[g.state] /\ AttemptsIn(p)'[g.id] = g.attempt
        BY <3>2, Mapped, MappedAfter DEF AbstractState, MapsTo
      <3>4. QED
        BY <3>1, <3>3, Mapped, MappedAfter DEF MapsTo
    <2>2. CASE ~ \E g \in queues[p] : g.id = m
      <3>1. \A g \in queues'[p] : g.id # m
        BY <1>3, <2>2 DEF Updated
      <3>2. StatusIn(p)'[m] = "out" /\ AttemptsIn(p)'[m] = 0
        BY <3>1, Mapped, MappedAfter DEF MapsTo
      <3>3. QED
        BY <2>2, <3>2, Mapped, MappedAfter DEF MapsTo
    <2>3. QED
      BY <2>1, <2>2
  <1>4. /\ StatusIn(p) = [m \in Ids |-> StatusIn(p)[m]]
        /\ StatusIn(p)' = [m \in Ids |-> StatusIn(p)'[m]]
        /\ AttemptsIn(p) = [m \in Ids |-> AttemptsIn(p)[m]]
        /\ AttemptsIn(p)' = [m \in Ids |-> AttemptsIn(p)'[m]]
    BY Mapped, MappedAfter DEF MapsTo
  <1>5. QED
    BY <1>1, <1>2, <1>3, <1>4

LEMMA PullStep ==
  ASSUME IInv, IInv', NEW p \in Pairs, NEW t \in Topics, NEW s \in Subscribers, Pull(t, s)
  PROVE  [Queue(p)!Next]_(Queue(p)!vars)
  <1>1. UNCHANGED <<publish_count, configs>>
    BY DEF Pull
  <1>2. PICK q \in Pairs : \E e \in queues[q] :
           /\ q = <<t, s>>
           /\ e \in Entry /\ e.state = "Pending"
           /\ \A f \in queues[q] : f.state = "Pending" /\ f # e => Before(e, f)
           /\ queues' = [queues EXCEPT ![q] = Updated(queues[q], e, Delivered(e))]
    BY PullEffect DEF IInv
  <1>3. PICK e \in queues[q] :
           /\ q = <<t, s>>
           /\ e \in Entry /\ e.state = "Pending"
           /\ \A f \in queues[q] : f.state = "Pending" /\ f # e => Before(e, f)
           /\ queues' = [queues EXCEPT ![q] = Updated(queues[q], e, Delivered(e))]
    BY <1>2
  <1>4. CASE p # q
    <2>1. queues'[p] = queues[p]
      BY <1>3, <1>4 DEF IInv, TypeOK
    <2>2. QED
      BY <1>1, <2>1, NothingQueued
  <1>5. CASE p = q
    <2>1. queues'[p] = Updated(queues[p], e, Delivered(e))
      BY <1>3, <1>5 DEF IInv, TypeOK
    <2>2. /\ Delivered(e) \in Entry /\ Delivered(e).id = e.id
          /\ Delivered(e).state = "Delivered" /\ Delivered(e).attempt = e.attempt + 1
      BY <1>3, EntryUpdates DEF Delivered, States
    <2>3. /\ StatusIn(p)' = [StatusIn(p) EXCEPT ![e.id] = AbstractState["Delivered"]]
          /\ AttemptsIn(p)' = [AttemptsIn(p) EXCEPT ![e.id] = e.attempt + 1]
      BY <1>5, <2>1, <2>2, MappedUpdate
    <2>4. StatusIn(p)[e.id] = "pending" /\ AttemptsIn(p)[e.id] = e.attempt /\ e.id \in Ids
      BY <1>3, <1>5, Mapped, MappedAfter DEF AbstractState, Entry, MapsTo
    <2>5. ASSUME NEW k \in Ids, k < e.id PROVE StatusIn(p)[k] # "pending"
      <3>1. SUFFICES ASSUME StatusIn(p)[k] = "pending" PROVE FALSE
        OBVIOUS
      <3>2. PICK f \in queues[p] : f.id = k /\ StatusIn(p)[k] = AbstractState[f.state]
        BY <3>1, MappedBack
      <3>3. f.state \in States
        BY <3>2 DEF IInv, TypeOK, Entry
      <3>4. f.state = "Pending"
        BY <3>1, <3>2, <3>3 DEF AbstractState, States
      <3>5. k # e.id /\ ~ (e.id < k) /\ ~ (e.id = k)
        BY <2>4, <2>5 DEF Ids
      <3>6. QED
        BY <1>3, <1>5, <3>2, <3>4, <3>5 DEF Before
    <2>6. ASSUME configs[p[2]].message_ordering, NEW k \in Ids
          PROVE  StatusIn(p)[k] # "delivered"
      <3>1. SUFFICES ASSUME StatusIn(p)[k] = "delivered" PROVE FALSE
        OBVIOUS
      <3>2. PICK f \in queues[p] : f.id = k /\ StatusIn(p)[k] = AbstractState[f.state]
        BY <3>1, MappedBack
      <3>3. f.state \in States
        BY <3>2 DEF IInv, TypeOK, Entry
      <3>4. f.state = "Delivered"
        BY <3>1, <3>2, <3>3 DEF AbstractState, States
      <3>5. p = <<t, s>> /\ configs[s].message_ordering
        BY <1>3, <1>5, <2>6
      <3>6. QED
        BY <3>2, <3>4, <3>5 DEF Pull
    <2>7. AbstractState["Delivered"] = "delivered"
      BY DEF AbstractState
    <2>8. Queue(p)!Deliver(e.id)
      BY <1>1, <2>3, <2>4, <2>5, <2>6, <2>7 DEF Queue!Deliver, Queue!Msgs, Ids
    <2>9. QED
      BY <2>4, <2>8 DEF Queue!Next, Queue!Msgs, Ids
  <1>6. QED
    BY <1>4, <1>5

LEMMA AckStep ==
  ASSUME IInv, IInv', NEW p \in Pairs, NEW m \in Ids, Ack(m)
  PROVE  [Queue(p)!Next]_(Queue(p)!vars)
  <1>1. /\ UNCHANGED <<publish_count, configs>>
        /\ in_flight[m] \in Pairs
        /\ queues' = [queues EXCEPT ![in_flight[m]] = {e \in queues[in_flight[m]] : e.id # m}]
    BY InFlightCopy DEF Ack
  <1>2. CASE p # in_flight[m]
    <2>1. queues'[p] = queues[p]
      BY <1>1, <1>2 DEF IInv, TypeOK
    <2>2. QED
      BY <1>1, <2>1, NothingQueued
  <1>3. CASE p = in_flight[m]
    <2>1. queues'[p] = {e \in queues[p] : e.id # m}
      BY <1>1, <1>3 DEF IInv, TypeOK
    <2>2. PICK e \in queues[p] : e.id = m /\ e.state = "Delivered"
      BY <1>3, NoneAssumption DEF IInv, InFlightIsDelivered, Ack
    <2>3. StatusIn(p)[m] = "delivered"
      BY <2>2, Mapped DEF AbstractState, MapsTo
    <2>4. StatusIn(p)'[m] = "out" /\ AttemptsIn(p)'[m] = 0
      <3>1. \A f \in queues'[p] : f.id # m
        BY <2>1
      <3>2. QED
        BY <3>1, Mapped, MappedAfter DEF MapsTo
    <2>5. ASSUME NEW k \in Ids, k # m
          PROVE  StatusIn(p)'[k] = StatusIn(p)[k] /\ AttemptsIn(p)'[k] = AttemptsIn(p)[k]
      <3>1. CASE \E g \in queues[p] : g.id = k
        <4>1. PICK g \in queues[p] : g.id = k
          BY <3>1
        <4>2. g \in queues'[p]
          BY <2>1, <2>5, <4>1
        <4>3. StatusIn(p)'[g.id] = AbstractState[g.state] /\ AttemptsIn(p)'[g.id] = g.attempt
          BY <4>2, Mapped, MappedAfter DEF AbstractState, MapsTo
        <4>4. QED
          BY <4>1, <4>3, Mapped, MappedAfter DEF MapsTo
      <3>2. CASE ~ \E g \in queues[p] : g.id = k
        <4>1. \A g \in queues'[p] : g.id # k
          BY <2>1, <3>2
        <4>2. StatusIn(p)'[k] = "out" /\ AttemptsIn(p)'[k] = 0
          BY <4>1, Mapped, MappedAfter DEF MapsTo
        <4>3. QED
          BY <3>2, <4>2, Mapped, MappedAfter DEF MapsTo
      <3>3. QED
        BY <3>1, <3>2
    <2>6. /\ StatusIn(p) = [k \in Ids |-> StatusIn(p)[k]]
          /\ StatusIn(p)' = [k \in Ids |-> StatusIn(p)'[k]]
          /\ AttemptsIn(p) = [k \in Ids |-> AttemptsIn(p)[k]]
          /\ AttemptsIn(p)' = [k \in Ids |-> AttemptsIn(p)'[k]]
      BY Mapped, MappedAfter DEF MapsTo
    <2>7. /\ StatusIn(p)' = [StatusIn(p) EXCEPT ![m] = "out"]
          /\ AttemptsIn(p)' = [AttemptsIn(p) EXCEPT ![m] = 0]
      BY <2>4, <2>5, <2>6
    <2>8. Queue(p)!Settle(m)
      BY <1>1, <2>3, <2>7 DEF Queue!Settle
    <2>9. QED
      BY <2>8 DEF Queue!Next, Queue!Msgs, Ids
  <1>4. QED
    BY <1>2, <1>3

LEMMA NackStep ==
  ASSUME IInv, IInv', NEW p \in Pairs, NEW m \in Ids, Nack(m)
  PROVE  [Queue(p)!Next]_(Queue(p)!vars)
  <1> DEFINE q == in_flight[m]
             max == configs[q[2]].max_retries
  <1>1. UNCHANGED <<publish_count, configs>> /\ q \in Pairs
    BY InFlightCopy DEF Nack
  <1>2. PICK e \in queues[q] :
          /\ IsFirst(e, {f \in queues[q] : f.id = m})
          /\ IF e.attempt > max
             THEN queues' = [queues EXCEPT ![q] = Updated(@, e, InState(e, "DeadLetter"))]
             ELSE queues' = [queues EXCEPT ![q] = Updated(@, e, InState(e, "Pending"))]
    BY DEF Nack
  <1> DEFINE x == IF e.attempt > max THEN "DeadLetter" ELSE "Pending"
  <1>3. queues' = [queues EXCEPT ![q] = Updated(queues[q], e, InState(e, x))]
    BY <1>2
  <1>4. e.id = m /\ e \in Entry /\ e.state = "Delivered"
    <2>1. e.id = m
      BY <1>2 DEF IsFirst
    <2>2. PICK f \in queues[q] : f.id = m /\ f.state = "Delivered"
      BY <1>1, NoneAssumption DEF IInv, InFlightIsDelivered, Nack
    <2>3. e = f
      BY <1>1, <2>1, <2>2 DEF IInv, NoDoubleDelivery
    <2>4. QED
      BY <1>1, <2>1, <2>2, <2>3 DEF IInv, TypeOK
  <1>5. CASE p # q
    <2>1. queues'[p] = queues[p]
      BY <1>1, <1>3, <1>5 DEF IInv, TypeOK
    <2>2. QED
      BY <1>1, <2>1, NothingQueued
  <1>6. CASE p = q
    <2>1. x \in States
      BY DEF States
    <2> HIDE DEF x
    <2>2. queues'[p] = Updated(queues[p], e, InState(e, x))
      BY <1>1, <1>3, <1>6 DEF IInv, TypeOK
    <2>3. /\ InState(e, x) \in Entry /\ InState(e, x).id = e.id
          /\ InState(e, x).state = x /\ InState(e, x).attempt = e.attempt
      BY <1>4, <2>1, EntryUpdates DEF InState, Entry
    <2>4. /\ StatusIn(p)' = [StatusIn(p) EXCEPT ![m] = AbstractState[x]]
          /\ AttemptsIn(p)' = [AttemptsIn(p) EXCEPT ![m] = e.attempt]
      BY <1>4, <1>6, <2>2, <2>3, MappedUpdate
    <2>5. StatusIn(p)[m] = "delivered" /\ AttemptsIn(p)[m] = e.attempt
      BY <1>4, <1>6, Mapped, MappedAfter DEF AbstractState, MapsTo
    <2>6. AttemptsIn(p)' = AttemptsIn(p)
      <3>1. AttemptsIn(p) = [k \in Ids |-> AttemptsIn(p)[k]]
        BY Mapped, MappedAfter DEF MapsTo
      <3>2. QED
        BY <2>4, <2>5, <3>1
    <2>7. e.attempt \in Nat /\ max \in Nat /\ max = configs[p[2]].max_retries
      BY <1>1, <1>4, <1>6, ConfigAssumption DEF Entry, IInv, TypeOK, Pairs
    <2>8. CASE e.attempt > max
      <3>1. AbstractState[x] = "dead"
        BY <2>8 DEF x, AbstractState
      <3>2. Queue(p)!Bury(m)
        BY <1>1, <2>4, <2>5, <2>6, <2>7, <2>8, <3>1 DEF Queue!Bury
      <3>3. QED
        BY <3>2 DEF Queue!Next, Queue!Msgs, Ids
    <2>9. CASE ~(e.attempt > max)
      <3>1. AbstractState[x] = "pending"
        BY <2>9 DEF x, AbstractState
      <3>2. e.attempt =< max
        BY <2>7, <2>9
      <3>3. Queue(p)!Retry(m)
        BY <1>1, <2>4, <2>5, <2>6, <2>7, <3>1, <3>2 DEF Queue!Retry
      <3>4. QED
        BY <3>3 DEF Queue!Next, Queue!Msgs, Ids
    <2>10. QED
      BY <2>8, <2>9
  <1>7. QED
    BY <1>5, <1>6

\* Every (topic, subscriber) queue is a SubscriptionQueue, whatever the other
\* subscribers of the topic do to the shared in_flight map.
THEOREM QueuesRefine == Spec => QueuesImplementSubscriptions
  <1> DEFINE A == \A p \in Pairs : [Queue(p)!Next]_(Queue(p)!vars)
  <1>1. ASSUME Init PROVE \A p \in Pairs : Queue(p)!Init
    <2> SUFFICES ASSUME NEW p \in Pairs PROVE Queue(p)!Init
      OBVIOUS
    <2>1. publish_count = 0 /\ queues[p] = {} /\ configs[p[2]] = DefaultConfig
      BY <1>1 DEF Init, Pairs
    <2>2. StatusIn(p) = [m \in Ids |-> "out"] /\ AttemptsIn(p) = [m \in Ids |-> 0]
      BY <2>1 DEF StatusIn, AttemptsIn
    <2>3. QED
      BY <2>1, <2>2, ConfigAssumption DEF Queue!Init, Queue!Msgs, Ids
  <1>2. ASSUME IInv, IInv', [Next]_vars PROVE [A]_vars
    <2> SUFFICES ASSUME Next, NEW p \in Pairs
                 PROVE  [Queue(p)!Next]_(Queue(p)!vars)
      BY <1>2
    <2>1. ASSUME UNCHANGED <<queues, publish_count>>
          PROVE  [Queue(p)!Next]_(Queue(p)!vars)
      BY <1>2, <2>1, NothingQueued
    <2>2. ASSUME NEW t \in Topics, Publish(t)
          PROVE  [Queue(p)!Next]_(Queue(p)!vars)
      BY <1>2, <2>2, OfferStep
    <2>3. ASSUME NEW t \in Topics, NEW s \in Subscribers, Pull(t, s)
          PROVE  [Queue(p)!Next]_(Queue(p)!vars)
      BY <1>2, <2>3, PullStep
    <2>4. ASSUME NEW m \in Ids, Ack(m) \/ Nack(m)
          PROVE  [Queue(p)!Next]_(Queue(p)!vars)
      BY <1>2, <2>4, AckStep, NackStep
    <2> QED
      BY <2>1, <2>2, <2>3, <2>4
      DEF Next, CreateTopic, Subscribe, TcpPublish, HttpPublish, HttpPublishReply, broker
  <1>3. IInv /\ IInv' /\ [Next]_vars => [A]_vars
    BY <1>2
  <1>4. QueuesImplementSubscriptions <=> (\A p \in Pairs : Queue(p)!Init) /\ [][A]_vars
    BY PTL DEF QueuesImplementSubscriptions
  <1>5. Init => \A p \in Pairs : Queue(p)!Init
    BY <1>1
  <1> HIDE DEF A
  <1>6. QED
    BY <1>3, <1>4, <1>5, Invariance, PTL DEF Spec

=====================================================================================
