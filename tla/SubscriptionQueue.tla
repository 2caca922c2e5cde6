---------------------------- MODULE SubscriptionQueue ----------------------------
(***************************************************************************)
(* What the broker promises to ONE subscription: every message addressed   *)
(* to it is handed out in publication order, comes back after a nack until *)
(* it was handed out more often than the subscriber's retries allow at     *)
(* that moment, and leaves only because a consumer settled it.  MCPubSub   *)
(* states that every queue of PubSub behaves like this whatever the other  *)
(* subscribers do.                                                         *)
(***************************************************************************)
EXTENDS Naturals

CONSTANT MaxPublish     \* messages ever published (bounds the instance)

VARIABLES published,    \* messages published so far, on any topic
          ordered,      \* the subscription's message_ordering flag
          retries,      \* its max_retries
          status,       \* status[m]: where message m stands for this subscription
          attempts      \* attempts[m]: deliveries of m so far

vars == <<published, ordered, retries, status, attempts>>

Msgs == 1 .. MaxPublish

Init ==
  /\ published = 0
  /\ ordered \in BOOLEAN
  /\ retries \in Nat
  /\ status = [m \in Msgs |-> "out"]
  /\ attempts = [m \in Msgs |-> 0]

\* The next message is published, to this subscription or past it.
Offer ==
  /\ published < MaxPublish
  /\ published' = published + 1
  /\ status' \in {status, [status EXCEPT ![published + 1] = "pending"]}
  /\ UNCHANGED <<ordered, retries, attempts>>

\* The oldest pending message is handed out; an ordered subscription waits
\* until nothing older is still to be settled.
Deliver(m) ==
  /\ status[m] = "pending"
  /\ \A k \in Msgs : k < m => status[k] # "pending"
  /\ ordered => \A k \in Msgs : status[k] # "delivered"
  /\ status' = [status EXCEPT ![m] = "delivered"]
  /\ attempts' = [attempts EXCEPT ![m] = @ + 1]
  /\ UNCHANGED <<published, ordered, retries>>

Settle(m) ==
  /\ status[m] = "delivered"
  /\ status' = [status EXCEPT ![m] = "out"]
  /\ attempts' = [attempts EXCEPT ![m] = 0]
  /\ UNCHANGED <<published, ordered, retries>>

Retry(m) ==
  /\ status[m] = "delivered"
  /\ attempts[m] <= retries
  /\ status' = [status EXCEPT ![m] = "pending"]
  /\ UNCHANGED <<published, ordered, retries, attempts>>

Bury(m) ==
  /\ status[m] = "delivered"
  /\ attempts[m] > retries
  /\ status' = [status EXCEPT ![m] = "dead"]
  /\ UNCHANGED <<published, ordered, retries, attempts>>

Reconfigure ==
  /\ ordered' \in BOOLEAN
  /\ retries' \in Nat
  /\ UNCHANGED <<published, status, attempts>>

Next ==
  \/ Offer
  \/ \E m \in Msgs : Deliver(m) \/ Settle(m) \/ Retry(m) \/ Bury(m)
  \/ Reconfigure

Spec == Init /\ [][Next]_vars

==================================================================================
