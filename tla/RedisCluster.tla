------------------------------- MODULE RedisCluster -------------------------------
(***************************************************************************)
(* The cluster topology of daemon/src/redis_cluster.rs: nodes, the table   *)
(* of slots, which every node's own set of slots repeats, replicas, the    *)
(* slot of a key (CRC-16 of it or of its hash tag) and the health that is  *)
(* counted from the table.                                                 *)
(*                                                                         *)
(* Slots are the numbers Slot::new lets through.  add_slot and            *)
(* assign_slots take any u16, and the health counts whatever they took.    *)
(***************************************************************************)
EXTENDS Iteration, FiniteSets, FiniteSetsExt

CONSTANTS Nodes,
          NumSlots,      \* 16384
          NumNumbers,    \* 2^16: what a u16 can be
          Word,          \* 2^64: what a usize can be
          Keys,          \* sequences of bytes
          MaxReplicas    \* bound: entries of a replica list

VARIABLES
  nodes,      \* id -> its slots
  slot_map,   \* slot -> id
  replicas    \* master id -> replica ids, in the order they were added

vars == <<nodes, slot_map, replicas>>

Absent == "none"
Slots == 0 .. NumSlots - 1
Numbers == 0 .. NumNumbers - 1     \* u16

---------------------------------------------------------------------------------
\* The slot of a key

\* A register is the set of its bits that are 1; the number in the lower 16 is their
\* sum, the highest first.
BitsOf(byte) == {i \in 0..7 : (byte \div (2 ^ i)) % 2 = 1}
NumberOf(bits) ==
  LET number[i \in 0 .. 16] ==
        IF i = 0 THEN 0 ELSE 2 * number[i - 1] + IF 16 - i \in bits THEN 1 ELSE 0
  IN number[16]
Xor(a, b) == (a \ b) \cup (b \ a)
Shift(a, n) == {i + n : i \in a} \cap 0..31
Polynomial == {0, 5, 12}     \* 0x1021

\* Mutation: the shifted-out bit is looked for one place too low.
ShiftedLow(crc) == IF 15 \in Shift(crc, 1) THEN Xor(Shift(crc, 1), Polynomial) ELSE Shift(crc, 1)

\* One turn of the inner loop on the 32 bits of crc: those past the sixteenth pile up
\* and fall off at the end.
Shifted(crc) == IF 16 \in Shift(crc, 1) THEN Xor(Shift(crc, 1), Polynomial) ELSE Shift(crc, 1)

\* crc16_ccitt
WithByte(crc, byte) ==
  LET turned[i \in 0 .. 8] ==
        IF i = 0 THEN Xor(crc, Shift(BitsOf(byte), 8)) ELSE Shifted(turned[i - 1])
  IN turned[8]
Crc16(data) ==
  LET crc[k \in 0 .. Len(data)] == IF k = 0 THEN {} ELSE WithByte(crc[k - 1], data[k])
  IN NumberOf(crc[Len(data)] \cap 0..15)

\* extract_hash_tag: between the first { and the first }, if they come in that order;
\* an empty tag is one.
Open == 123
Shut == 125
HashTag(key) ==
  LET First(c) == Min({i \in DOMAIN key : key[i] = c})
  IN IF Open \in ToSet(key) /\ Shut \in ToSet(key)
     THEN IF First(Open) < First(Shut) THEN SubSeq(key, First(Open) + 1, First(Shut) - 1) ELSE key
     ELSE key

\* Slot::for_key
ForKey(key) == Crc16(HashTag(key)) % NumSlots

---------------------------------------------------------------------------------

\* get_node_for_slot, get_replicas
NodeForSlot(slot) ==
  IF slot \in DOMAIN slot_map THEN IF slot_map[slot] \in DOMAIN nodes THEN slot_map[slot] ELSE Absent ELSE Absent
Replicas(master) ==
  IF master \in DOMAIN replicas THEN Kept(replicas[master], DOMAIN nodes) ELSE <<>>

\* ClusterInfo::new: what it may come to.  Below zero the subtraction wraps around, or
\* panics in a build that checks for overflow.
Infos ==
  LET assigned == Cardinality(DOMAIN slot_map)
      info == [state |-> IF DOMAIN nodes = {} THEN "failed" ELSE IF assigned < NumSlots THEN "partial" ELSE "ok",
               node_count |-> Cardinality(DOMAIN nodes), slots_assigned |-> assigned,
               slots_ok |-> assigned, slots_fail |-> (NumSlots - assigned) % Word]
  IN {info} \cup IF assigned > NumSlots THEN {[state |-> "panic"]} ELSE {}

With(table, k, v) == [x \in DOMAIN table \cup {k} |-> IF x = k THEN v ELSE table[x]]
Without(table, k) == [x \in DOMAIN table \ {k} |-> table[x]]

Init == nodes = [n \in {} |-> {}] /\ slot_map = [s \in {} |-> ""] /\ replicas = [n \in {} |-> <<>>]

\* add_node: slots the node brings along are not entered into the table.
AddNode(n, slots) ==
  /\ n \notin DOMAIN nodes
  /\ nodes' = With(nodes, n, slots)
  /\ UNCHANGED <<slot_map, replicas>>

\* Mutation: the table keeps the slots of a node that is gone.
RemoveNodeOnly(n) ==
  /\ n \in DOMAIN nodes
  /\ nodes' = Without(nodes, n)
  /\ replicas' = Without(replicas, n)
  /\ UNCHANGED slot_map

\* remove_node: the lists of other masters still name it.
RemoveNode(n) ==
  /\ n \in DOMAIN nodes
  /\ slot_map' = [s \in {t \in DOMAIN slot_map : slot_map[t] # n} |-> slot_map[s]]
  /\ nodes' = Without(nodes, n)
  /\ replicas' = Without(replicas, n)

\* assign_slots: the former owner of a slot still has it in its set.
AssignSlots(n, slots) ==
  /\ n \in DOMAIN nodes
  /\ nodes' = [nodes EXCEPT ![n] = @ \cup slots]
  /\ slot_map' = [s \in DOMAIN slot_map \cup slots |-> IF s \in slots THEN n ELSE slot_map[s]]
  /\ UNCHANGED replicas

AddReplica(master, replica) ==
  /\ {master, replica} \subseteq DOMAIN nodes
  /\ LET old == IF master \in DOMAIN replicas THEN replicas[master] ELSE <<>>
     IN Len(old) < MaxReplicas /\ replicas' = With(replicas, master, Append(old, replica))
  /\ UNCHANGED <<nodes, slot_map>>

Next ==
  \/ \E n \in Nodes : RemoveNode(n)
  \/ \E n \in Nodes, slots \in SUBSET Numbers : AddNode(n, slots) \/ AssignSlots(n, slots)
  \/ \E m, r \in Nodes : AddReplica(m, r)

Spec == Init /\ [][Next]_vars

---------------------------------------------------------------------------------
\* Properties

\* As long as only slots are assigned, whatever nodes come, go and take them over: a
\* cluster that counts as ok has a node for the slot of every key, and slots_fail is the
\* number of slots without one.  Numbers that are no slots (16384 and above, which
\* assign_slots lets through) count as if they were: with them an ok cluster may leave
\* slots unserved, at most as many as there are such numbers, and slots_fail is not
\* spoken of.  In every case a slot's node counts it among its own, and no replica list
\* shows a node that left.
HealthyClustersServeEveryKey ==
  LET unserved == {s \in Slots : NodeForSlot(s) = Absent}
      beyond == DOMAIN slot_map \ Slots
  IN /\ beyond = {} => \A info \in Infos :
           /\ info.state # "panic" /\ info.slots_fail = Cardinality(unserved)
           /\ info.state = "ok" => \A key \in Keys : NodeForSlot(ForKey(key)) # Absent
     /\ \A info \in Infos : info.state = "ok" => Cardinality(unserved) <= Cardinality(beyond)
     /\ \A s \in DOMAIN slot_map : NodeForSlot(s) # Absent /\ s \in nodes[slot_map[s]]
     /\ \A n \in Nodes : ToSet(Replicas(n)) \subseteq DOMAIN nodes

\* A message as a polynomial, the set of its exponents, the first byte's highest bit
\* first; and what is left of it, times x^16, divided by x^16 + x^12 + x^5 + 1.
Exponents(data) ==
  UNION {{i + 8 * (Len(data) - k) : i \in BitsOf(data[k])} : k \in DOMAIN data}
Divided(terms, top) ==
  IF top \in terms THEN Xor(terms, {top, top - 4, top - 11, top - 16}) ELSE terms
Remainder(data) ==
  LET size == 8 * Len(data)
      left[i \in 0 .. size] ==
        IF i = 0 THEN {e + 16 : e \in Exponents(data)} ELSE Divided(left[i - 1], size + 16 - i)
  IN NumberOf(left[size])

\* "Get slot number for key using CRC16": what the loop over a 32-bit register computes
\* is the remainder, and keys with one hash tag share a slot.
SlotsAreRemainders ==
  \A key \in Keys : /\ Crc16(key) = Remainder(key)
                    /\ \A other \in Keys : HashTag(key) = HashTag(other) => ForKey(key) = ForKey(other)
=================================================================================
