-------------------------------- MODULE LruSpace --------------------------------
(***************************************************************************)
(* What one cache keyspace promises: a list of keys, the least recently    *)
(* used first, that is never filled beyond the limit; room is made by      *)
(* dropping expired keys and, when there are none, the head of the list.   *)
(* Cache shows that every keyspace behaves like this.                      *)
(***************************************************************************)
EXTENDS Naturals, Sequences, FiniteSets

CONSTANTS Keys

VARIABLES recency,   \* the keys, least recently used first
          expired,   \* those past their deadline
          limit

vars == <<recency, expired, limit>>

Members(list) == {list[i] : i \in DOMAIN list}

\* The list without the keys K: the n-th place that is kept has n - 1 before it.
Minus(list, K) ==
  LET kept == {i \in DOMAIN list : list[i] \notin K}
  IN [n \in 1 .. Cardinality(kept) |->
        list[CHOOSE i \in kept : Cardinality({j \in kept : j < i}) = n - 1]]

Init ==
  /\ recency = <<>>
  /\ expired = {}
  /\ limit \in Nat

\* A limit declared below the present size only shows at the next insertion.
Declare ==
  /\ limit' \in Nat
  /\ UNCHANGED <<recency, expired>>

Expire ==
  /\ expired' \subseteq Members(recency)
  /\ expired \subseteq expired'
  /\ UNCHANGED <<recency, limit>>

Remove(K) ==
  /\ recency' = Minus(recency, K)
  /\ expired' = expired \ K
  /\ UNCHANGED limit

\* A list with the expired keys in it, before and after an operation.
Contents(list, old) == [list |-> list, old |-> old]

\* A live key becomes the most recently used, an expired one is dropped.
Used(c, k) ==
  CASE k \in c.old -> Contents(Minus(c.list, {k}), c.old \ {k})
    [] k \in Members(c.list) \ c.old -> Contents(Append(Minus(c.list, {k}), k), c.old)
    [] OTHER -> c

\* The sets of keys that may be dropped from c to make room.
Room(c) ==
  LET excess == IF Len(c.list) > limit THEN Len(c.list) - limit ELSE 0
  IN IF excess <= Cardinality(c.old)
     THEN {K \in SUBSET c.old : Cardinality(K) = excess}
     ELSE {c.old \cup
             Members(SubSeq(Minus(c.list, c.old), 1, excess - Cardinality(c.old)))}

\* What c may be after key k, live, has come in.
Inserted(c, k) ==
  LET full == Contents(Append(Minus(c.list, {k}), k), c.old \ {k})
  IN {Contents(Minus(full.list, K), full.old \ K) : K \in Room(full)}

Becomes(c) ==
  /\ recency' = c.list
  /\ expired' = c.old
  /\ UNCHANGED limit

Now == Contents(recency, expired)

Use(k) == Becomes(Used(Now, k))

UseTwo(j, k) == Becomes(Used(Used(Now, j), k))

Insert(k) == \E c \in Inserted(Now, k) : Becomes(c)

InsertTwo(j, k) == \E c \in Inserted(Now, j) : \E d \in Inserted(c, k) : Becomes(d)

Next ==
  \/ Declare \/ Expire
  \/ \E k \in Keys : Use(k) \/ Insert(k)
  \/ \E j, k \in Keys : UseTwo(j, k) \/ InsertTwo(j, k)
  \/ \E K \in SUBSET Keys : Remove(K)

==================================================================================
