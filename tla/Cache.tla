---------------------------------- MODULE Cache ----------------------------------
(***************************************************************************)
(* The daemon's cache keyspaces: CacheRegistry of daemon/src/cache.rs and  *)
(* its HTTP handlers, each of which does its work under the State lock in  *)
(* one go.                                                                 *)
(*                                                                         *)
(* Recency is the code's: one operation counter for all keyspaces, stamped *)
(* on an entry when it is set or hit.  Values, hit and miss counts and the *)
(* wall clock are not modelled: a deadline has passed or it has not, and   *)
(* time can only move forward.                                             *)
(***************************************************************************)
EXTENDS Naturals, Sequences, FiniteSets

CONSTANTS Keyspaces, Keys,
          Limits,         \* max_entries a client may ask for
          DefaultLimit,   \* KeyspaceConfig::default()
          MaxSeq          \* bound: the operation counter

ASSUME LimitAssumption == Limits \cup {DefaultLimit} \subseteq Nat \ {0}
ASSUME SeqAssumption == MaxSeq \in Nat

VARIABLES
  op_seq,
  keyspaces   \* name -> [limit, ttl, map, evictions], for the keyspaces there are;
              \* a deadline is "never", "armed" or "past"

vars == <<op_seq, keyspaces>>

NoEntries == [k \in {} |-> k]

\* A keyspace without entries; ttl is what its default_ttl_ms makes of a set.
Fresh(limit, ttl) == [limit |-> limit, ttl |-> ttl, map |-> NoEntries, evictions |-> 0]

\* What entry(ks).or_insert_with(..) finds or makes.
SpaceOf(s) == IF s \in DOMAIN keyspaces THEN keyspaces[s] ELSE Fresh(DefaultLimit, "armed")

WithSpace(s, space) ==
  [t \in DOMAIN keyspaces \cup {s} |-> IF t = s THEN space ELSE keyspaces[t]]

Only(map, K) == [k \in K |-> map[k]]

Expired(map) == {k \in DOMAIN map : map[k].expiry = "past"}

Excess(map, limit) ==
  IF Cardinality(DOMAIN map) > limit THEN Cardinality(DOMAIN map) - limit ELSE 0

\* The n entries of map among K that were accessed longest ago.
Oldest(map, K, n) ==
  {k \in K : Cardinality({j \in K : map[j].last_access < map[k].last_access}) < n}

\* Mutation: the victims are the least recently used, expired or not.
VictimsLruOnly(map, limit) == {Oldest(map, DOMAIN map, Excess(map, limit))}

\* The sets of entries set's eviction loop may remove from map: any expired ones
\* while there are some, then the least recently used, until limit are left.
Victims(map, limit) ==
  LET excess == Excess(map, limit)
      old    == Expired(map)
  IN IF excess <= Cardinality(old)
     THEN {K \in SUBSET old : Cardinality(K) = excess}
     ELSE {old \cup Oldest(map, DOMAIN map \ old, excess - Cardinality(old))}

\* What set(key) may make of space, at operation n.
AfterSet(space, key, expiry, n) ==
  LET map == [k \in DOMAIN space.map \cup {key} |->
                IF k = key THEN [expiry |-> expiry, last_access |-> n] ELSE space.map[k]]
  IN {[space EXCEPT !.map = Only(map, DOMAIN map \ K),
                    !.evictions = @ + Cardinality(K)] : K \in Victims(map, space.limit)}

---------------------------------------------------------------------------------

Init ==
  /\ op_seq = 0
  /\ keyspaces = [s \in {} |-> s]

\* ensure_keyspace: an existing one keeps its entries, also those beyond a
\* smaller limit.
EnsureKeyspace(s, limit, ttl) ==
  /\ keyspaces' = WithSpace(s, IF s \in DOMAIN keyspaces
                               THEN [keyspaces[s] EXCEPT !.limit = limit, !.ttl = ttl]
                               ELSE Fresh(limit, ttl))
  /\ UNCHANGED op_seq

\* set, with the keyspace's default TTL ("default"), none, or one of its own.
Set(s, key, ttl) ==
  LET space == SpaceOf(s)
      expiry == IF ttl = "default" THEN space.ttl ELSE ttl
  IN /\ op_seq < MaxSeq
     /\ op_seq' = op_seq + 1
     /\ \E after \in AfterSet(space, key, expiry, op_seq + 1) :
          keyspaces' = WithSpace(s, after)

\* mset of two pairs: two sets under one lock.
MSet(s, key1, key2, ttl) ==
  LET space == SpaceOf(s)
      expiry == IF ttl = "default" THEN space.ttl ELSE ttl
  IN /\ op_seq + 2 <= MaxSeq
     /\ op_seq' = op_seq + 2
     /\ \E once \in AfterSet(space, key1, expiry, op_seq + 1) :
          \E twice \in AfterSet(once, key2, expiry, op_seq + 2) :
            keyspaces' = WithSpace(s, twice)

\* What get(key) makes of space, at operation n: a hit is stamped, an expired
\* entry is removed.
AfterGet(space, key, n) ==
  CASE key \notin DOMAIN space.map -> space
    [] key \in Expired(space.map) ->
         [space EXCEPT !.map = Only(space.map, DOMAIN space.map \ {key})]
    [] OTHER -> [space EXCEPT !.map[key].last_access = n]

\* Mutation: a hit does not stamp the entry.
GetUnstamped(s, key) ==
  /\ op_seq < MaxSeq
  /\ op_seq' = op_seq + 1
  /\ s \in DOMAIN keyspaces
  /\ keyspaces' = WithSpace(s,
       IF key \in Expired(keyspaces[s].map)
       THEN AfterGet(keyspaces[s], key, op_seq + 1) ELSE keyspaces[s])

\* get and get_json; the counter moves even when the keyspace is not there.
Get(s, key) ==
  /\ op_seq < MaxSeq
  /\ op_seq' = op_seq + 1
  /\ keyspaces' = IF s \in DOMAIN keyspaces
                  THEN WithSpace(s, AfterGet(keyspaces[s], key, op_seq + 1))
                  ELSE keyspaces

\* mget of two keys.
MGet(s, key1, key2) ==
  /\ op_seq + 2 <= MaxSeq
  /\ op_seq' = op_seq + 2
  /\ keyspaces' = IF s \in DOMAIN keyspaces
                  THEN WithSpace(s, AfterGet(AfterGet(keyspaces[s], key1, op_seq + 1),
                                             key2, op_seq + 2))
                  ELSE keyspaces

\* del of one key, invalidate_pattern of those a glob matches, invalidate_all.
Invalidate(s, K) ==
  /\ s \in DOMAIN keyspaces
  /\ keyspaces' = WithSpace(s, [keyspaces[s] EXCEPT !.map = Only(@, DOMAIN @ \ K)])
  /\ UNCHANGED op_seq

\* A deadline passes.
Expire(s, key) ==
  /\ s \in DOMAIN keyspaces
  /\ key \in DOMAIN keyspaces[s].map
  /\ keyspaces[s].map[key].expiry = "armed"
  /\ keyspaces' = [keyspaces EXCEPT ![s].map[key].expiry = "past"]
  /\ UNCHANGED op_seq

Next ==
  \/ \E s \in Keyspaces, limit \in Limits, ttl \in {"never", "armed"} :
        EnsureKeyspace(s, limit, ttl)
  \/ \E s \in Keyspaces, key \in Keys :
        \/ \E ttl \in {"default", "never", "armed"} : Set(s, key, ttl)
        \/ Get(s, key) \/ Expire(s, key)
  \/ \E s \in Keyspaces, key1, key2 \in Keys :
        \/ MSet(s, key1, key2, "default")
        \/ MGet(s, key1, key2)
  \/ \E s \in Keyspaces, K \in SUBSET Keys : Invalidate(s, K)

Spec == Init /\ [][Next]_vars

---------------------------------------------------------------------------------
\* Properties

\* A live entry is given up only when the limit leaves no room for it among live
\* entries: an expired one is never kept in its place.
LiveOutlivesExpired ==
  [][\A s \in DOMAIN keyspaces :
       keyspaces'[s].evictions > keyspaces[s].evictions =>
         \A k \in DOMAIN keyspaces[s].map \ DOMAIN keyspaces'[s].map :
           keyspaces[s].map[k].expiry # "past" => Expired(keyspaces'[s].map) = {}]_vars

---------------------------------------------------------------------------------
\* Each keyspace implements LruSpace: the stamps of the global operation counter are as
\* good as a recency list of its own.

\* The keys of map, least recently stamped first.
ByStamp(map) ==
  [i \in 1 .. Cardinality(DOMAIN map) |->
     CHOOSE k \in DOMAIN map :
       Cardinality({j \in DOMAIN map : map[j].last_access < map[k].last_access}) = i - 1]

Lru(s) == INSTANCE LruSpace WITH recency <- ByStamp(SpaceOf(s).map),
                                 expired <- Expired(SpaceOf(s).map),
                                 limit   <- SpaceOf(s).limit

\* Every keyspace keeps its entries in the order of their last use, is filled to
\* its limit and no further, and gives up expired keys before live ones and the
\* least recently used before the others; and a get or mget, hit or miss, counts
\* as a use of its keys.  A keyspace not declared yet is one with the default
\* limit and no entries.
\* It is \A s \in Keyspaces : Lru(s)!Init /\ [][Lru(s)!Next]_(Lru(s)!vars) with
\* the quantifier moved inwards, the form TLC accepts.
KeyspacesAreLru ==
  /\ \A s \in Keyspaces : Lru(s)!Init
  /\ [][\A s \in Keyspaces :
          /\ [Lru(s)!Next]_(Lru(s)!vars)
          /\ \A k \in Keys : Get(s, k) => Lru(s)!Use(k)
          /\ \A j, k \in Keys : MGet(s, j, k) => Lru(s)!UseTwo(j, k)]_vars

==================================================================================
