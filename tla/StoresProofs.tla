------------------------------ MODULE StoresProofs ------------------------------
(***************************************************************************)
(* What holds of the stores for any constants: the cache, the embedded     *)
(* key-value library, the mini Redis and object storage.                   *)
(***************************************************************************)
EXTENDS MCStores, FiniteSetTheorems, SequenceTheorems, TLAPS

---------------------------------------------------------------------------------
(***************************************************************************)
(* The cache: LiveOutlivesExpired.                                         *)
(***************************************************************************)

\* A keyspace holds finitely many entries, and what it sets is not past its deadline.
Sound(space) ==
  /\ space = [limit |-> space.limit, ttl |-> space.ttl, map |-> space.map,
              evictions |-> space.evictions]
  /\ IsFiniteSet(DOMAIN space.map)
  /\ space.evictions \in Nat
  /\ space.ttl \in {"never", "armed"}

AllSound ==
  /\ keyspaces = [s \in DOMAIN keyspaces |-> keyspaces[s]]
  /\ \A s \in DOMAIN keyspaces : Sound(keyspaces[s])

\* From the map old to the map new a live entry was given up only if nothing expired
\* was kept.
GivesUpExpiredFirst(old, new) ==
  \A k \in DOMAIN old \ DOMAIN new : old[k].expiry # "past" => Expired(new) = {}

\* What is live and stays, stays live.
StaysLive(old, new) ==
  \A k \in DOMAIN old \cap DOMAIN new : old[k].expiry # "past" => new[k].expiry # "past"

\* Victims are entries; unless all of them are expired, all the expired ones are victims.
LEMMA VictimsAreEntries ==
  ASSUME NEW map, NEW limit, NEW K \in Victims(map, limit)
  PROVE  K \subseteq DOMAIN map /\ (K \subseteq Expired(map) \/ Expired(map) \subseteq K)
  <1>1. Expired(map) \subseteq DOMAIN map
    BY DEF Expired
  <1>2. CASE K \subseteq Expired(map)
    BY <1>1, <1>2
  <1>3. CASE \E n : K = Expired(map) \cup Oldest(map, DOMAIN map \ Expired(map), n)
    BY <1>1, <1>3 DEF Oldest
  <1>4. QED
    BY <1>2, <1>3 DEF Victims

\* One set.
LEMMA SetGivesUpExpiredFirst ==
  ASSUME NEW space, Sound(space), NEW key, NEW expiry \in {"never", "armed"}, NEW n,
         NEW after \in AfterSet(space, key, expiry, n)
  PROVE  /\ Sound(after)
         /\ GivesUpExpiredFirst(space.map, after.map)
         /\ Expired(space.map) = {} => Expired(after.map) = {}
         /\ StaysLive(space.map, after.map)
  <1> DEFINE map == [k \in DOMAIN space.map \cup {key} |->
                       IF k = key THEN [expiry |-> expiry, last_access |-> n] ELSE space.map[k]]
  <1>1. PICK K \in Victims(map, space.limit) :
          after = [space EXCEPT !.map = Only(map, DOMAIN map \ K),
                                !.evictions = space.evictions + Cardinality(K)]
    BY DEF AfterSet
  <1>2. /\ DOMAIN map = DOMAIN space.map \cup {key}
        /\ map[key].expiry = expiry
        /\ \A k \in DOMAIN space.map \ {key} : map[k] = space.map[k]
    OBVIOUS
  <1> HIDE DEF map
  <1>3. K \subseteq DOMAIN map /\ (K \subseteq Expired(map) \/ Expired(map) \subseteq K)
    BY VictimsAreEntries
  <1>4. IsFiniteSet(DOMAIN map) /\ IsFiniteSet(K) /\ IsFiniteSet(DOMAIN map \ K)
    <2>1. IsFiniteSet(DOMAIN map)
      BY <1>2, FS_AddElement DEF Sound
    <2>2. QED
      BY <1>3, <2>1, FS_Subset
  <1>5. Cardinality(K) \in Nat
    BY <1>4, FS_CardinalityType
  <1>6. /\ after.map = Only(map, DOMAIN map \ K) /\ after.ttl = space.ttl
        /\ after.evictions = space.evictions + Cardinality(K)
        /\ after = [limit |-> after.limit, ttl |-> after.ttl, map |-> after.map,
                    evictions |-> after.evictions]
    BY <1>1 DEF Sound
  <1>7. /\ DOMAIN after.map = DOMAIN map \ K
        /\ \A k \in DOMAIN after.map : after.map[k] = map[k]
    BY <1>6 DEF Only
  <1>8. Sound(after)
    BY <1>4, <1>5, <1>6, <1>7 DEF Sound
  <1>9. Expired(map) = Expired(space.map) \ {key} /\ key \notin Expired(map)
    BY <1>2 DEF Expired
  <1>10. Expired(after.map) = Expired(map) \ K
    BY <1>7 DEF Expired
  <1>11. GivesUpExpiredFirst(space.map, after.map)
    <2>1. SUFFICES ASSUME NEW k \in DOMAIN space.map \ DOMAIN after.map,
                          space.map[k].expiry # "past"
                   PROVE  Expired(after.map) = {}
      BY DEF GivesUpExpiredFirst
    <2>2. k \in K /\ k \notin Expired(map)
      BY <1>2, <1>7, <1>9, <2>1 DEF Expired
    <2>3. QED
      BY <1>3, <1>10, <2>2
  <1>12. StaysLive(space.map, after.map)
    BY <1>2, <1>7 DEF StaysLive
  <1>13. QED
    BY <1>8, <1>9, <1>10, <1>11, <1>12

\* Two sets, one after the other.
LEMMA TwoSetsGiveUpExpiredFirst ==
  ASSUME NEW space, Sound(space), NEW key1, NEW key2, NEW expiry \in {"never", "armed"},
         NEW m, NEW n,
         NEW once \in AfterSet(space, key1, expiry, m), NEW twice \in AfterSet(once, key2, expiry, n)
  PROVE  Sound(twice) /\ GivesUpExpiredFirst(space.map, twice.map)
  <1>1. /\ Sound(once) /\ GivesUpExpiredFirst(space.map, once.map)
        /\ StaysLive(space.map, once.map)
    BY SetGivesUpExpiredFirst
  <1>2. /\ Sound(twice) /\ GivesUpExpiredFirst(once.map, twice.map)
        /\ Expired(once.map) = {} => Expired(twice.map) = {}
    BY <1>1, SetGivesUpExpiredFirst
  <1>3. QED
    BY <1>1, <1>2 DEF GivesUpExpiredFirst, StaysLive

\* What LiveOutlivesExpired says of a step.
Kept ==
  \A s \in DOMAIN keyspaces :
    keyspaces'[s].evictions > keyspaces[s].evictions =>
      \A k \in DOMAIN keyspaces[s].map \ DOMAIN keyspaces'[s].map :
        keyspaces[s].map[k].expiry # "past" => Expired(keyspaces'[s].map) = {}

\* A step of one keyspace.
LEMMA OneSpace ==
  ASSUME AllSound, NEW s, NEW space, Sound(space), keyspaces' = WithSpace(s, space),
         s \in DOMAIN keyspaces => \/ space.evictions = keyspaces[s].evictions
                                   \/ GivesUpExpiredFirst(keyspaces[s].map, space.map)
  PROVE  AllSound' /\ Kept
  <1>1. /\ DOMAIN keyspaces' = DOMAIN keyspaces \cup {s} /\ keyspaces'[s] = space
        /\ keyspaces' = [t \in DOMAIN keyspaces' |-> keyspaces'[t]]
        /\ \A t \in DOMAIN keyspaces \ {s} : keyspaces'[t] = keyspaces[t]
    BY DEF WithSpace
  <1>2. AllSound'
    BY <1>1 DEF AllSound
  <1>3. ASSUME NEW t \in DOMAIN keyspaces
        PROVE  \/ ~(keyspaces'[t].evictions > keyspaces[t].evictions)
               \/ GivesUpExpiredFirst(keyspaces[t].map, keyspaces'[t].map)
    <2>1. keyspaces[t].evictions \in Nat
      BY DEF AllSound, Sound
    <2>2. \/ keyspaces'[t].evictions = keyspaces[t].evictions
          \/ GivesUpExpiredFirst(keyspaces[t].map, keyspaces'[t].map)
      BY <1>1
    <2>3. QED
      BY <2>1, <2>2
  <1>4. QED
    BY <1>2, <1>3 DEF Kept, GivesUpExpiredFirst

LEMMA SpaceOfIsSound ==
  ASSUME AllSound, NEW s
  PROVE  Sound(SpaceOf(s)) /\ (s \in DOMAIN keyspaces => SpaceOf(s) = keyspaces[s])
  <1>1. CASE s \in DOMAIN keyspaces
    BY <1>1 DEF AllSound, SpaceOf
  <1>2. CASE s \notin DOMAIN keyspaces
    <2>1. IsFiniteSet(DOMAIN NoEntries)
      BY FS_EmptySet DEF NoEntries
    <2>2. QED
      BY <1>2, <2>1 DEF SpaceOf, Fresh, Sound
  <1>3. QED
    BY <1>1, <1>2

\* A get leaves the number of evictions and adds no entries.
LEMMA GetKeeps ==
  ASSUME NEW space, Sound(space), NEW key, NEW n
  PROVE  /\ Sound(AfterGet(space, key, n))
         /\ AfterGet(space, key, n).evictions = space.evictions
  <1> DEFINE after == AfterGet(space, key, n)
  <1>1. CASE key \notin DOMAIN space.map
    <2>1. after = space
      BY <1>1 DEF AfterGet, Expired
    <2>2. QED
      BY <2>1
  <1>2. CASE key \in DOMAIN space.map /\ key \in Expired(space.map)
    <2>1. after = [space EXCEPT !.map = Only(space.map, DOMAIN space.map \ {key})]
      BY <1>2 DEF AfterGet
    <2>2. IsFiniteSet(DOMAIN space.map \ {key})
      BY FS_RemoveElement DEF Sound
    <2>3. QED
      BY <2>1, <2>2 DEF Sound, Only
  <1>3. CASE key \in DOMAIN space.map /\ key \notin Expired(space.map)
    <2>1. after = [space EXCEPT !.map[key].last_access = n]
      BY <1>3 DEF AfterGet
    <2>2. DOMAIN after.map = DOMAIN space.map /\ after.evictions = space.evictions
          /\ after.ttl = space.ttl /\ after.limit = space.limit
          /\ after = [limit |-> after.limit, ttl |-> after.ttl, map |-> after.map,
                      evictions |-> after.evictions]
      BY <2>1 DEF Sound
    <2>3. QED
      BY <2>2 DEF Sound
  <1>4. QED
    BY <1>1, <1>2, <1>3

LEMMA SetStep ==
  ASSUME AllSound, NEW s \in Keyspaces, NEW key1 \in Keys, NEW key2 \in Keys,
         \/ \E ttl \in {"default", "never", "armed"} : Set(s, key1, ttl)
         \/ MSet(s, key1, key2, "default")
  PROVE  AllSound' /\ Kept
  <1>1. Sound(SpaceOf(s)) /\ (s \in DOMAIN keyspaces => SpaceOf(s) = keyspaces[s])
    BY SpaceOfIsSound
  <1>2. SpaceOf(s).ttl \in {"never", "armed"}
    BY <1>1 DEF Sound
  <1>3. ASSUME NEW ttl \in {"default", "never", "armed"}, Set(s, key1, ttl)
        PROVE  AllSound' /\ Kept
    <2>1. PICK expiry \in {"never", "armed"} :
            \E after \in AfterSet(SpaceOf(s), key1, expiry, op_seq + 1) :
              keyspaces' = WithSpace(s, after)
      BY <1>2, <1>3 DEF Set
    <2>2. PICK after \in AfterSet(SpaceOf(s), key1, expiry, op_seq + 1) :
            keyspaces' = WithSpace(s, after)
      BY <2>1
    <2>3. Sound(after) /\ GivesUpExpiredFirst(SpaceOf(s).map, after.map)
      BY <1>1, SetGivesUpExpiredFirst
    <2>4. QED
      BY <1>1, <2>2, <2>3, OneSpace
  <1>4. CASE MSet(s, key1, key2, "default")
    <2> DEFINE expiry == SpaceOf(s).ttl
    <2>1. PICK once \in AfterSet(SpaceOf(s), key1, expiry, op_seq + 1) :
            \E twice \in AfterSet(once, key2, expiry, op_seq + 2) : keyspaces' = WithSpace(s, twice)
      BY <1>4 DEF MSet
    <2>2. PICK twice \in AfterSet(once, key2, expiry, op_seq + 2) : keyspaces' = WithSpace(s, twice)
      BY <2>1
    <2>3. Sound(twice) /\ GivesUpExpiredFirst(SpaceOf(s).map, twice.map)
      BY <1>1, <1>2, TwoSetsGiveUpExpiredFirst
    <2>4. QED
      BY <1>1, <2>2, <2>3, OneSpace
  <1>5. QED
    BY <1>3, <1>4

LEMMA GetStep ==
  ASSUME AllSound, NEW s \in Keyspaces, NEW key1 \in Keys, NEW key2 \in Keys,
         Get(s, key1) \/ MGet(s, key1, key2)
  PROVE  AllSound' /\ Kept
  <1>1. CASE keyspaces' = keyspaces
    BY <1>1 DEF AllSound, Kept, Sound
  <1>2. CASE s \in DOMAIN keyspaces
    <2>1. Sound(keyspaces[s])
      BY <1>2 DEF AllSound
    <2>2. CASE Get(s, key1)
      <3> DEFINE after == AfterGet(keyspaces[s], key1, op_seq + 1)
      <3>1. keyspaces' = WithSpace(s, after)
        BY <1>2, <2>2 DEF Get
      <3>2. Sound(after) /\ after.evictions = keyspaces[s].evictions
        BY <2>1, GetKeeps
      <3>3. QED
        BY <3>1, <3>2, OneSpace
    <2>3. CASE MGet(s, key1, key2)
      <3> DEFINE once == AfterGet(keyspaces[s], key1, op_seq + 1)
                 twice == AfterGet(once, key2, op_seq + 2)
      <3>1. keyspaces' = WithSpace(s, twice)
        BY <1>2, <2>3 DEF MGet
      <3>2. Sound(once) /\ once.evictions = keyspaces[s].evictions
        BY <2>1, GetKeeps
      <3> HIDE DEF once
      <3>3. Sound(twice) /\ twice.evictions = once.evictions
        BY <3>2, GetKeeps
      <3>4. QED
        BY <3>1, <3>2, <3>3, OneSpace
    <2>4. QED
      BY <2>2, <2>3
  <1>3. QED
    BY <1>1, <1>2 DEF Get, MGet

\* The steps that only declare, remove or let time pass.
LEMMA OtherStep ==
  ASSUME AllSound, NEW s,
         \/ \E limit \in Limits, ttl \in {"never", "armed"} : EnsureKeyspace(s, limit, ttl)
         \/ \E K \in SUBSET Keys : Invalidate(s, K)
         \/ \E key \in Keys : Expire(s, key)
  PROVE  AllSound' /\ Kept
  <1>1. ASSUME NEW limit \in Limits, NEW ttl \in {"never", "armed"}, EnsureKeyspace(s, limit, ttl)
        PROVE  AllSound' /\ Kept
    <2> DEFINE space == IF s \in DOMAIN keyspaces
                        THEN [keyspaces[s] EXCEPT !.limit = limit, !.ttl = ttl] ELSE Fresh(limit, ttl)
    <2>1. keyspaces' = WithSpace(s, space)
      BY <1>1 DEF EnsureKeyspace
    <2>2. IsFiniteSet(DOMAIN NoEntries)
      BY FS_EmptySet DEF NoEntries
    <2>3. Sound(space) /\ (s \in DOMAIN keyspaces => space.evictions = keyspaces[s].evictions)
      <3>1. CASE s \in DOMAIN keyspaces
        <4>1. Sound(keyspaces[s]) /\ space = [keyspaces[s] EXCEPT !.limit = limit, !.ttl = ttl]
          BY <3>1 DEF AllSound
        <4> HIDE DEF space
        <4>2. QED
          BY <4>1 DEF Sound
      <3>2. CASE s \notin DOMAIN keyspaces
        <4>1. space = Fresh(limit, ttl)
          BY <3>2
        <4> HIDE DEF space
        <4>2. QED
          BY <2>2, <3>2, <4>1 DEF Sound, Fresh
      <3>3. QED
        BY <3>1, <3>2
    <2>4. QED
      BY <2>1, <2>3, OneSpace
  <1>2. ASSUME NEW K \in SUBSET Keys, Invalidate(s, K)
        PROVE  AllSound' /\ Kept
    <2> DEFINE left == DOMAIN keyspaces[s].map \ K
               space == [keyspaces[s] EXCEPT !.map = Only(keyspaces[s].map, left)]
    <2>1. s \in DOMAIN keyspaces /\ keyspaces' = WithSpace(s, space) /\ Sound(keyspaces[s])
      BY <1>2 DEF Invalidate, AllSound
    <2>2. IsFiniteSet(left)
      BY <2>1, FS_Subset DEF Sound
    <2>3. Sound(space) /\ space.evictions = keyspaces[s].evictions
      BY <2>1, <2>2 DEF Sound, Only
    <2>4. QED
      BY <2>1, <2>3, OneSpace
  <1>3. ASSUME NEW key \in Keys, Expire(s, key)
        PROVE  AllSound' /\ Kept
    <2> DEFINE space == [keyspaces[s] EXCEPT !.map[key].expiry = "past"]
    <2>1. /\ s \in DOMAIN keyspaces /\ Sound(keyspaces[s]) /\ key \in DOMAIN keyspaces[s].map
          /\ keyspaces' = [keyspaces EXCEPT ![s] = space]
      BY <1>3 DEF Expire, AllSound
    <2>2. /\ DOMAIN space.map = DOMAIN keyspaces[s].map /\ space.evictions = keyspaces[s].evictions
          /\ space.ttl = keyspaces[s].ttl
          /\ space = [limit |-> space.limit, ttl |-> space.ttl, map |-> space.map,
                      evictions |-> space.evictions]
      BY <2>1 DEF Sound
    <2>3. Sound(space)
      BY <2>1, <2>2 DEF Sound
    <2> HIDE DEF space
    <2>4. keyspaces' = WithSpace(s, space)
      BY <2>1 DEF WithSpace, AllSound
    <2>5. QED
      BY <2>2, <2>3, <2>4, OneSpace
  <1>4. QED
    BY <1>1, <1>2, <1>3

\* However sets, gets, deadlines and changes of the limit follow each other: no set gives
\* up a live entry of its keyspace and keeps an expired one.
THEOREM ExpiredGoFirst == MCSpec => LiveOutlivesExpired
  <1>1. MCInit => AllSound
    BY DEF MCInit, Init, AllSound
  <1>2. AllSound /\ [Next]_vars => AllSound' /\ [Kept]_vars
    <2> SUFFICES ASSUME AllSound, [Next]_vars
                 PROVE  AllSound' /\ [Kept]_vars
      OBVIOUS
    <2>1. CASE UNCHANGED vars
      BY <2>1 DEF vars, AllSound
    <2>2. CASE Next
      BY <2>2, SetStep, GetStep, OtherStep DEF Next
    <2>3. QED
      BY <2>1, <2>2
  <1>3. [MCNext]_<<focus, vars, dbVars, redisVars, objectVars>> => [Next]_vars
    BY DEF MCNext, In
  <1>4. LiveOutlivesExpired <=> [][Kept]_vars
    BY PTL DEF LiveOutlivesExpired, Kept
  <1>5. QED
    BY <1>1, <1>2, <1>3, <1>4, PTL DEF MCSpec

---------------------------------------------------------------------------------
(***************************************************************************)
(* The cache: KeyspacesAreLru.  First about lists of a finite set in the   *)
(* order of numbers that tell its elements apart, then what the stamps of  *)
(* a keyspace make of its keys, then one lemma for each operation.         *)
(***************************************************************************)

\* f is a number for each element of the finite set S, and a different one.
Tells(S, f) ==
  /\ IsFiniteSet(S)
  /\ \A x \in S : f[x] \in Nat
  /\ \A x, y \in S : f[x] = f[y] => x = y

Lower(S, f, x) == {y \in S : f[y] < f[x]}

\* q lists S in the order f gives it.
Lists(q, S, f) ==
  /\ q \in [1 .. Cardinality(S) -> S]
  /\ \A x \in S : \E i \in 1 .. Cardinality(S) : q[i] = x
  /\ \A i, j \in 1 .. Cardinality(S) : i < j => f[q[i]] < f[q[j]]

\* The list that puts each element behind the lower ones.
Ranked(S, f) ==
  [i \in 1 .. Cardinality(S) |-> CHOOSE x \in S : Cardinality(Lower(S, f, x)) = i - 1]

\* An element of a finite set has fewer below it than there are, and fewer than one
\* above it.
LEMMA LowerCounts ==
  ASSUME NEW S, NEW f, Tells(S, f), NEW x \in S
  PROVE  /\ Cardinality(S) \in Nat /\ Cardinality(Lower(S, f, x)) \in Nat
         /\ IsFiniteSet(Lower(S, f, x))
         /\ Cardinality(Lower(S, f, x)) < Cardinality(S)
         /\ \A y \in S : f[x] < f[y] => Cardinality(Lower(S, f, x)) < Cardinality(Lower(S, f, y))
  <1>1. IsFiniteSet(S) /\ Cardinality(S) \in Nat
    BY FS_CardinalityType DEF Tells
  <1>2. \A y \in S : /\ Lower(S, f, y) \in SUBSET S
                     /\ IsFiniteSet(Lower(S, f, y))
                     /\ Cardinality(Lower(S, f, y)) \in Nat
    BY <1>1, FS_Subset, FS_CardinalityType DEF Lower
  <1>3. Cardinality(Lower(S, f, x)) < Cardinality(S)
    <2>1. x \notin Lower(S, f, x) /\ Lower(S, f, x) # S
      BY DEF Lower, Tells
    <2>2. QED
      BY <1>1, <1>2, <2>1, FS_Subset
  <1>4. ASSUME NEW y \in S, f[x] < f[y]
        PROVE  Cardinality(Lower(S, f, x)) < Cardinality(Lower(S, f, y))
    <2>1. Lower(S, f, x) \in SUBSET Lower(S, f, y)
      BY <1>4 DEF Lower, Tells
    <2>2. x \in Lower(S, f, y) /\ x \notin Lower(S, f, x)
      BY <1>4 DEF Lower, Tells
    <2>3. QED
      BY <1>2, <2>1, <2>2, FS_Subset
  <1>5. QED
    BY <1>1, <1>2, <1>3, <1>4

\* So no two have equally many below them.
LEMMA LowerDistinct ==
  ASSUME NEW S, NEW f, Tells(S, f), NEW x \in S, NEW y \in S,
         Cardinality(Lower(S, f, x)) = Cardinality(Lower(S, f, y))
  PROVE  x = y
  <1>1. f[x] \in Nat /\ f[y] \in Nat
    BY DEF Tells
  <1>2. ~ (f[x] < f[y]) /\ ~ (f[y] < f[x])
    BY LowerCounts
  <1>3. QED
    BY <1>1, <1>2 DEF Tells

\* Every number of lower ones occurs: the ranked list is a list of S in its order.
LEMMA RankedLists ==
  ASSUME NEW S, NEW f, Tells(S, f)
  PROVE  Lists(Ranked(S, f), S, f)
  <1> DEFINE n == Cardinality(S)
             r == [x \in S |-> Cardinality(Lower(S, f, x)) + 1]
  <1>1. IsFiniteSet(S) /\ n \in Nat
    BY FS_CardinalityType DEF Tells
  <1>2. r \in [S -> 1 .. n]
    BY <1>1, LowerCounts
  <1>3. \A x, y \in S : r[x] = r[y] => x = y
    BY LowerCounts, LowerDistinct
  <1>4. \A x, y \in S : f[x] < f[y] => r[x] < r[y]
    BY LowerCounts
  <1>5. \A i \in 1 .. n : \E x \in S : r[x] = i
    <2>1. r \in Injection(S, 1 .. n)
      BY <1>2, <1>3 DEF Injection, IsInjective
    <2>2. IsFiniteSet(1 .. n) /\ Cardinality(1 .. n) = n
      BY <1>1, FS_Interval
    <2> HIDE DEF r
    <2>3. r \in Surjection(S, 1 .. n)
      BY <2>1, <2>2, FS_Injection
    <2>4. QED
      BY <2>3 DEF Surjection
  <1>6. ASSUME NEW i \in 1 .. n
        PROVE  Ranked(S, f)[i] \in S /\ r[Ranked(S, f)[i]] = i
    <2>1. PICK x \in S : r[x] = i
      BY <1>5
    <2>2. Cardinality(Lower(S, f, x)) = i - 1
      BY <1>1, <2>1, LowerCounts
    <2>3. Ranked(S, f)[i] = CHOOSE y \in S : Cardinality(Lower(S, f, y)) = i - 1
      BY DEF Ranked
    <2>4. Ranked(S, f)[i] \in S /\ Cardinality(Lower(S, f, Ranked(S, f)[i])) = i - 1
      BY <2>2, <2>3
    <2>5. QED
      BY <1>1, <2>4
  <1> DEFINE q == Ranked(S, f)
  <1>7. q = [i \in 1 .. n |-> q[i]]
    BY DEF Ranked
  <1> HIDE DEF q, r
  <1>8. q \in [1 .. n -> S]
    BY <1>6, <1>7 DEF q
  <1>9. \A x \in S : \E i \in 1 .. n : q[i] = x
    <2>1. ASSUME NEW x \in S
          PROVE  q[r[x]] = x /\ r[x] \in 1 .. n
      BY <1>2, <1>3, <1>6 DEF q
    <2>2. QED
      BY <2>1
  <1>10. ASSUME NEW i \in 1 .. n, NEW j \in 1 .. n, i < j
         PROVE  f[q[i]] < f[q[j]]
    <2>1. q[i] \in S /\ q[j] \in S /\ r[q[i]] = i /\ r[q[j]] = j
      BY <1>6 DEF q
    <2>2. f[q[i]] \in Nat /\ f[q[j]] \in Nat
      BY <2>1 DEF Tells
    <2>3. ~ (f[q[j]] < f[q[i]]) /\ q[i] # q[j]
      BY <1>1, <1>4, <1>10, <2>1
    <2>4. f[q[i]] # f[q[j]]
      BY <2>1, <2>3 DEF Tells
    <2>5. QED
      BY <2>2, <2>3, <2>4
  <1>11. QED
    BY <1>8, <1>9, <1>10 DEF Lists, q

\* In any list of S in its order, the i-th element has i - 1 below it.
LEMMA LowerOfListed ==
  ASSUME NEW S, NEW f, Tells(S, f), NEW q, Lists(q, S, f), NEW i \in 1 .. Cardinality(S)
  PROVE  Cardinality(Lower(S, f, q[i])) = i - 1
  <1> DEFINE n == Cardinality(S)
             L == Lower(S, f, q[i])
             b == [j \in 1 .. (i - 1) |-> q[j]]
  <1>1. n \in Nat /\ IsFiniteSet(S)
    BY FS_CardinalityType DEF Tells
  <1>2. \A j \in 1 .. n : q[j] \in S /\ f[q[j]] \in Nat
    BY DEF Lists, Tells
  <1>3. \A j \in 1 .. (i - 1) : j \in 1 .. n /\ j < i
    BY <1>1
  <1>4. b \in [1 .. (i - 1) -> L]
    BY <1>2, <1>3 DEF Lists, Lower
  <1>5. \A j, k \in 1 .. (i - 1) : b[j] = b[k] => j = k
    <2>1. ASSUME NEW j \in 1 .. (i - 1), NEW k \in 1 .. (i - 1), j < k
          PROVE  b[j] # b[k]
      <3>1. f[q[j]] < f[q[k]]
        BY <1>3, <2>1 DEF Lists
      <3>2. QED
        BY <1>2, <1>3, <3>1
    <2>2. QED
      BY <2>1
  <1>6. \A y \in L : \E j \in 1 .. (i - 1) : b[j] = y
    <2>1. ASSUME NEW y \in L
          PROVE  \E j \in 1 .. (i - 1) : b[j] = y
      <3>1. y \in S /\ f[y] < f[q[i]]
        BY DEF Lower
      <3>2. PICK j \in 1 .. n : q[j] = y
        BY <3>1 DEF Lists
      <3>3. ~ (i < j) /\ i # j
        <4>1. i < j => f[q[i]] < f[y]
          BY <3>2 DEF Lists
        <4>2. f[y] \in Nat /\ f[q[i]] \in Nat
          BY <1>2, <3>2
        <4>3. QED
          BY <3>1, <3>2, <4>1, <4>2
      <3>4. j \in 1 .. (i - 1)
        BY <1>1, <3>3
      <3>5. QED
        BY <3>2, <3>4
    <2>2. QED
      BY <2>1
  <1>7. b \in Bijection(1 .. (i - 1), L)
    BY <1>4, <1>5, <1>6 DEF Bijection, Injection, Surjection, IsInjective
  <1>8. ExistsBijection(1 .. (i - 1), L)
    BY <1>7 DEF ExistsBijection
  <1>9. IsFiniteSet(1 .. (i - 1)) /\ Cardinality(1 .. (i - 1)) = i - 1
    <2>1. 1 \in Int /\ i - 1 \in Int /\ 1 =< i
      BY <1>1
    <2>2. /\ IsFiniteSet(1 .. (i - 1))
          /\ Cardinality(1 .. (i - 1)) = IF 1 > i - 1 THEN 0 ELSE i - 1 - 1 + 1
      BY <2>1, FS_Interval
    <2>3. QED
      BY <2>1, <2>2
  <1>10. QED
    BY <1>8, <1>9, FS_Bijection

\* There is one such list.
LEMMA ListsAreRanked ==
  ASSUME NEW S, NEW f, Tells(S, f), NEW q, Lists(q, S, f)
  PROVE  q = Ranked(S, f)
  <1>1. ASSUME NEW i \in 1 .. Cardinality(S)
        PROVE  Ranked(S, f)[i] = q[i]
    <2>1. q[i] \in S /\ Cardinality(Lower(S, f, q[i])) = i - 1
      <3>1. q[i] \in S
        BY DEF Lists
      <3>2. QED
        BY <3>1, LowerOfListed
    <2>2. Ranked(S, f)[i] = CHOOSE x \in S : Cardinality(Lower(S, f, x)) = i - 1
      BY DEF Ranked
    <2>3. Ranked(S, f)[i] \in S /\ Cardinality(Lower(S, f, Ranked(S, f)[i])) = i - 1
      BY <2>1, <2>2
    <2>4. QED
      BY <2>1, <2>3, LowerDistinct
  <1>2. q = [i \in 1 .. Cardinality(S) |-> q[i]]
    BY DEF Lists
  <1>3. Ranked(S, f) = [i \in 1 .. Cardinality(S) |-> Ranked(S, f)[i]]
    BY DEF Ranked
  <1>4. QED
    BY <1>1, <1>2, <1>3

\* Taking elements out of a list, putting one behind it, and its first elements.

Left(list, K) == {i \in DOMAIN list : list[i] \notin K}

\* What LruSpace's Minus is.
Less(list, K) ==
  [n \in 1 .. Cardinality(Left(list, K)) |->
     list[CHOOSE i \in Left(list, K) : Cardinality({j \in Left(list, K) : j < i}) = n - 1]]

LEMMA LessLists ==
  ASSUME NEW S, NEW f, Tells(S, f), NEW q, Lists(q, S, f), NEW K
  PROVE  Lists(Less(q, K), S \ K, f)
  <1> DEFINE n == Cardinality(S)
             kept == Left(q, K)
             at == [i \in 1 .. n |-> i]
             e == Ranked(kept, at)
             l == Less(q, K)
  <1>1. n \in Nat /\ IsFiniteSet(S)
    BY FS_CardinalityType DEF Tells
  <1>2. DOMAIN q = 1 .. n /\ \A i \in 1 .. n : q[i] \in S /\ f[q[i]] \in Nat
    BY DEF Lists, Tells
  <1>3. kept \in SUBSET (1 .. n) /\ IsFiniteSet(kept)
    <2>1. kept \in SUBSET (1 .. n)
      BY <1>2 DEF Left
    <2>2. IsFiniteSet(1 .. n)
      BY <1>1, FS_Interval
    <2> HIDE DEF kept
    <2>3. QED
      BY <2>1, <2>2, FS_Subset
  <1>4. Tells(kept, at)
    BY <1>1, <1>3 DEF Tells
  <1>5. Lists(e, kept, at)
    <2> HIDE DEF kept, at
    <2>1. QED
      BY <1>4, RankedLists
  <1>6. Cardinality(kept) = Cardinality(S \ K)
    <2> DEFINE b == [i \in kept |-> q[i]]
    <2>1. b \in [kept -> S \ K]
      BY <1>2, <1>3 DEF Left
    <2>2. \A i, j \in kept : b[i] = b[j] => i = j
      <3>1. ASSUME NEW i \in 1 .. n, NEW j \in 1 .. n, i < j
            PROVE  q[i] # q[j]
        <4>1. f[q[i]] < f[q[j]]
          BY <3>1 DEF Lists
        <4>2. QED
          BY <1>2, <4>1
      <3>2. QED
        BY <1>3, <3>1
    <2>3. \A x \in S \ K : \E i \in kept : b[i] = x
      BY <1>2 DEF Lists, Left
    <2>4. b \in Bijection(kept, S \ K)
      BY <2>1, <2>2, <2>3 DEF Bijection, Injection, Surjection, IsInjective
    <2>5. ExistsBijection(kept, S \ K)
      BY <2>4 DEF ExistsBijection
    <2> HIDE DEF kept
    <2>6. QED
      BY <1>3, <2>5, FS_Bijection
  <1>7. \A i \in kept : Lower(kept, at, i) = {j \in kept : j < i}
    BY <1>3 DEF Lower
  <1>8. l = [m \in 1 .. Cardinality(kept) |-> q[e[m]]]
    <2>1. \A m \in 1 .. Cardinality(kept) :
            e[m] = CHOOSE i \in kept : Cardinality(Lower(kept, at, i)) = m - 1
      BY DEF Ranked
    <2>2. \A m \in 1 .. Cardinality(kept) :
            (CHOOSE i \in kept : Cardinality(Lower(kept, at, i)) = m - 1)
              = CHOOSE i \in kept : Cardinality({j \in kept : j < i}) = m - 1
      BY <1>7
    <2>3. l = [m \in 1 .. Cardinality(kept) |-> l[m]]
      BY DEF Less
    <2>4. ASSUME NEW m \in 1 .. Cardinality(kept)
          PROVE  l[m] = q[e[m]]
      <3>1. l[m] = q[CHOOSE i \in kept : Cardinality({j \in kept : j < i}) = m - 1]
        BY DEF Less
      <3>2. e[m] = CHOOSE i \in kept : Cardinality({j \in kept : j < i}) = m - 1
        BY <2>1, <2>2
      <3>3. QED
        BY <3>1, <3>2
    <2> HIDE DEF l, e, kept
    <2>5. QED
      BY <2>3, <2>4
  <1> DEFINE c == Cardinality(kept)
  <1>9. \A m \in 1 .. c : e[m] \in kept
    BY <1>5 DEF Lists
  <1>10. \A i \in kept : \E m \in 1 .. c : e[m] = i
    BY <1>5 DEF Lists
  <1>11. \A m, o \in 1 .. c : m < o => e[m] < e[o]
    <2>1. \A m, o \in 1 .. c : m < o => at[e[m]] < at[e[o]]
      BY <1>5 DEF Lists
    <2>2. QED
      BY <1>3, <1>9, <2>1
  <1> HIDE DEF e, at, l
  <1>12. \A m \in 1 .. c : l[m] = q[e[m]]
    BY <1>8
  <1>13. \A i \in kept : i \in 1 .. n /\ q[i] \in S \ K
    BY <1>2, <1>3 DEF Left
  <1>14. \A x \in S \ K : \E i \in kept : q[i] = x
    BY <1>2 DEF Lists, Left
  <1> HIDE DEF kept
  <1>15. l \in [1 .. c -> S \ K]
    BY <1>8, <1>9, <1>13
  <1>16. \A x \in S \ K : \E m \in 1 .. c : l[m] = x
    BY <1>10, <1>12, <1>14
  <1>17. ASSUME NEW m \in 1 .. c, NEW o \in 1 .. c, m < o
         PROVE  f[l[m]] < f[l[o]]
    <2>1. e[m] \in 1 .. n /\ e[o] \in 1 .. n /\ e[m] < e[o]
      BY <1>9, <1>11, <1>13, <1>17
    <2>2. f[q[e[m]]] < f[q[e[o]]]
      BY <2>1 DEF Lists
    <2>3. QED
      BY <1>12, <2>2
  <1> HIDE DEF c
  <1>18. c = Cardinality(S \ K)
    BY <1>6 DEF c
  <1>19. QED
    BY <1>15, <1>16, <1>17, <1>18 DEF Lists, l

\* An element above all others goes to the end.
LEMMA AppendLists ==
  ASSUME NEW S, NEW f, NEW q, Lists(q, S, f), IsFiniteSet(S),
         NEW x, x \notin S, NEW g,
         \A y \in S : g[y] = f[y] /\ f[y] < g[x]
  PROVE  Lists(Append(q, x), S \cup {x}, g)
  <1> DEFINE n == Cardinality(S)
             l == Append(q, x)
             T == S \cup {x}
  <1>1. n \in Nat /\ Cardinality(T) = n + 1
    BY FS_CardinalityType, FS_AddElement
  <1>2. q \in [1 .. n -> S] /\ q \in Seq(S) /\ Len(q) = n
    <2>1. q \in [1 .. n -> S]
      BY DEF Lists
    <2> HIDE DEF n
    <2>2. QED
      BY <1>1, <2>1, SeqDef, LenProperties
  <1>3. l = [i \in 1 .. n + 1 |-> IF i = n + 1 THEN x ELSE q[i]]
    <2> HIDE DEF n
    <2>1. q \in Seq(T) /\ x \in T
      BY <1>2
    <2> HIDE DEF T
    <2>2. /\ l \in Seq(T) /\ Len(l) = n + 1 /\ l[n + 1] = x
          /\ \A i \in 1 .. n : l[i] = q[i]
      BY <1>2, <2>1, AppendProperties
    <2> HIDE DEF l
    <2>3. l = [i \in 1 .. n + 1 |-> l[i]]
      BY <2>2
    <2>4. \A i \in 1 .. n + 1 : i \in 1 .. n <=> i # n + 1
      BY <1>1
    <2>5. QED
      BY <2>2, <2>3, <2>4
  <1> HIDE DEF l
  <1>4. \A i \in 1 .. n : i \in 1 .. n + 1 /\ l[i] = q[i] /\ q[i] \in S
    BY <1>1, <1>2, <1>3
  <1>5. n + 1 \in 1 .. n + 1 /\ l[n + 1] = x
    BY <1>1, <1>3
  <1>6. \A i \in 1 .. n + 1 : i = n + 1 \/ i \in 1 .. n
    BY <1>1
  <1>7. l \in [1 .. n + 1 -> T]
    BY <1>3, <1>4, <1>5, <1>6
  <1>8. \A y \in T : \E i \in 1 .. n + 1 : l[i] = y
    <2>1. \A y \in S : \E i \in 1 .. n : q[i] = y
      BY DEF Lists
    <2>2. QED
      BY <1>4, <1>5, <2>1
  <1>9. ASSUME NEW i \in 1 .. n + 1, NEW j \in 1 .. n + 1, i < j
        PROVE  g[l[i]] < g[l[j]]
    <2>1. i \in 1 .. n
      BY <1>1, <1>9
    <2>2. CASE j = n + 1
      BY <1>4, <1>5, <2>1, <2>2
    <2>3. CASE j \in 1 .. n
      <3>1. f[q[i]] < f[q[j]]
        BY <1>9, <2>1, <2>3 DEF Lists
      <3>2. QED
        BY <1>4, <2>1, <2>3, <3>1
    <2>4. QED
      BY <1>6, <2>2, <2>3
  <1> HIDE DEF T, n
  <1>10. QED
    BY <1>1, <1>7, <1>8, <1>9 DEF Lists, l, T

\* The first m of a list are those with fewer than m below them.
LEMMA FirstOfList ==
  ASSUME NEW S, NEW f, Tells(S, f), NEW q, Lists(q, S, f),
         NEW m \in Nat, m =< Cardinality(S)
  PROVE  {SubSeq(q, 1, m)[i] : i \in DOMAIN SubSeq(q, 1, m)}
           = {x \in S : Cardinality(Lower(S, f, x)) < m}
  <1> DEFINE n == Cardinality(S)
  <1>1. n \in Nat /\ IsFiniteSet(S)
    BY FS_CardinalityType DEF Tells
  <1>2. q \in [1 .. n -> S] /\ q \in Seq(S) /\ Len(q) = n
    <2>1. q \in [1 .. n -> S]
      BY DEF Lists
    <2> HIDE DEF n
    <2>2. QED
      BY <1>1, <2>1, SeqDef, LenProperties
  <1>3. /\ DOMAIN SubSeq(q, 1, m) = 1 .. m
        /\ \A i \in 1 .. m : SubSeq(q, 1, m)[i] = q[i]
    BY <1>1, <1>2
  <1>4. \A i \in 1 .. m : i \in 1 .. n /\ q[i] \in S /\ i - 1 < m
    BY <1>1, <1>2
  <1>5. \A i \in 1 .. n : q[i] \in S /\ Cardinality(Lower(S, f, q[i])) = i - 1
    BY <1>2, LowerOfListed
  <1>6. ASSUME NEW x \in S, Cardinality(Lower(S, f, x)) < m
        PROVE  \E i \in 1 .. m : q[i] = x
    <2>1. PICK i \in 1 .. n : q[i] = x
      BY DEF Lists
    <2>2. i - 1 < m
      BY <1>5, <1>6, <2>1
    <2>3. i \in 1 .. m
      BY <1>1, <2>2
    <2>4. QED
      BY <2>1, <2>3
  <1>7. ASSUME NEW i \in 1 .. m
        PROVE  q[i] \in S /\ Cardinality(Lower(S, f, q[i])) < m
    BY <1>4, <1>5
  <1>8. QED
    BY <1>3, <1>6, <1>7

\* A keyspace's stamps list its keys.

Stamps(map) == [k \in DOMAIN map |-> map[k].last_access]

\* The entries are stamped, each with an operation of its own among the first n.
Entries(map, n) ==
  /\ map = [k \in DOMAIN map |-> map[k]]
  /\ \A k \in DOMAIN map : /\ map[k] = [expiry |-> map[k].expiry, last_access |-> map[k].last_access]
                           /\ map[k].last_access =< n
  /\ Tells(DOMAIN map, Stamps(map))

LEMMA ByStampIs ==
  ASSUME NEW map, NEW n, Entries(map, n)
  PROVE  /\ ByStamp(map) = Ranked(DOMAIN map, Stamps(map))
         /\ Lists(ByStamp(map), DOMAIN map, Stamps(map))
  <1> DEFINE S == DOMAIN map
             f == Stamps(map)
             Under(k) == {j \in S : map[j].last_access < map[k].last_access}
  <1>1. \A k \in S : Lower(S, f, k) = Under(k)
    BY DEF Lower, Stamps
  <1>2. \A i \in 1 .. Cardinality(S) :
          (CHOOSE k \in S : Cardinality(Lower(S, f, k)) = i - 1)
            = CHOOSE k \in S : Cardinality(Under(k)) = i - 1
    BY <1>1
  <1>3. ByStamp(map) = [i \in 1 .. Cardinality(S) |-> CHOOSE k \in S : Cardinality(Under(k)) = i - 1]
    BY DEF ByStamp
  <1>4. Ranked(S, f) = [i \in 1 .. Cardinality(S) |-> CHOOSE k \in S : Cardinality(Lower(S, f, k)) = i - 1]
    BY DEF Ranked
  <1>5. ByStamp(map) = Ranked(S, f)
    <2> HIDE DEF S, f, Under
    <2>1. QED
      BY <1>2, <1>3, <1>4
  <1>6. QED
    BY <1>5, RankedLists DEF Entries

\* Dropping the keys K from the entries takes them out of the list.
LEMMA OnlyIs ==
  ASSUME NEW map, NEW n, Entries(map, n), NEW K
  PROVE  LET m == Only(map, DOMAIN map \ K) IN
         /\ Entries(m, n)
         /\ DOMAIN m = DOMAIN map \ K
         /\ ByStamp(m) = Less(ByStamp(map), K)
         /\ Expired(m) = Expired(map) \ K
  <1> DEFINE m == Only(map, DOMAIN map \ K)
             S == DOMAIN map
             f == Stamps(map)
             q == ByStamp(map)
  <1>1. DOMAIN m = S \ K /\ \A k \in S \ K : m[k] = map[k]
    BY DEF Only
  <1>2. \A k \in S \ K : Stamps(m)[k] = f[k]
    BY <1>1 DEF Stamps
  <1>3. Tells(S, f)
    BY DEF Entries
  <1>4. Tells(S \ K, Stamps(m))
    <2>1. IsFiniteSet(S \ K)
      BY <1>3, FS_Difference DEF Tells
    <2> HIDE DEF S, f, m
    <2>2. QED
      BY <1>2, <1>3, <2>1 DEF Tells
  <1>5. Entries(m, n)
    <2>1. m = [k \in DOMAIN m |-> m[k]]
      BY DEF Only
    <2>2. \A k \in DOMAIN m : /\ m[k] = [expiry |-> m[k].expiry, last_access |-> m[k].last_access]
                              /\ m[k].last_access =< n
      BY <1>1 DEF Entries
    <2> HIDE DEF m, S, f
    <2>3. QED
      BY <1>1, <1>4, <2>1, <2>2 DEF Entries
  <1>6. Lists(q, S, f)
    BY ByStampIs
  <1> HIDE DEF m, S, f, q
  <1>7. Lists(Less(q, K), S \ K, f)
    BY <1>3, <1>6, LessLists
  <1>8. Lists(Less(q, K), S \ K, Stamps(m))
    <2>1. \A i \in 1 .. Cardinality(S \ K) : Less(q, K)[i] \in S \ K
      BY <1>7 DEF Lists
    <2>2. \A i \in 1 .. Cardinality(S \ K) : Stamps(m)[Less(q, K)[i]] = f[Less(q, K)[i]]
      BY <1>2, <2>1
    <2>3. QED
      BY <1>7, <2>2 DEF Lists
  <1>9. ByStamp(m) = Less(q, K)
    BY <1>1, <1>4, <1>5, <1>8, ByStampIs, ListsAreRanked
  <1>10. Expired(m) = Expired(map) \ K
    BY <1>1 DEF Expired, S
  <1>11. QED
    BY <1>1, <1>5, <1>9, <1>10 DEF m, S, q

Ahead(expiry) == expiry # "past"

\* The map with an entry for k that is stamped by the next operation.
Touched(map, k, expiry, n) ==
  [j \in DOMAIN map \cup {k} |-> IF j = k THEN [expiry |-> expiry, last_access |-> n] ELSE map[j]]

PutLast(map, k, m, n) ==
  /\ Entries(m, n)
  /\ DOMAIN m = DOMAIN map \cup {k}
  /\ ByStamp(m) = Append(Less(ByStamp(map), {k}), k)
  /\ Expired(m) = Expired(map) \ {k}

\* It goes to the end of the list.
LEMMA TouchedIs ==
  ASSUME NEW map, NEW n, NEW k, NEW expiry, NEW o, NEW m, n \in Nat, Entries(map, n),
         Ahead(expiry), o = n + 1, m = Touched(map, k, expiry, o)
  PROVE  PutLast(map, k, m, o)
  <1> DEFINE S == DOMAIN map
             f == Stamps(map)
             g == Stamps(m)
             q == ByStamp(map)
             R == S \ {k}
  <1>1. /\ DOMAIN m = S \cup {k} /\ DOMAIN m = R \cup {k}
        /\ m[k] = [expiry |-> expiry, last_access |-> n + 1]
        /\ \A j \in R : m[j] = map[j]
    BY DEF Touched
  <1>2. g[k] = n + 1 /\ \A j \in R : g[j] = f[j]
    BY <1>1 DEF Stamps
  <1>3. Tells(S, f) /\ \A j \in S : f[j] \in Nat /\ f[j] =< n
    BY DEF Entries, Tells, Stamps
  <1>4. IsFiniteSet(R) /\ IsFiniteSet(R \cup {k})
    BY <1>3, FS_RemoveElement, FS_AddElement DEF Tells
  <1>5. Tells(R \cup {k}, g)
    <2>1. \A j \in R : g[j] \in Nat /\ g[j] # n + 1
      BY <1>2, <1>3
    <2>2. \A i, j \in R : g[i] = g[j] => i = j
      BY <1>2, <1>3 DEF Tells
    <2> HIDE DEF R, S, f, g
    <2>3. QED
      BY <1>2, <1>4, <2>1, <2>2 DEF Tells
  <1>6. Entries(m, o)
    <2>1. m = [j \in DOMAIN m |-> m[j]]
      BY DEF Touched
    <2>2. \A j \in DOMAIN m : m[j] = [expiry |-> m[j].expiry, last_access |-> m[j].last_access]
      BY <1>1 DEF Entries
    <2>3. \A j \in DOMAIN m : m[j].last_access =< n + 1
      BY <1>1, <1>3 DEF Stamps
    <2> HIDE DEF S, f, R
    <2>4. QED
      BY <1>1, <1>5, <2>1, <2>2, <2>3 DEF Entries, g
  <1>7. Lists(q, S, f)
    BY ByStampIs
  <1> HIDE DEF S, f, q, g
  <1>8. Lists(Less(q, {k}), R, f)
    BY <1>3, <1>7, LessLists
  <1>9. Lists(Append(Less(q, {k}), k), R \cup {k}, g)
    <2>1. k \notin R
      OBVIOUS
    <2>2. \A j \in R : g[j] = f[j] /\ f[j] < g[k]
      BY <1>2, <1>3
    <2> HIDE DEF R
    <2>3. QED
      BY <1>4, <1>8, <2>1, <2>2, AppendLists
  <1>10. ByStamp(m) = Append(Less(q, {k}), k)
    <2>1. ByStamp(m) = Ranked(R \cup {k}, g)
      BY <1>1, <1>6, ByStampIs DEF g
    <2> HIDE DEF R
    <2>2. QED
      BY <1>5, <1>9, <2>1, ListsAreRanked
  <1>11. Expired(m) = Expired(map) \ {k}
    BY <1>1 DEF Expired, Ahead, S
  <1>12. QED
    BY <1>1, <1>6, <1>10, <1>11 DEF PutLast, S, q

\* LruSpace's operators on what a keyspace shows.

View(map) == [list |-> ByStamp(map), old |-> Expired(map)]

LEMMA SameSize == ASSUME NEW s PROVE \A S : Lru(s)!Cardinality(S) = Cardinality(S)
  BY Zenon DEF Lru!Cardinality, Cardinality

LEMMA MinusIs == ASSUME NEW s, NEW list, NEW K PROVE Lru(s)!Minus(list, K) = Less(list, K)
  <1> DEFINE kept == Left(list, K)
  <1>1. Lru(s)!Minus(list, K)
          = [n \in 1 .. Lru(s)!Cardinality({i \in DOMAIN list : list[i] \notin K}) |->
               list[CHOOSE i \in {i \in DOMAIN list : list[i] \notin K} :
                      Lru(s)!Cardinality({j \in {j \in DOMAIN list : list[j] \notin K} : j < i}) = n - 1]]
    BY DEF Lru!Minus
  <1>2. Lru(s)!Minus(list, K)
          = [n \in 1 .. Lru(s)!Cardinality(kept) |->
               list[CHOOSE i \in kept : Lru(s)!Cardinality({j \in kept : j < i}) = n - 1]]
    BY <1>1, Zenon DEF Left
  <1> HIDE DEF kept
  <1>3. QED
    BY <1>2, SameSize, Zenon DEF Less, kept

LEMMA MembersAre == ASSUME NEW s, NEW list PROVE Lru(s)!Members(list) = {list[i] : i \in DOMAIN list}
  BY DEF Lru!Members

\* The list of a map holds its keys.
LEMMA ListOf ==
  ASSUME NEW map, NEW n, Entries(map, n)
  PROVE  /\ {ByStamp(map)[i] : i \in DOMAIN ByStamp(map)} = DOMAIN map
         /\ Len(ByStamp(map)) = Cardinality(DOMAIN map)
         /\ Cardinality(DOMAIN map) \in Nat /\ IsFiniteSet(DOMAIN map)
         /\ Cardinality(Expired(map)) \in Nat /\ IsFiniteSet(Expired(map))
         /\ Expired(map) \subseteq DOMAIN map
  <1> DEFINE S == DOMAIN map
             q == ByStamp(map)
  <1>1. Lists(q, S, Stamps(map))
    BY ByStampIs
  <1>2. IsFiniteSet(S) /\ Cardinality(S) \in Nat
    BY FS_CardinalityType DEF Entries, Tells
  <1>3. Expired(map) \in SUBSET S
    BY DEF Expired
  <1> HIDE DEF S, q
  <1>4. IsFiniteSet(Expired(map)) /\ Cardinality(Expired(map)) \in Nat
    BY <1>2, <1>3, FS_Subset, FS_CardinalityType
  <1>5. q \in [1 .. Cardinality(S) -> S]
    BY <1>1 DEF Lists
  <1>6. Len(q) = Cardinality(S)
    BY <1>2, <1>5, SeqDef, LenProperties
  <1>7. {q[i] : i \in DOMAIN q} = S
    BY <1>1, <1>5 DEF Lists
  <1>8. QED
    BY <1>2, <1>3, <1>4, <1>6, <1>7 DEF S, q

\* The room LruSpace makes is the room the eviction loop makes.
LEMMA RoomIs ==
  ASSUME NEW s, NEW map, NEW n, Entries(map, n), NEW lim \in Nat, SpaceOf(s).limit = lim
  PROVE  Victims(map, lim) \subseteq Lru(s)!Room(View(map))
  <1> DEFINE S == DOMAIN map
             q == ByStamp(map)
             old == Expired(map)
             excess == Excess(map, lim)
             rest == Less(q, old)
  <1>1. /\ Len(q) = Cardinality(S) /\ Cardinality(S) \in Nat /\ IsFiniteSet(S)
        /\ Cardinality(old) \in Nat /\ IsFiniteSet(old) /\ old \subseteq S
    BY ListOf
  <1>2. excess \in Nat /\ excess =< Cardinality(S)
    BY <1>1 DEF Excess
  <1>3. excess = IF Len(q) > lim THEN Len(q) - lim ELSE 0
    BY <1>1 DEF Excess
  <1> DEFINE f == Stamps(map)
             m == excess - Cardinality(old)
  <1>4. Tells(S, f) /\ Lists(q, S, f)
    BY ByStampIs DEF Entries
  <1>5. Tells(S \ old, f)
    <2>1. IsFiniteSet(S \ old)
      BY <1>1, FS_Difference
    <2> HIDE DEF S, f, old
    <2>2. QED
      BY <1>4, <2>1 DEF Tells
  <1>6. Lists(rest, S \ old, f)
    <2> HIDE DEF S, f, old, q
    <2>1. QED
      BY <1>4, LessLists
  <1>7. Cardinality(S \ old) = Cardinality(S) - Cardinality(old)
    <2>1. S \cap old = old /\ old \cap S = old
      BY <1>1
    <2> HIDE DEF S, old
    <2>2. Cardinality(S \ old) = Cardinality(S) - Cardinality(S \cap old)
      BY <1>1, FS_Difference
    <2>3. QED
      BY <2>1, <2>2
  <1>8. ASSUME ~ excess =< Cardinality(old)
        PROVE  {SubSeq(rest, 1, m)[i] : i \in DOMAIN SubSeq(rest, 1, m)}
                 = Oldest(map, S \ old, m)
    <2>1. m \in Nat /\ m =< Cardinality(S \ old)
      BY <1>1, <1>2, <1>7, <1>8
    <2>2. {SubSeq(rest, 1, m)[i] : i \in DOMAIN SubSeq(rest, 1, m)}
            = {x \in S \ old : Cardinality(Lower(S \ old, f, x)) < m}
      <3> HIDE DEF S, f, old, rest, m
      <3>1. QED
        BY <1>5, <1>6, <2>1, FirstOfList
    <2>3. \A k \in S \ old :
            Lower(S \ old, f, k) = {j \in S \ old : map[j].last_access < map[k].last_access}
      BY DEF Lower, Stamps
    <2>4. QED
      BY <2>2, <2>3, Zenon DEF Oldest
  <1>9. ASSUME NEW K \in Victims(map, lim), excess =< Cardinality(old)
        PROVE  K \in SUBSET old /\ Cardinality(K) = excess
    BY <1>9 DEF Victims
  <1>10. ASSUME NEW K \in Victims(map, lim), ~ excess =< Cardinality(old)
         PROVE  K = old \cup Oldest(map, S \ old, m)
    BY <1>10 DEF Victims
  <1>11. Lru(s)!Room(View(map))
           = IF excess =< Lru(s)!Cardinality(old)
             THEN {K \in SUBSET old : Lru(s)!Cardinality(K) = excess}
             ELSE {old \cup
                     Lru(s)!Members(SubSeq(Lru(s)!Minus(q, old), 1,
                                           excess - Lru(s)!Cardinality(old)))}
    <2>1. View(map).list = q /\ View(map).old = old
      BY DEF View
    <2>2. Lru(s)!Room(View(map))
           = IF (IF Len(View(map).list) > SpaceOf(s).limit
                 THEN Len(View(map).list) - SpaceOf(s).limit ELSE 0)
                  =< Lru(s)!Cardinality(View(map).old)
             THEN {K \in SUBSET View(map).old : Lru(s)!Cardinality(K) =
                    (IF Len(View(map).list) > SpaceOf(s).limit
                     THEN Len(View(map).list) - SpaceOf(s).limit ELSE 0)}
             ELSE {View(map).old \cup
                     Lru(s)!Members(SubSeq(Lru(s)!Minus(View(map).list, View(map).old), 1,
                         (IF Len(View(map).list) > SpaceOf(s).limit
                          THEN Len(View(map).list) - SpaceOf(s).limit ELSE 0)
                           - Lru(s)!Cardinality(View(map).old)))}
      BY Zenon DEF Lru!Room
    <2> HIDE DEF q, old, excess
    <2>3. QED
      BY <1>3, <2>1, <2>2
  <1>12. CASE excess =< Cardinality(old)
    <2>1. Lru(s)!Room(View(map)) = {K \in SUBSET old : Cardinality(K) = excess}
      <3> HIDE DEF q, old, excess, S
      <3>1. QED
        BY <1>11, <1>12, SameSize
    <2> HIDE DEF q, old, excess, S
    <2>2. QED
      BY <1>9, <1>12, <2>1
  <1>13. CASE ~ excess =< Cardinality(old)
    <2>1. Lru(s)!Room(View(map)) = {old \cup Oldest(map, S \ old, m)}
      <3>1. Lru(s)!Cardinality(old) = Cardinality(old)
        BY SameSize
      <3>2. Lru(s)!Minus(q, old) = rest
        BY MinusIs
      <3>3. Lru(s)!Members(SubSeq(rest, 1, m)) = Oldest(map, S \ old, m)
        <4> HIDE DEF rest, m, q, old, S
        <4>1. QED
          BY <1>8, <1>13, MembersAre
      <3> HIDE DEF q, old, excess, S, rest
      <3>4. QED
        BY <1>11, <1>13, <3>1, <3>2, <3>3
    <2> HIDE DEF q, old, excess, S, m
    <2>2. QED
      BY <1>10, <1>13, <2>1
  <1>14. QED
    BY <1>12, <1>13

\* A keyspace in its order, the first n operations done.
Timed(space, n) == Sound(space) /\ space.limit \in Nat /\ Entries(space.map, n)

\* A set is an insertion.
LEMMA SetInserts ==
  ASSUME NEW s, NEW space, NEW n \in Nat, Timed(space, n), SpaceOf(s).limit = space.limit,
         NEW key, NEW expiry \in {"never", "armed"},
         NEW after \in AfterSet(space, key, expiry, n + 1)
  PROVE  /\ Timed(after, n + 1)
         /\ after.limit = space.limit
         /\ View(after.map) \in Lru(s)!Inserted(View(space.map), key)
  <1> DEFINE map == Touched(space.map, key, expiry, n + 1)
             lim == space.limit
             full == View(map)
  <1>1. Entries(space.map, n) /\ lim \in Nat /\ Ahead(expiry)
    BY DEF Timed, Ahead
  <1>2. /\ Entries(map, n + 1)
        /\ ByStamp(map) = Append(Less(ByStamp(space.map), {key}), key)
        /\ Expired(map) = Expired(space.map) \ {key}
    <2> DEFINE o == n + 1
               t == Touched(space.map, key, expiry, o)
    <2>0. t = Touched(space.map, key, expiry, o)
      OBVIOUS
    <2> HIDE DEF lim, o, t
    <2>1. o = n + 1
      BY DEF o
    <2>2. PutLast(space.map, key, t, o)
      BY <1>1, <2>0, <2>1, TouchedIs
    <2>3. QED
      BY <2>2 DEF PutLast, o, t
  <1>3. PICK K \in Victims(map, lim) :
               after = [space EXCEPT !.map = Only(map, DOMAIN map \ K),
                                     !.evictions = @ + Cardinality(K)]
    BY DEF AfterSet, Touched
  <1>4. /\ after = [limit |-> lim, ttl |-> space.ttl, map |-> Only(map, DOMAIN map \ K),
                    evictions |-> space.evictions + Cardinality(K)]
    <2> HIDE DEF map
    <2>1. space = [limit |-> space.limit, ttl |-> space.ttl, map |-> space.map,
                   evictions |-> space.evictions]
      BY DEF Timed, Sound
    <2>2. QED
      BY <1>3, <2>1
  <1> DEFINE m == Only(map, DOMAIN map \ K)
  <1>5. /\ Entries(m, n + 1)
        /\ ByStamp(m) = Less(ByStamp(map), K)
        /\ Expired(m) = Expired(map) \ K
    <2> HIDE DEF map
    <2>1. QED
      BY <1>2, OnlyIs
  <1>6. K \in Lru(s)!Room(full)
    <2> HIDE DEF map, lim
    <2>1. n + 1 \in Nat /\ SpaceOf(s).limit = lim /\ lim \in Nat
      BY <1>1 DEF lim
    <2>2. QED
      BY <1>2, <1>3, <2>1, RoomIs
  <1>7. full = [list |-> Append(Less(ByStamp(space.map), {key}), key),
                old  |-> Expired(space.map) \ {key}]
    BY <1>2 DEF View
  <1>8. View(m) = [list |-> Less(full.list, K), old |-> full.old \ K]
    <2> HIDE DEF map
    <2>1. QED
      BY <1>5 DEF View
  <1>9. View(m) \in Lru(s)!Inserted(View(space.map), key)
    <2> DEFINE c == View(space.map)
               filled == Lru(s)!Contents(Append(Lru(s)!Minus(c.list, {key}), key), c.old \ {key})
    <2>1. \A list, old : Lru(s)!Contents(list, old) = [list |-> list, old |-> old]
      BY DEF Lru!Contents
    <2>2. \A list, J : Lru(s)!Minus(list, J) = Less(list, J)
      BY MinusIs
    <2>3. Lru(s)!Inserted(c, key)
            = {Lru(s)!Contents(Lru(s)!Minus(filled.list, J), filled.old \ J) :
                 J \in Lru(s)!Room(filled)}
      BY DEF Lru!Inserted
    <2>4. c.list = ByStamp(space.map) /\ c.old = Expired(space.map)
      BY DEF View
    <2>5. filled = full
      <3>1. Append(Lru(s)!Minus(c.list, {key}), key) = Append(Less(ByStamp(space.map), {key}), key)
        BY <2>2, <2>4
      <3>2. filled = Lru(s)!Contents(Append(Less(ByStamp(space.map), {key}), key),
                                     Expired(space.map) \ {key})
        BY <2>4, <3>1
      <3> HIDE DEF c, full, filled
      <3>3. QED
        BY <1>7, <2>1, <3>2
    <2>6. Lru(s)!Contents(Lru(s)!Minus(full.list, K), full.old \ K) = View(m)
      <3> HIDE DEF full, m
      <3>1. QED
        BY <1>8, <2>1, <2>2
    <2> HIDE DEF filled, full, c, m
    <2>7. View(m) \in Lru(s)!Inserted(c, key)
      BY <1>6, <2>3, <2>5, <2>6
    <2>8. QED
      BY <2>7 DEF c
  <1>10. IsFiniteSet(DOMAIN m) /\ Cardinality(K) \in Nat
    <2>1. IsFiniteSet(DOMAIN m)
      <3> HIDE DEF m
      <3>1. QED
        BY <1>5, ListOf
    <2>2. K \subseteq DOMAIN map
      <3> HIDE DEF map, lim
      <3>1. Expired(map) \subseteq DOMAIN map
        BY DEF Expired
      <3>2. QED
        BY <1>3, <3>1 DEF Victims, Oldest
    <2>3. IsFiniteSet(DOMAIN map)
      <3> HIDE DEF map
      <3>1. QED
        BY <1>2, ListOf
    <2> HIDE DEF map
    <2>4. QED
      BY <2>1, <2>2, <2>3, FS_Subset, FS_CardinalityType
  <1> HIDE DEF m, map, lim, full
  <1>11. Sound(after) /\ after.limit = lim /\ after.map = m
    <2>1. space.evictions \in Nat /\ space.ttl \in {"never", "armed"}
      BY DEF Timed, Sound
    <2>2. after = [limit |-> lim, ttl |-> space.ttl, map |-> m,
                   evictions |-> space.evictions + Cardinality(K)]
      BY <1>4 DEF m
    <2>3. space.evictions + Cardinality(K) \in Nat
      BY <1>10, <2>1
    <2>4. QED
      BY <1>10, <2>1, <2>2, <2>3 DEF Sound
  <1>12. QED
    BY <1>1, <1>5, <1>9, <1>11 DEF Timed, lim

\* A get is a use.
LEMMA GetUses ==
  ASSUME NEW s, NEW space, NEW n \in Nat, Timed(space, n), NEW key
  PROVE  /\ Timed(AfterGet(space, key, n + 1), n + 1)
         /\ AfterGet(space, key, n + 1).limit = space.limit
         /\ View(AfterGet(space, key, n + 1).map) = Lru(s)!Used(View(space.map), key)
  <1> DEFINE after == AfterGet(space, key, n + 1)
             map == space.map
             c == View(map)
  <1>1. /\ space = [limit |-> space.limit, ttl |-> space.ttl, map |-> map,
                    evictions |-> space.evictions]
        /\ Entries(map, n) /\ Sound(space) /\ space.limit \in Nat
    BY DEF Timed, Sound
  <1>2. c.list = ByStamp(map) /\ c.old = Expired(map) /\ c = [list |-> ByStamp(map), old |-> Expired(map)]
    BY DEF View
  <1>3. Expired(map) \subseteq DOMAIN map /\ IsFiniteSet(DOMAIN map)
    BY <1>1, ListOf
  <1>4. Lru(s)!Members(ByStamp(map)) = DOMAIN map
    BY <1>1, ListOf, MembersAre
  <1>5. /\ key \in Expired(map) =>
             Lru(s)!Used(c, key) = [list |-> Less(ByStamp(map), {key}), old |-> Expired(map) \ {key}]
        /\ key \in DOMAIN map \ Expired(map) =>
             Lru(s)!Used(c, key) = [list |-> Append(Less(ByStamp(map), {key}), key), old |-> Expired(map)]
        /\ key \notin DOMAIN map => Lru(s)!Used(c, key) = c
    <2> HIDE DEF c, map
    <2>1. \A list, old : Lru(s)!Contents(list, old) = [list |-> list, old |-> old]
      BY DEF Lru!Contents
    <2>2. Lru(s)!Minus(ByStamp(map), {key}) = Less(ByStamp(map), {key})
      BY MinusIs
    <2>3. /\ key \in c.old =>
               Lru(s)!Used(c, key) = Lru(s)!Contents(Lru(s)!Minus(c.list, {key}), c.old \ {key})
          /\ key \in Lru(s)!Members(c.list) \ c.old =>
               Lru(s)!Used(c, key) = Lru(s)!Contents(Append(Lru(s)!Minus(c.list, {key}), key), c.old)
          /\ key \notin c.old /\ key \notin Lru(s)!Members(c.list) => Lru(s)!Used(c, key) = c
      BY DEF Lru!Used
    <2>4. c.list = ByStamp(map) /\ c.old = Expired(map)
      BY <1>2
    <2>5. ASSUME key \in Expired(map)
          PROVE  Lru(s)!Used(c, key) = [list |-> Less(ByStamp(map), {key}), old |-> Expired(map) \ {key}]
      <3>1. Lru(s)!Used(c, key) = Lru(s)!Contents(Less(ByStamp(map), {key}), Expired(map) \ {key})
        BY <2>2, <2>3, <2>4, <2>5
      <3>2. QED
        BY <2>1, <3>1
    <2>6. ASSUME key \in DOMAIN map \ Expired(map)
          PROVE  Lru(s)!Used(c, key)
                   = [list |-> Append(Less(ByStamp(map), {key}), key), old |-> Expired(map)]
      <3>1. Lru(s)!Used(c, key) = Lru(s)!Contents(Append(Less(ByStamp(map), {key}), key), Expired(map))
        BY <1>4, <2>2, <2>3, <2>4, <2>6
      <3>2. QED
        BY <2>1, <3>1
    <2>7. key \notin DOMAIN map => Lru(s)!Used(c, key) = c
      BY <1>3, <1>4, <2>3, <2>4
    <2>8. QED
      BY <2>5, <2>6, <2>7
  <1>6. CASE key \notin DOMAIN map
    <2>1. after = space /\ Lru(s)!Used(c, key) = c
      <3>1. after = space
        BY <1>3, <1>6 DEF AfterGet
      <3> HIDE DEF after, c
      <3>2. QED
        BY <1>3, <1>5, <1>6, <3>1
    <2>2. Entries(map, n + 1)
      <3>1. \A k \in DOMAIN map : map[k].last_access =< n + 1
        <4> HIDE DEF map
        <4>1. \A k \in DOMAIN map : map[k].last_access =< n /\ Stamps(map)[k] \in Nat
          BY <1>1 DEF Entries, Tells
        <4>2. QED
          BY <4>1 DEF Stamps
      <3>2. QED
        BY <1>1, <3>1 DEF Entries
    <2> HIDE DEF after, c
    <2>3. QED
      BY <1>1, <2>1, <2>2 DEF Timed, after, c
  <1>7. CASE key \in Expired(map)
    <2> DEFINE m == Only(map, DOMAIN map \ {key})
    <2>1. after = [limit |-> space.limit, ttl |-> space.ttl, map |-> m,
                   evictions |-> space.evictions]
      <3>1. after = [space EXCEPT !.map = m]
        BY <1>3, <1>7 DEF AfterGet
      <3> HIDE DEF m, after
      <3>2. QED
        BY <1>1, <3>1
    <2>2. /\ Entries(m, n) /\ DOMAIN m = DOMAIN map \ {key}
          /\ ByStamp(m) = Less(ByStamp(map), {key})
          /\ Expired(m) = Expired(map) \ {key}
      <3> HIDE DEF map
      <3>1. QED
        BY <1>1, OnlyIs
    <2>3. Entries(m, n + 1)
      <3> HIDE DEF m
      <3>1. \A k \in DOMAIN m : m[k].last_access =< n + 1
        <4>1. \A k \in DOMAIN m : m[k].last_access =< n /\ Stamps(m)[k] \in Nat
          BY <2>2 DEF Entries, Tells
        <4>2. QED
          BY <4>1 DEF Stamps
      <3>2. QED
        BY <2>2, <3>1 DEF Entries
    <2>4. IsFiniteSet(DOMAIN m)
      <3> HIDE DEF m
      <3>1. QED
        BY <2>2, ListOf
    <2> HIDE DEF m
    <2>5. Timed(after, n + 1) /\ after.limit = space.limit /\ after.map = m
      <3> HIDE DEF after
      <3>1. QED
        BY <1>1, <2>1, <2>3, <2>4 DEF Timed, Sound
    <2>6. View(m) = Lru(s)!Used(c, key)
      <3> HIDE DEF c
      <3>1. QED
        BY <1>5, <1>7, <2>2 DEF View
    <2> HIDE DEF after, c
    <2>7. QED
      BY <2>5, <2>6 DEF after, c
  <1>8. CASE key \in DOMAIN map \ Expired(map)
    <2> DEFINE m == Touched(map, key, map[key].expiry, n + 1)
    <2>1. Ahead(map[key].expiry)
      BY <1>8 DEF Expired, Ahead
    <2>2. after = [limit |-> space.limit, ttl |-> space.ttl, map |-> m,
                   evictions |-> space.evictions]
      <3>1. after = [space EXCEPT !.map[key].last_access = n + 1]
        BY <1>8 DEF AfterGet
      <3> DEFINE w == [map EXCEPT ![key].last_access = n + 1]
      <3>2. after = [limit |-> space.limit, ttl |-> space.ttl, map |-> w,
                     evictions |-> space.evictions]
        <4> HIDE DEF after
        <4>1. QED
          BY <1>1, <3>1
      <3>3. w = m
        <4>1. \A j \in DOMAIN map : map[j] = [expiry |-> map[j].expiry, last_access |-> map[j].last_access]
          BY <1>1 DEF Entries
        <4>2. DOMAIN w = DOMAIN map /\ DOMAIN m = DOMAIN map
          BY <1>8 DEF Touched
        <4>3. w = [j \in DOMAIN map |-> w[j]] /\ m = [j \in DOMAIN map |-> m[j]]
          BY <1>8, <4>2 DEF Touched
        <4>4. ASSUME NEW j \in DOMAIN map
              PROVE  w[j] = m[j]
          <5>1. CASE j = key
            <6>1. w[j] = [map[key] EXCEPT !.last_access = n + 1]
              BY <5>1
            <6>2. w[j] = [expiry |-> map[key].expiry, last_access |-> n + 1]
              <7> HIDE DEF w, map
              <7>1. map[key] = [expiry |-> map[key].expiry, last_access |-> map[key].last_access]
                BY <4>1, <5>1
              <7>2. QED
                BY <6>1, <7>1
            <6>3. QED
              BY <5>1, <6>2 DEF Touched
          <5>2. CASE j # key
            BY <5>2 DEF Touched
          <5>3. QED
            BY <5>1, <5>2
        <4> HIDE DEF w, m
        <4>5. QED
          BY <4>3, <4>4
      <3> HIDE DEF after, w, m
      <3>4. QED
        BY <3>2, <3>3
    <2>3. /\ Entries(m, n + 1)
          /\ ByStamp(m) = Append(Less(ByStamp(map), {key}), key)
          /\ Expired(m) = Expired(map) \ {key}
      <3> HIDE DEF map
      <3> DEFINE e == map[key].expiry
      <3>1. Ahead(e)
        BY <2>1
      <3> DEFINE o == n + 1
                 t == Touched(map, key, e, o)
      <3>0. o = n + 1 /\ t = Touched(map, key, e, o)
        OBVIOUS
      <3> HIDE DEF e, o, t
      <3>2. PutLast(map, key, t, o)
        BY <1>1, <3>0, <3>1, TouchedIs
      <3>3. QED
        BY <3>2 DEF PutLast, e, o, t
    <2>4. Expired(m) = Expired(map)
      BY <1>8, <2>3
    <2>5. IsFiniteSet(DOMAIN m)
      <3> HIDE DEF m
      <3>1. QED
        BY <2>3, ListOf
    <2> HIDE DEF m
    <2>6. Timed(after, n + 1) /\ after.limit = space.limit /\ after.map = m
      <3> HIDE DEF after
      <3>1. QED
        BY <1>1, <2>2, <2>3, <2>5 DEF Timed, Sound
    <2>7. View(m) = Lru(s)!Used(c, key)
      <3> HIDE DEF c
      <3>1. QED
        BY <1>5, <1>8, <2>3, <2>4 DEF View
    <2> HIDE DEF after, c
    <2>8. QED
      BY <2>6, <2>7 DEF after, c
  <1>9. QED
    BY <1>6, <1>7, <1>8

\* Every keyspace is in its order, by the one operation counter.
AllTimed ==
  /\ op_seq \in Nat
  /\ keyspaces = [s \in DOMAIN keyspaces |-> keyspaces[s]]
  /\ \A s \in DOMAIN keyspaces : Timed(keyspaces[s], op_seq)

\* A step of keyspace s is none of another one.
OthersStay(s) == \A t : t # s => SpaceOf(t)' = SpaceOf(t)

LEMMA TimedLater ==
  ASSUME NEW space, NEW n \in Nat, NEW o \in Nat, n =< o, Timed(space, n)
  PROVE  Timed(space, o)
  <1> DEFINE map == space.map
  <1>1. Entries(map, n)
    BY DEF Timed
  <1>2. \A k \in DOMAIN map : map[k].last_access =< n /\ map[k].last_access \in Nat
    BY <1>1 DEF Entries, Tells, Stamps
  <1>3. Entries(map, o)
    BY <1>1, <1>2 DEF Entries
  <1>4. QED
    BY <1>3 DEF Timed

LEMMA FreshTimed ==
  ASSUME NEW limit \in Nat, NEW ttl, ttl \in {"never", "armed"}, NEW n
  PROVE  Timed(Fresh(limit, ttl), n)
  <1>1. DOMAIN NoEntries = {} /\ NoEntries = [k \in DOMAIN NoEntries |-> NoEntries[k]]
    BY DEF NoEntries
  <1>2. Entries(NoEntries, n)
    BY <1>1, FS_EmptySet DEF Entries, Tells
  <1>3. QED
    BY <1>1, <1>2, FS_EmptySet DEF Fresh, Timed, Sound

LEMMA SpaceTimed ==
  ASSUME AllTimed, NEW s
  PROVE  Timed(SpaceOf(s), op_seq) /\ op_seq \in Nat
  <1>1. DefaultLimit \in Nat
    BY LimitAssumption
  <1>2. Timed(Fresh(DefaultLimit, "armed"), op_seq)
    BY <1>1, FreshTimed
  <1>3. QED
    BY <1>2 DEF AllTimed, SpaceOf

LEMMA OneMoves ==
  ASSUME AllTimed, NEW s, NEW space, keyspaces' = WithSpace(s, space),
         op_seq' \in Nat, op_seq =< op_seq', Timed(space, op_seq')
  PROVE  AllTimed' /\ OthersStay(s) /\ SpaceOf(s)' = space
  <1>1. /\ DOMAIN keyspaces' = DOMAIN keyspaces \cup {s} /\ keyspaces'[s] = space
        /\ keyspaces' = [t \in DOMAIN keyspaces' |-> keyspaces'[t]]
        /\ \A t \in DOMAIN keyspaces \ {s} : keyspaces'[t] = keyspaces[t]
    BY DEF WithSpace
  <1>2. \A t \in DOMAIN keyspaces : Timed(keyspaces[t], op_seq')
    BY TimedLater DEF AllTimed
  <1>3. \A t \in DOMAIN keyspaces' : Timed(keyspaces'[t], op_seq')
    BY <1>1, <1>2
  <1>4. AllTimed'
    BY <1>1, <1>3 DEF AllTimed
  <1>5. \A t : SpaceOf(t)' = IF t \in DOMAIN keyspaces' THEN keyspaces'[t] ELSE Fresh(DefaultLimit, "armed")
    BY DEF SpaceOf, Fresh, NoEntries
  <1>6. QED
    BY <1>1, <1>4, <1>5 DEF SpaceOf, OthersStay

\* What LruSpace sees of a step of keyspace s.
LEMMA StepShows ==
  ASSUME NEW s, NEW space, SpaceOf(s)' = space, space.limit = SpaceOf(s).limit
  PROVE  Lru(s)!Becomes(View(space.map)) /\ Lru(s)!Now = View(SpaceOf(s).map)
  <1>1. /\ Lru(s)!Becomes(View(space.map))
             <=> /\ ByStamp(SpaceOf(s).map)' = View(space.map).list
                 /\ Expired(SpaceOf(s).map)' = View(space.map).old
                 /\ (SpaceOf(s).limit)' = SpaceOf(s).limit
    BY DEF Lru!Becomes
  <1>2. ByStamp(SpaceOf(s).map)' = ByStamp(space.map)
    BY DEF ByStamp
  <1>3. Expired(SpaceOf(s).map)' = Expired(space.map)
    BY DEF Expired
  <1>4. Lru(s)!Becomes(View(space.map))
    BY <1>1, <1>2, <1>3 DEF View
  <1>5. Lru(s)!Now = View(SpaceOf(s).map)
    BY DEF Lru!Now, Lru!Contents, View
  <1>6. QED
    BY <1>4, <1>5

LEMMA SetIsInsert ==
  ASSUME AllTimed, NEW s \in Keyspaces, NEW key \in Keys, NEW ttl \in {"default", "never", "armed"},
         Set(s, key, ttl)
  PROVE  AllTimed' /\ OthersStay(s) /\ Lru(s)!Insert(key)
  <1> DEFINE space == SpaceOf(s)
             n == op_seq
  <1>1. Timed(space, n) /\ n \in Nat
    BY SpaceTimed
  <1>2. PICK expiry \in {"never", "armed"} :
          \E after \in AfterSet(space, key, expiry, n + 1) : keyspaces' = WithSpace(s, after)
    BY <1>1 DEF Set, Timed, Sound
  <1>3. PICK after \in AfterSet(space, key, expiry, n + 1) : keyspaces' = WithSpace(s, after)
    BY <1>2
  <1>4. op_seq' = n + 1
    BY DEF Set
  <1> HIDE DEF space, n
  <1>5. /\ Timed(after, n + 1) /\ after.limit = space.limit
        /\ View(after.map) \in Lru(s)!Inserted(View(space.map), key)
    <2>1. SpaceOf(s).limit = space.limit
      BY DEF space
    <2>2. QED
      BY <1>1, <2>1, SetInserts
  <1>6. n + 1 \in Nat /\ n =< n + 1
    BY <1>1
  <1>7. AllTimed' /\ OthersStay(s) /\ SpaceOf(s)' = after
    BY <1>3, <1>4, <1>5, <1>6, OneMoves DEF n
  <1>8. Lru(s)!Becomes(View(after.map)) /\ Lru(s)!Now = View(space.map)
    BY <1>5, <1>7, StepShows DEF space
  <1>9. Lru(s)!Insert(key) <=> \E c \in Lru(s)!Inserted(Lru(s)!Now, key) : Lru(s)!Becomes(c)
    BY DEF Lru!Insert
  <1>10. QED
    BY <1>5, <1>7, <1>8, <1>9

LEMMA MSetIsInsert ==
  ASSUME AllTimed, NEW s \in Keyspaces, NEW key1 \in Keys, NEW key2 \in Keys,
         MSet(s, key1, key2, "default")
  PROVE  AllTimed' /\ OthersStay(s) /\ Lru(s)!InsertTwo(key1, key2)
  <1> DEFINE space == SpaceOf(s)
             n == op_seq
             o == n + 1
             expiry == space.ttl
  <1>1. Timed(space, n) /\ n \in Nat
    BY SpaceTimed
  <1>2. expiry \in {"never", "armed"}
    BY <1>1 DEF Timed, Sound
  <1>3. op_seq' = n + 2 /\ n + 2 = o + 1 /\ o \in Nat
    BY <1>1 DEF MSet
  <1>4. PICK once \in AfterSet(space, key1, expiry, n + 1) :
          \E twice \in AfterSet(once, key2, expiry, n + 2) : keyspaces' = WithSpace(s, twice)
    BY DEF MSet
  <1>5. PICK twice \in AfterSet(once, key2, expiry, n + 2) : keyspaces' = WithSpace(s, twice)
    BY <1>4
  <1>6. twice \in AfterSet(once, key2, expiry, o + 1)
    BY <1>3, <1>5
  <1> HIDE DEF space, expiry
  <1>7. /\ Timed(once, n + 1) /\ once.limit = space.limit
        /\ View(once.map) \in Lru(s)!Inserted(View(space.map), key1)
    <2>1. SpaceOf(s).limit = space.limit
      BY DEF space
    <2> HIDE DEF n
    <2>2. QED
      BY <1>1, <1>2, <1>4, <2>1, SetInserts
  <1>8. /\ Timed(twice, o + 1) /\ twice.limit = once.limit
        /\ View(twice.map) \in Lru(s)!Inserted(View(once.map), key2)
    <2>1. SpaceOf(s).limit = once.limit /\ Timed(once, o)
      BY <1>7 DEF space
    <2> HIDE DEF n, o
    <2>2. QED
      BY <1>2, <1>3, <1>6, <2>1, SetInserts
  <1>9. AllTimed' /\ OthersStay(s) /\ SpaceOf(s)' = twice
    <2>1. op_seq' \in Nat /\ op_seq =< op_seq' /\ Timed(twice, op_seq')
      BY <1>1, <1>3, <1>8
    <2>2. QED
      BY <1>5, <2>1, OneMoves
  <1>10. Lru(s)!Becomes(View(twice.map)) /\ Lru(s)!Now = View(space.map)
    BY <1>7, <1>8, <1>9, StepShows DEF space
  <1>11. Lru(s)!InsertTwo(key1, key2)
           <=> \E c \in Lru(s)!Inserted(Lru(s)!Now, key1) :
                 \E d \in Lru(s)!Inserted(c, key2) : Lru(s)!Becomes(d)
    BY DEF Lru!InsertTwo
  <1>12. QED
    BY <1>7, <1>8, <1>9, <1>10, <1>11

\* A keyspace that is not there is an empty one, of which a get makes the same.
LEMMA GetOfNone ==
  ASSUME NEW s, s \notin DOMAIN keyspaces, NEW key, NEW n
  PROVE  AfterGet(SpaceOf(s), key, n) = SpaceOf(s)
  BY DEF SpaceOf, Fresh, NoEntries, AfterGet, Expired

LEMMA NoneMoves ==
  ASSUME AllTimed, NEW s, keyspaces' = keyspaces, op_seq' \in Nat, op_seq =< op_seq'
  PROVE  AllTimed' /\ OthersStay(s) /\ SpaceOf(s)' = SpaceOf(s)
  <1>1. \A t \in DOMAIN keyspaces : Timed(keyspaces[t], op_seq')
    BY TimedLater DEF AllTimed
  <1>2. AllTimed'
    BY <1>1 DEF AllTimed
  <1>3. \A t : SpaceOf(t)' = SpaceOf(t)
    BY DEF SpaceOf, Fresh, NoEntries
  <1>4. QED
    BY <1>2, <1>3 DEF OthersStay

LEMMA GetIsUse ==
  ASSUME AllTimed, NEW s \in Keyspaces, NEW key \in Keys, Get(s, key)
  PROVE  AllTimed' /\ OthersStay(s) /\ Lru(s)!Use(key)
  <1> DEFINE space == SpaceOf(s)
             n == op_seq
             after == AfterGet(space, key, n + 1)
  <1>1. Timed(space, n) /\ n \in Nat
    BY SpaceTimed
  <1>2. op_seq' = n + 1 /\ op_seq' \in Nat /\ op_seq =< op_seq'
    BY <1>1 DEF Get
  <1>3. /\ Timed(after, n + 1) /\ after.limit = space.limit
        /\ View(after.map) = Lru(s)!Used(View(space.map), key)
    <2> HIDE DEF space, n
    <2>1. QED
      BY <1>1, GetUses
  <1>4. AllTimed' /\ OthersStay(s) /\ SpaceOf(s)' = after
    <2>1. CASE s \in DOMAIN keyspaces
      <3>1. keyspaces' = WithSpace(s, after)
        BY <2>1 DEF Get, SpaceOf
      <3> HIDE DEF after
      <3>2. QED
        BY <1>2, <1>3, <3>1, OneMoves
    <2>2. CASE s \notin DOMAIN keyspaces
      <3>1. keyspaces' = keyspaces /\ after = space
        BY <2>2, GetOfNone DEF Get
      <3>2. QED
        BY <1>2, <3>1, NoneMoves
    <2>3. QED
      BY <2>1, <2>2
  <1> HIDE DEF after, n
  <1>5. Lru(s)!Becomes(View(after.map)) /\ Lru(s)!Now = View(space.map)
    BY <1>3, <1>4, StepShows
  <1>6. Lru(s)!Use(key) <=> Lru(s)!Becomes(Lru(s)!Used(Lru(s)!Now, key))
    BY DEF Lru!Use
  <1>7. QED
    BY <1>3, <1>4, <1>5, <1>6

\* GetUses, with its result under one name.
IsUse(s, space, key, after, n) ==
  /\ Timed(after, n) /\ after.limit = space.limit
  /\ View(after.map) = Lru(s)!Used(View(space.map), key)

LEMMA GetUsesOnce ==
  ASSUME NEW s, NEW space, NEW n, NEW key, n \in Nat, Timed(space, n)
  PROVE  IsUse(s, space, key, AfterGet(space, key, n + 1), n + 1)
  BY GetUses DEF IsUse

LEMMA MGetIsUse ==
  ASSUME AllTimed, NEW s \in Keyspaces, NEW key1 \in Keys, NEW key2 \in Keys, MGet(s, key1, key2)
  PROVE  AllTimed' /\ OthersStay(s) /\ Lru(s)!UseTwo(key1, key2)
  <1> DEFINE space == SpaceOf(s)
             n == op_seq
             o == n + 1
             once == AfterGet(space, key1, n + 1)
             twice == AfterGet(once, key2, n + 2)
  <1>1. Timed(space, n) /\ n \in Nat
    BY SpaceTimed
  <1>2. /\ op_seq' = n + 2 /\ op_seq' \in Nat /\ op_seq =< op_seq'
        /\ n + 2 = o + 1 /\ o \in Nat
    BY <1>1 DEF MGet
  <1>3. /\ Timed(once, o) /\ once.limit = space.limit
        /\ View(once.map) = Lru(s)!Used(View(space.map), key1)
    <2> HIDE DEF space, n
    <2>1. QED
      BY <1>1, GetUses
  <1>4. twice = AfterGet(once, key2, o + 1)
    <2> HIDE DEF once
    <2>1. QED
      BY <1>2
  <1>5. /\ Timed(twice, o + 1) /\ twice.limit = once.limit
        /\ View(twice.map) = Lru(s)!Used(View(once.map), key2)
    <2> HIDE DEF once, o, twice
    <2>1. IsUse(s, once, key2, AfterGet(once, key2, o + 1), o + 1)
      BY <1>2, <1>3, GetUsesOnce
    <2>2. QED
      BY <1>4, <2>1 DEF IsUse
  <1>6. AllTimed' /\ OthersStay(s) /\ SpaceOf(s)' = twice
    <2>1. CASE s \in DOMAIN keyspaces
      <3>1. keyspaces' = WithSpace(s, twice)
        BY <2>1 DEF MGet, SpaceOf
      <3>2. Timed(twice, op_seq')
        <4> HIDE DEF twice
        <4>1. QED
          BY <1>2, <1>5
      <3> HIDE DEF twice
      <3>3. QED
        BY <1>2, <3>1, <3>2, OneMoves
    <2>2. CASE s \notin DOMAIN keyspaces
      <3>1. keyspaces' = keyspaces /\ once = space /\ AfterGet(space, key2, n + 2) = space
        BY <2>2, GetOfNone DEF MGet
      <3>2. twice = space
        <4> HIDE DEF once
        <4>1. QED
          BY <3>1
      <3>3. QED
        BY <1>2, <3>1, <3>2, NoneMoves
    <2>3. QED
      BY <2>1, <2>2
  <1> HIDE DEF once, twice, o, n
  <1>7. Lru(s)!Becomes(View(twice.map)) /\ Lru(s)!Now = View(space.map)
    BY <1>3, <1>5, <1>6, StepShows
  <1>8. Lru(s)!UseTwo(key1, key2)
          <=> Lru(s)!Becomes(Lru(s)!Used(Lru(s)!Used(Lru(s)!Now, key1), key2))
    BY DEF Lru!UseTwo
  <1>9. QED
    BY <1>3, <1>5, <1>6, <1>7, <1>8

LEMMA EnsureIsDeclare ==
  ASSUME AllTimed, NEW s \in Keyspaces, NEW limit \in Limits, NEW ttl \in {"never", "armed"},
         EnsureKeyspace(s, limit, ttl)
  PROVE  AllTimed' /\ OthersStay(s) /\ Lru(s)!Declare
  <1> DEFINE old == SpaceOf(s)
             space == [limit |-> limit, ttl |-> ttl, map |-> old.map, evictions |-> old.evictions]
  <1>1. Timed(old, op_seq) /\ op_seq \in Nat /\ op_seq' = op_seq
    BY SpaceTimed DEF EnsureKeyspace
  <1>2. keyspaces' = WithSpace(s, space)
    <2>1. CASE s \in DOMAIN keyspaces
      <3>1. keyspaces' = WithSpace(s, [keyspaces[s] EXCEPT !.limit = limit, !.ttl = ttl])
        BY <2>1 DEF EnsureKeyspace
      <3>2. keyspaces[s] = old
        BY <2>1 DEF SpaceOf
      <3>3. [old EXCEPT !.limit = limit, !.ttl = ttl] = space
        <4> HIDE DEF old
        <4>1. old = [limit |-> old.limit, ttl |-> old.ttl, map |-> old.map,
                     evictions |-> old.evictions]
          BY <1>1 DEF Timed, Sound
        <4> DEFINE l == [old EXCEPT !.limit = limit]
        <4>2. l = [limit |-> limit, ttl |-> old.ttl, map |-> old.map,
                   evictions |-> old.evictions]
          BY <4>1
        <4> HIDE DEF l
        <4>3. [l EXCEPT !.ttl = ttl] = space
          BY <4>2
        <4>4. QED
          BY <4>3 DEF l
      <3> HIDE DEF space, old
      <3>4. QED
        BY <3>1, <3>2, <3>3
    <2>2. CASE s \notin DOMAIN keyspaces
      <3>1. space = Fresh(limit, ttl)
        BY <2>2 DEF SpaceOf, Fresh
      <3> HIDE DEF space
      <3>2. QED
        BY <2>2, <3>1 DEF EnsureKeyspace
    <2>3. QED
      BY <2>1, <2>2
  <1> HIDE DEF old
  <1>3. Timed(space, op_seq') /\ space.limit \in Nat
    <2>1. limit \in Nat
      BY LimitAssumption
    <2>2. QED
      BY <1>1, <2>1 DEF Timed, Sound
  <1>4. space.map = old.map
    OBVIOUS
  <1> HIDE DEF space
  <1>5. AllTimed' /\ OthersStay(s) /\ SpaceOf(s)' = space
    BY <1>1, <1>2, <1>3, OneMoves
  <1>6. /\ ByStamp(SpaceOf(s).map)' = ByStamp(space.map)
        /\ Expired(SpaceOf(s).map)' = Expired(space.map)
        /\ (SpaceOf(s).limit)' = space.limit
    BY <1>5 DEF ByStamp, Expired
  <1>7. Lru(s)!Declare
          <=> /\ (SpaceOf(s).limit)' \in Nat
              /\ ByStamp(SpaceOf(s).map)' = ByStamp(SpaceOf(s).map)
              /\ Expired(SpaceOf(s).map)' = Expired(SpaceOf(s).map)
    BY DEF Lru!Declare
  <1>8. QED
    BY <1>3, <1>4, <1>5, <1>6, <1>7 DEF old

LEMMA InvalidateIsRemove ==
  ASSUME AllTimed, NEW s \in Keyspaces, NEW K \in SUBSET Keys, Invalidate(s, K)
  PROVE  AllTimed' /\ OthersStay(s) /\ Lru(s)!Remove(K)
  <1> DEFINE old == SpaceOf(s)
             map == old.map
             m == Only(map, DOMAIN map \ K)
             space == [limit |-> old.limit, ttl |-> old.ttl, map |-> m, evictions |-> old.evictions]
  <1>1. Timed(old, op_seq) /\ op_seq \in Nat /\ op_seq' = op_seq
    BY SpaceTimed DEF Invalidate
  <1>2. keyspaces' = WithSpace(s, space)
    <2>1. s \in DOMAIN keyspaces /\ keyspaces[s] = old
      BY DEF Invalidate, SpaceOf
    <2>2. keyspaces' = WithSpace(s, [old EXCEPT !.map = Only(@, DOMAIN @ \ K)])
      <3> HIDE DEF old
      <3>1. QED
        BY <2>1 DEF Invalidate
    <2>3. [old EXCEPT !.map = Only(@, DOMAIN @ \ K)] = space
      <3> HIDE DEF old
      <3>1. QED
        BY <1>1 DEF Timed, Sound
    <2> HIDE DEF space, old
    <2>4. QED
      BY <2>2, <2>3
  <1> HIDE DEF old
  <1>3. /\ Entries(m, op_seq) /\ DOMAIN m = DOMAIN map \ K
        /\ ByStamp(m) = Less(ByStamp(map), K)
        /\ Expired(m) = Expired(map) \ K
    <2>1. Entries(map, op_seq)
      BY <1>1 DEF Timed
    <2> HIDE DEF map
    <2>2. QED
      BY <2>1, OnlyIs
  <1>4. IsFiniteSet(DOMAIN m)
    <2> HIDE DEF m
    <2>1. QED
      BY <1>3, ListOf
  <1> HIDE DEF m
  <1>5. Timed(space, op_seq') /\ space.limit = old.limit /\ space.map = m
    BY <1>1, <1>3, <1>4 DEF Timed, Sound
  <1> HIDE DEF space
  <1>6. AllTimed' /\ OthersStay(s) /\ SpaceOf(s)' = space
    BY <1>1, <1>2, <1>5, OneMoves
  <1>7. /\ ByStamp(SpaceOf(s).map)' = ByStamp(space.map)
        /\ Expired(SpaceOf(s).map)' = Expired(space.map)
        /\ (SpaceOf(s).limit)' = space.limit
    BY <1>6 DEF ByStamp, Expired
  <1>8. Lru(s)!Remove(K)
          <=> /\ ByStamp(SpaceOf(s).map)' = Lru(s)!Minus(ByStamp(SpaceOf(s).map), K)
              /\ Expired(SpaceOf(s).map)' = Expired(SpaceOf(s).map) \ K
              /\ (SpaceOf(s).limit)' = SpaceOf(s).limit
    BY DEF Lru!Remove
  <1>9. Lru(s)!Minus(ByStamp(SpaceOf(s).map), K) = Less(ByStamp(SpaceOf(s).map), K)
    BY MinusIs
  <1>10. QED
    BY <1>3, <1>5, <1>6, <1>7, <1>8, <1>9 DEF old

LEMMA ExpireIsExpire ==
  ASSUME AllTimed, NEW s \in Keyspaces, NEW key \in Keys, Expire(s, key)
  PROVE  AllTimed' /\ OthersStay(s) /\ Lru(s)!Expire
  <1> DEFINE old == SpaceOf(s)
             map == old.map
             m == [map EXCEPT ![key].expiry = "past"]
             space == [limit |-> old.limit, ttl |-> old.ttl, map |-> m, evictions |-> old.evictions]
  <1>1. Timed(old, op_seq) /\ op_seq \in Nat /\ op_seq' = op_seq
    BY SpaceTimed DEF Expire
  <1>2. s \in DOMAIN keyspaces /\ keyspaces[s] = old /\ key \in DOMAIN map
    BY DEF Expire, SpaceOf
  <1>3. keyspaces' = WithSpace(s, space)
    <2> DEFINE moved == [old EXCEPT !.map[key].expiry = "past"]
    <2> HIDE DEF old
    <2>1. keyspaces' = [keyspaces EXCEPT ![s] = moved]
      BY <1>2 DEF Expire
    <2>2. moved = space
      BY <1>1 DEF Timed, Sound
    <2> HIDE DEF space, moved
    <2>3. QED
      BY <1>2, <2>1, <2>2 DEF WithSpace, AllTimed
  <1> HIDE DEF old
  <1>4. Entries(map, op_seq)
    BY <1>1 DEF Timed
  <1>5. /\ DOMAIN m = DOMAIN map
        /\ m = [k \in DOMAIN m |-> m[k]]
        /\ \A k \in DOMAIN map : k # key => m[k] = map[k]
        /\ m[key] = [expiry |-> "past", last_access |-> map[key].last_access]
    <2>1. map[key] = [expiry |-> map[key].expiry, last_access |-> map[key].last_access]
      BY <1>2, <1>4 DEF Entries
    <2>2. m[key] = [map[key] EXCEPT !.expiry = "past"]
      BY <1>2
    <2>3. m[key] = [expiry |-> "past", last_access |-> map[key].last_access]
      <3> HIDE DEF m
      <3>1. QED
        BY <2>1, <2>2
    <2>4. /\ DOMAIN m = DOMAIN map
          /\ m = [k \in DOMAIN m |-> m[k]]
          /\ \A k \in DOMAIN map : k # key => m[k] = map[k]
      <3> HIDE DEF map
      <3>1. QED
        BY <1>4 DEF Entries
    <2>5. QED
      BY <2>3, <2>4
  <1> HIDE DEF m
  <1>6. \A k \in DOMAIN map : m[k].last_access = map[k].last_access
    BY <1>5
  <1>7. Stamps(m) = Stamps(map)
    <2> HIDE DEF map
    <2>1. QED
      BY <1>5, <1>6 DEF Stamps
  <1>8. Entries(m, op_seq)
    <2> HIDE DEF map
    <2>1. \A k \in DOMAIN m : m[k] = [expiry |-> m[k].expiry, last_access |-> m[k].last_access]
      BY <1>4, <1>5 DEF Entries
    <2>2. QED
      BY <1>4, <1>5, <1>6, <1>7, <2>1 DEF Entries
  <1>9. ByStamp(m) = ByStamp(map)
    <2> HIDE DEF map
    <2>1. QED
      BY <1>4, <1>5, <1>7, <1>8, ByStampIs
  <1>10. Expired(map) \subseteq Expired(m) /\ Expired(m) \subseteq DOMAIN map
    BY <1>5 DEF Expired
  <1>11. Lru(s)!Members(ByStamp(map)) = DOMAIN map /\ IsFiniteSet(DOMAIN map)
    <2> HIDE DEF map
    <2>1. QED
      BY <1>4, ListOf, MembersAre
  <1>12. Timed(space, op_seq') /\ space.limit = old.limit /\ space.map = m
    BY <1>1, <1>5, <1>8, <1>11 DEF Timed, Sound
  <1> HIDE DEF space
  <1>13. AllTimed' /\ OthersStay(s) /\ SpaceOf(s)' = space
    BY <1>1, <1>3, <1>12, OneMoves
  <1>14. /\ ByStamp(SpaceOf(s).map)' = ByStamp(space.map)
         /\ Expired(SpaceOf(s).map)' = Expired(space.map)
         /\ (SpaceOf(s).limit)' = space.limit
    BY <1>13 DEF ByStamp, Expired
  <1>15. Lru(s)!Expire
           <=> /\ Expired(SpaceOf(s).map)' \subseteq Lru(s)!Members(ByStamp(SpaceOf(s).map))
               /\ Expired(SpaceOf(s).map) \subseteq Expired(SpaceOf(s).map)'
               /\ ByStamp(SpaceOf(s).map)' = ByStamp(SpaceOf(s).map)
               /\ (SpaceOf(s).limit)' = SpaceOf(s).limit
    BY DEF Lru!Expire
  <1>16. QED
    BY <1>9, <1>10, <1>11, <1>12, <1>13, <1>14, <1>15 DEF old

\* The steps of LruSpace a keyspace may make.
LEMMA LruMoves ==
  ASSUME NEW s, NEW key1 \in Keys, NEW key2 \in Keys, NEW K \in SUBSET Keys,
         \/ Lru(s)!Declare \/ Lru(s)!Expire \/ Lru(s)!Use(key1) \/ Lru(s)!Insert(key1)
         \/ Lru(s)!UseTwo(key1, key2) \/ Lru(s)!InsertTwo(key1, key2) \/ Lru(s)!Remove(K)
  PROVE  Lru(s)!Next
  BY DEF Lru!Next

LEMMA LruStays ==
  ASSUME NEW s, SpaceOf(s)' = SpaceOf(s)
  PROVE  UNCHANGED Lru(s)!vars
  <1>1. /\ ByStamp(SpaceOf(s).map)' = ByStamp(SpaceOf(s).map)
        /\ Expired(SpaceOf(s).map)' = Expired(SpaceOf(s).map)
        /\ (SpaceOf(s).limit)' = SpaceOf(s).limit
    BY DEF ByStamp, Expired
  <1>2. QED
    BY <1>1 DEF Lru!vars

LruStep ==
  \A s \in Keyspaces :
    /\ [Lru(s)!Next]_(Lru(s)!vars)
    /\ \A k \in Keys : Get(s, k) => Lru(s)!Use(k)
    /\ \A j, k \in Keys : MGet(s, j, k) => Lru(s)!UseTwo(j, k)

LEMMA NextIsLru ==
  ASSUME AllTimed, Next
  PROVE  AllTimed' /\ LruStep
  <1>1. ASSUME NEW s \in Keyspaces, AllTimed', OthersStay(s), Lru(s)!Next
        PROVE  AllTimed' /\ \A t \in Keyspaces : [Lru(t)!Next]_(Lru(t)!vars)
    <2>1. ASSUME NEW t \in Keyspaces, t # s
          PROVE  UNCHANGED Lru(t)!vars
      BY <1>1, <2>1, LruStays DEF OthersStay
    <2>2. QED
      BY <1>1, <2>1
  <1>2. AllTimed' /\ \A t \in Keyspaces : [Lru(t)!Next]_(Lru(t)!vars)
    <2>1. ASSUME NEW s \in Keyspaces, NEW limit \in Limits, NEW ttl \in {"never", "armed"},
                 EnsureKeyspace(s, limit, ttl)
          PROVE  AllTimed' /\ \A t \in Keyspaces : [Lru(t)!Next]_(Lru(t)!vars)
      <3>1. AllTimed' /\ OthersStay(s) /\ Lru(s)!Declare
        BY <2>1, EnsureIsDeclare
      <3>2. Lru(s)!Next
        BY <3>1 DEF Lru!Next
      <3>3. QED
        BY <1>1, <3>1, <3>2
    <2>2. ASSUME NEW s \in Keyspaces, NEW key \in Keys, NEW ttl \in {"default", "never", "armed"},
                 Set(s, key, ttl)
          PROVE  AllTimed' /\ \A t \in Keyspaces : [Lru(t)!Next]_(Lru(t)!vars)
      <3>1. AllTimed' /\ OthersStay(s) /\ Lru(s)!Insert(key)
        BY <2>2, SetIsInsert
      <3>2. Lru(s)!Next
        BY <3>1 DEF Lru!Next
      <3>3. QED
        BY <1>1, <3>1, <3>2
    <2>3. ASSUME NEW s \in Keyspaces, NEW key \in Keys, Get(s, key)
          PROVE  AllTimed' /\ \A t \in Keyspaces : [Lru(t)!Next]_(Lru(t)!vars)
      <3>1. AllTimed' /\ OthersStay(s) /\ Lru(s)!Use(key)
        BY <2>3, GetIsUse
      <3>2. Lru(s)!Next
        BY <3>1 DEF Lru!Next
      <3>3. QED
        BY <1>1, <3>1, <3>2
    <2>4. ASSUME NEW s \in Keyspaces, NEW key \in Keys, Expire(s, key)
          PROVE  AllTimed' /\ \A t \in Keyspaces : [Lru(t)!Next]_(Lru(t)!vars)
      <3>1. AllTimed' /\ OthersStay(s) /\ Lru(s)!Expire
        BY <2>4, ExpireIsExpire
      <3>2. Lru(s)!Next
        BY <3>1 DEF Lru!Next
      <3>3. QED
        BY <1>1, <3>1, <3>2
    <2>5. ASSUME NEW s \in Keyspaces, NEW key1 \in Keys, NEW key2 \in Keys,
                 MSet(s, key1, key2, "default")
          PROVE  AllTimed' /\ \A t \in Keyspaces : [Lru(t)!Next]_(Lru(t)!vars)
      <3>1. AllTimed' /\ OthersStay(s) /\ Lru(s)!InsertTwo(key1, key2)
        BY <2>5, MSetIsInsert
      <3>2. Lru(s)!Next
        BY <3>1 DEF Lru!Next
      <3>3. QED
        BY <1>1, <3>1, <3>2
    <2>6. ASSUME NEW s \in Keyspaces, NEW key1 \in Keys, NEW key2 \in Keys, MGet(s, key1, key2)
          PROVE  AllTimed' /\ \A t \in Keyspaces : [Lru(t)!Next]_(Lru(t)!vars)
      <3>1. AllTimed' /\ OthersStay(s) /\ Lru(s)!UseTwo(key1, key2)
        BY <2>6, MGetIsUse
      <3>2. Lru(s)!Next
        BY <3>1 DEF Lru!Next
      <3>3. QED
        BY <1>1, <3>1, <3>2
    <2>7. ASSUME NEW s \in Keyspaces, NEW K \in SUBSET Keys, Invalidate(s, K)
          PROVE  AllTimed' /\ \A t \in Keyspaces : [Lru(t)!Next]_(Lru(t)!vars)
      <3>1. AllTimed' /\ OthersStay(s) /\ Lru(s)!Remove(K)
        BY <2>7, InvalidateIsRemove
      <3>2. Lru(s)!Next
        BY <3>1 DEF Lru!Next
      <3>3. QED
        BY <1>1, <3>1, <3>2
    <2>8. QED
      BY <2>1, <2>2, <2>3, <2>4, <2>5, <2>6, <2>7 DEF Next
  <1>3. \A s \in Keyspaces : \A k \in Keys : Get(s, k) => Lru(s)!Use(k)
    BY GetIsUse
  <1>4. \A s \in Keyspaces : \A j, k \in Keys : MGet(s, j, k) => Lru(s)!UseTwo(j, k)
    BY MGetIsUse
  <1>5. QED
    BY <1>2, <1>3, <1>4 DEF LruStep

LEMMA LruBegins ==
  ASSUME Init
  PROVE  AllTimed /\ \A s \in Keyspaces : Lru(s)!Init
  <1>1. AllTimed
    BY DEF Init, AllTimed
  <1>2. ASSUME NEW s \in Keyspaces
        PROVE  Lru(s)!Init
    <2>1. SpaceOf(s) = Fresh(DefaultLimit, "armed") /\ DefaultLimit \in Nat
      BY LimitAssumption DEF Init, SpaceOf
    <2>2. SpaceOf(s).map = NoEntries /\ SpaceOf(s).limit \in Nat
      BY <2>1 DEF Fresh
    <2>3. DOMAIN NoEntries = {} /\ Cardinality({}) = 0
      BY FS_EmptySet DEF NoEntries
    <2>4. ByStamp(NoEntries) = <<>>
      BY <2>3 DEF ByStamp
    <2>5. Expired(NoEntries) = {}
      BY <2>3 DEF Expired
    <2>6. Lru(s)!Init <=> /\ ByStamp(SpaceOf(s).map) = <<>>
                          /\ Expired(SpaceOf(s).map) = {}
                          /\ SpaceOf(s).limit \in Nat
      BY DEF Lru!Init
    <2>7. QED
      BY <2>2, <2>4, <2>5, <2>6
  <1>3. QED
    BY <1>1, <1>2

\* Each keyspace behaves as a bounded list of its own would, its keys least recently used
\* first, although all of them take their stamps from one counter.
THEOREM KeyspacesImplementLru == MCSpec => KeyspacesAreLru
  <1>1. MCInit => AllTimed /\ \A s \in Keyspaces : Lru(s)!Init
    BY LruBegins DEF MCInit
  <1>2. AllTimed /\ [Next]_vars => AllTimed' /\ [LruStep]_vars
    <2>1. CASE UNCHANGED vars
      BY <2>1 DEF vars, AllTimed
    <2>2. ASSUME AllTimed, Next
          PROVE  AllTimed' /\ LruStep
      BY <2>2, NextIsLru
    <2>3. QED
      BY <2>1, <2>2
  <1>3. [MCNext]_<<focus, vars, dbVars, redisVars, objectVars>> => [Next]_vars
    BY DEF MCNext, In
  <1>4. [][LruStep]_vars <=> [][\A s \in Keyspaces :
          /\ [Lru(s)!Next]_(Lru(s)!vars)
          /\ \A k \in Keys : Get(s, k) => Lru(s)!Use(k)
          /\ \A j, k \in Keys : MGet(s, j, k) => Lru(s)!UseTwo(j, k)]_vars
    BY PTL DEF LruStep
  <1>5. QED
    BY <1>1, <1>2, <1>3, <1>4, PTL DEF MCSpec, KeyspacesAreLru

---------------------------------------------------------------------------------
(***************************************************************************)
(* The embedded key-value library: ExpiredStaysExpired, NoDirtyWrites and  *)
(* LaterOpWins.                                                            *)
(***************************************************************************)

\* A store maps namespaces to maps from keys to entries.
Shaped(s) ==
  /\ s = [n \in DOMAIN s |-> s[n]]
  /\ \A n \in DOMAIN s :
       /\ s[n] = [k \in DOMAIN s[n] |-> s[n][k]]
       /\ DOMAIN s[n] \subseteq DbKeys
       /\ \A k \in DOMAIN s[n] : s[n][k] = [value |-> s[n][k].value, expiry |-> s[n][k].expiry]

\* The entry t has under (ns, key) is the one s had.
Stays(s, t, ns, key) == Database!Has(s, ns, key) /\ t[ns][key] = s[ns][key]

\* A put writes one entry; every other one was there.
LEMMA PutInEffect ==
  ASSUME NEW s, Shaped(s), NEW ns, NEW key \in DbKeys, NEW value, NEW expiry
  PROVE  LET t == Database!PutIn(s, ns, key, value, expiry) IN
         /\ Shaped(t)
         /\ \A n, k : Database!Has(t, n, k) =>
              IF n = ns /\ k = key THEN t[n][k] = [value |-> value, expiry |-> expiry]
              ELSE Stays(s, t, n, k)
  <1> DEFINE old == Database!Space(s, ns)
             entry == [value |-> value, expiry |-> expiry]
             space == [k \in DOMAIN old \cup {key} |-> IF k = key THEN entry ELSE s[ns][k]]
             t == Database!PutIn(s, ns, key, value, expiry)
  <1>1. t = [n \in DOMAIN s \cup {ns} |-> IF n = ns THEN space ELSE s[n]]
    BY DEF Database!PutIn, Database!WithSpace
  <1>2. /\ ns \in DOMAIN s => old = s[ns]
        /\ ns \notin DOMAIN s => DOMAIN old = {}
    BY DEF Database!Space, Database!NoEntries
  <1>3. /\ DOMAIN t = DOMAIN s \cup {ns}
        /\ t[ns] = space
        /\ \A n \in DOMAIN s \ {ns} : t[n] = s[n]
    BY <1>1
  <1>4. /\ DOMAIN space = DOMAIN old \cup {key}
        /\ space[key] = entry
        /\ \A k \in DOMAIN old \ {key} : space[k] = s[ns][k]
        /\ space = [k \in DOMAIN space |-> space[k]]
    OBVIOUS
  <1>5. t = [n \in DOMAIN t |-> t[n]]
    BY <1>1
  <1> HIDE DEF t, space, old
  <1>6. Shaped(t)
    <2>1. ASSUME NEW n \in DOMAIN t
          PROVE  /\ t[n] = [k \in DOMAIN t[n] |-> t[n][k]]
                 /\ DOMAIN t[n] \subseteq DbKeys
                 /\ \A k \in DOMAIN t[n] : t[n][k] = [value |-> t[n][k].value, expiry |-> t[n][k].expiry]
      <3>1. CASE n = ns
        <4>1. DOMAIN old \subseteq DbKeys
          BY <1>2 DEF Shaped
        <4>2. \A k \in DOMAIN old : s[ns][k] = [value |-> s[ns][k].value, expiry |-> s[ns][k].expiry]
          BY <1>2 DEF Shaped
        <4>3. QED
          BY <3>1, <4>1, <4>2, <1>3, <1>4
      <3>2. CASE n # ns
        BY <3>2, <1>3 DEF Shaped
      <3>3. QED
        BY <3>1, <3>2
    <2>2. QED
      BY <1>5, <2>1 DEF Shaped
  <1>7. ASSUME NEW n, NEW k, Database!Has(t, n, k)
        PROVE  IF n = ns /\ k = key THEN t[n][k] = entry ELSE Stays(s, t, n, k)
    <2>1. n \in DOMAIN t /\ k \in DOMAIN t[n]
      BY <1>7 DEF Database!Has, Database!Space, Database!NoEntries
    <2>2. CASE n = ns
      <3>1. k \in DOMAIN old => ns \in DOMAIN s /\ k \in DOMAIN s[ns]
        BY <1>2
      <3>2. QED
        BY <2>1, <2>2, <3>1, <1>3, <1>4 DEF Stays, Database!Has, Database!Space
    <2>3. CASE n # ns
      BY <2>1, <2>3, <1>3 DEF Stays, Database!Has, Database!Space
    <2>4. QED
      BY <2>2, <2>3
  <1>8. QED
    BY <1>6, <1>7 DEF t

\* A removal keeps the entries it is not about.
LEMMA WithoutEffect ==
  ASSUME NEW s, Shaped(s), NEW ns, NEW K
  PROVE  LET t == Database!Without(s, ns, K) IN
         /\ Shaped(t)
         /\ \A n, k : Database!Has(t, n, k) => Stays(s, t, n, k) /\ ~(n = ns /\ k \in K)
  <1> DEFINE t == Database!Without(s, ns, K)
  <1>1. /\ t = [n \in DOMAIN t |-> t[n]] /\ DOMAIN t = DOMAIN s
        /\ \A n \in DOMAIN s : t[n] = IF n = ns THEN [k \in DOMAIN s[n] \ K |-> s[n][k]] ELSE s[n]
    BY DEF Database!Without
  <1> HIDE DEF t
  <1>2. ASSUME NEW n \in DOMAIN s
        PROVE  /\ DOMAIN t[n] \subseteq DOMAIN s[n]
               /\ n = ns => DOMAIN t[n] \cap K = {}
               /\ \A k \in DOMAIN t[n] : t[n][k] = s[n][k]
               /\ t[n] = [k \in DOMAIN t[n] |-> t[n][k]]
    <2>1. CASE n = ns
      <3>1. t[n] = [k \in DOMAIN s[n] \ K |-> s[n][k]]
        BY <1>1, <2>1
      <3>2. QED
        BY <3>1
    <2>2. CASE n # ns
      <3>1. t[n] = s[n] /\ s[n] = [k \in DOMAIN s[n] |-> s[n][k]]
        BY <1>1, <2>2 DEF Shaped
      <3>2. QED
        BY <2>2, <3>1
    <2>3. QED
      BY <2>1, <2>2
  <1>3. Shaped(t)
    <2>1. ASSUME NEW n \in DOMAIN t
          PROVE  /\ t[n] = [k \in DOMAIN t[n] |-> t[n][k]]
                 /\ DOMAIN t[n] \subseteq DbKeys
                 /\ \A k \in DOMAIN t[n] : t[n][k] = [value |-> t[n][k].value, expiry |-> t[n][k].expiry]
      <3>1. /\ DOMAIN s[n] \subseteq DbKeys
            /\ \A k \in DOMAIN s[n] : s[n][k] = [value |-> s[n][k].value, expiry |-> s[n][k].expiry]
        BY <1>1 DEF Shaped
      <3>2. QED
        BY <1>1, <1>2, <3>1
    <2>2. QED
      BY <1>1, <2>1 DEF Shaped
  <1>4. ASSUME NEW n, NEW k, Database!Has(t, n, k)
        PROVE  Stays(s, t, n, k) /\ ~(n = ns /\ k \in K)
    <2>1. n \in DOMAIN s /\ k \in DOMAIN t[n]
      BY <1>1, <1>4 DEF Database!Has, Database!Space, Database!NoEntries
    <2>2. k \in DOMAIN s[n] /\ t[n][k] = s[n][k] /\ ~(n = ns /\ k \in K)
      BY <1>2, <2>1
    <2>3. QED
      BY <2>1, <2>2 DEF Stays, Database!Has, Database!Space
  <1>5. QED
    BY <1>3, <1>4 DEF t

\* An operation that carries a value.
Writes(op) == op.op \in {"put", "put_ttl"}

\* An applied operation leaves what it does not hit, and writes its own value only.
LEMMA ApplyEffect ==
  ASSUME NEW s, Shaped(s), NEW op \in Database!Ops
  PROVE  LET t == Database!Apply(s, op) IN
         /\ Shaped(t)
         /\ \A n, k : Database!Has(t, n, k) =>
              \/ Stays(s, t, n, k) /\ ~Database!Hits(op, n, k)
              \/ Writes(op) /\ t[n][k].value = op.value
  <1>1. CASE Writes(op)
    <2>1. op.key \in DbKeys
      BY <1>1 DEF Database!Ops, Writes
    <2>2. PICK expiry : Database!Apply(s, op) = Database!PutIn(s, op.ns, op.key, op.value, expiry)
      <3>1. CASE op.op = "put"
        BY <3>1 DEF Database!Apply
      <3>2. CASE op.op = "put_ttl"
        BY <3>2 DEF Database!Apply
      <3>3. QED
        BY <1>1, <3>1, <3>2 DEF Writes
    <2> DEFINE t == Database!PutIn(s, op.ns, op.key, op.value, expiry)
    <2>3. /\ Shaped(t)
          /\ \A n, k : Database!Has(t, n, k) =>
               IF n = op.ns /\ k = op.key THEN t[n][k] = [value |-> op.value, expiry |-> expiry]
               ELSE Stays(s, t, n, k)
      BY <2>1, PutInEffect
    <2> HIDE DEF t
    <2>4. op.op # "flush"
      BY <1>1 DEF Writes
    <2>5. QED
      BY <1>1, <2>2, <2>3, <2>4 DEF t, Database!Hits
  <1>2. CASE op.op \in {"del", "flush"}
    <2>1. PICK K : Database!Apply(s, op) = Database!Without(s, op.ns, K) /\
                   (op.op = "del" => K = {op.key}) /\ (op.op = "flush" => K = DbKeys)
      <3>1. CASE op.op = "del"
        BY <3>1 DEF Database!Apply, Database!DelIn
      <3>2. CASE op.op = "flush"
        BY <3>2 DEF Database!Apply, Database!FlushIn
      <3>3. QED
        BY <1>2, <3>1, <3>2
    <2> DEFINE t == Database!Without(s, op.ns, K)
    <2>2. /\ Shaped(t)
          /\ \A n, k : Database!Has(t, n, k) => Stays(s, t, n, k) /\ ~(n = op.ns /\ k \in K)
      BY WithoutEffect
    <2> HIDE DEF t
    <2>3. ASSUME NEW n, NEW k, Stays(s, t, n, k)
          PROVE  k \in DbKeys
      BY <2>3 DEF Stays, Shaped, Database!Has, Database!Space, Database!NoEntries
    <2>4. QED
      BY <1>2, <2>1, <2>2, <2>3 DEF t, Database!Hits
  <1>3. QED
    BY <1>1, <1>2 DEF Database!Ops, Writes


\* The operations of a transaction that carry a value.
Writers(ops) == {i \in DOMAIN ops : Writes(ops[i])}

Transactions == [ops : Seq(Database!Ops), applied : Nat,
                 phase : {"none", "open", "committing", "done"}]

\* How far a transaction has come fits its phase.
Sensible(r) ==
  /\ r \in Transactions
  /\ r.applied <= Len(r.ops)
  /\ r.phase \in {"none", "open"} => r.applied = 0
  /\ r.phase = "committing" => r.applied < Len(r.ops)

TxTyped ==
  /\ puts \in Nat
  /\ tx = [c \in Threads |-> tx[c]]
  /\ \A c \in Threads : Sensible(tx[c])

\* No two operations carry the same value, and none one that was discarded.
Numbered ==
  /\ \A n, k : Database!Has(store, n, k) => store[n][k].value \in 1 .. puts
  /\ discarded \subseteq 1 .. puts
  /\ \A c \in Threads : \A i \in Writers(tx[c].ops) :
       tx[c].ops[i].value \in (1 .. puts) \ discarded
  /\ \A c, d \in Threads : \A i \in Writers(tx[c].ops), j \in Writers(tx[d].ops) :
       tx[c].ops[i].value = tx[d].ops[j].value => c = d /\ i = j

\* What has not been applied is in no entry of s.
Unapplied(ops, applied, s) ==
  \A n, k : Database!Has(s, n, k) =>
    \A i \in Writers(ops) : i > applied => s[n][k].value # ops[i].value

Unwritten ==
  /\ \A n, k : Database!Has(store, n, k) => store[n][k].value \notin discarded
  /\ \A c \in Threads : Unapplied(tx[c].ops, tx[c].applied, store)

\* What has been applied is gone from s once a later applied operation hit it.
InOrder(ops, applied, s) ==
  \A i \in Writers(ops), j \in DOMAIN ops :
    i < j /\ j <= applied =>
      (Database!Hits(ops[j], ops[i].ns, ops[i].key) /\ Database!Has(s, ops[i].ns, ops[i].key)
         => s[ops[i].ns][ops[i].key].value # ops[i].value)

Overwritten == \A c \in Threads : InOrder(tx[c].ops, tx[c].applied, store)

DbInv == Shaped(store) /\ TxTyped /\ Numbered /\ Unwritten /\ Overwritten

\* An entry was there, with its value and, if that was so, expired; or its value is
\* that of a new put, or of the next operation of a commit.
Moves ==
  \A n, k : Database!Has(store', n, k) =>
    \/ /\ Database!Has(store, n, k)
       /\ store'[n][k].value = store[n][k].value
       /\ store[n][k].expiry = "past" => store'[n][k].expiry = "past"
    \/ store'[n][k].value = puts + 1
    \/ \E c \in Threads :
         /\ tx[c].applied + 1 \in Writers(tx[c].ops)
         /\ store'[n][k].value = tx[c].ops[tx[c].applied + 1].value

\* The steps of the store's own operations, and of the clock.
LEMMA StoreOperation ==
  ASSUME DbInv, UNCHANGED <<tx, discarded>>, Shaped(store'), puts' \in {puts, puts + 1},
         \A n, k : Database!Has(store', n, k) =>
           \/ /\ Database!Has(store, n, k)
              /\ store'[n][k].value = store[n][k].value
              /\ store[n][k].expiry = "past" => store'[n][k].expiry = "past"
           \/ store'[n][k].value = puts + 1 /\ puts' = puts + 1
  PROVE  DbInv' /\ Moves
  <1>1. Moves
    BY DEF Moves
  <1>2. puts \in Nat /\ puts' \in Nat /\ puts' >= puts
    BY DEF DbInv, TxTyped
  <1>3. TxTyped'
    BY <1>2 DEF DbInv, TxTyped
  <1>4. Numbered'
    BY <1>2 DEF DbInv, Numbered
  <1>5. ASSUME NEW c \in Threads, NEW i \in Writers(tx[c].ops)
        PROVE  tx[c].ops[i].value # puts + 1
    BY <1>2, <1>5 DEF DbInv, Numbered
  <1>6. puts + 1 \notin discarded
    BY <1>2 DEF DbInv, Numbered
  <1>7. Unwritten'
    BY <1>5, <1>6 DEF DbInv, Unwritten, Unapplied
  <1>8. Overwritten'
    <2>1. ASSUME NEW c \in Threads, NEW i \in Writers(tx[c].ops), NEW j \in DOMAIN tx[c].ops,
                 i < j /\ j <= tx[c].applied,
                 Database!Hits(tx[c].ops[j], tx[c].ops[i].ns, tx[c].ops[i].key),
                 Database!Has(store', tx[c].ops[i].ns, tx[c].ops[i].key)
          PROVE  store'[tx[c].ops[i].ns][tx[c].ops[i].key].value # tx[c].ops[i].value
      <3> DEFINE n == tx[c].ops[i].ns
                 k == tx[c].ops[i].key
      <3>1. \/ Database!Has(store, n, k) /\ store'[n][k].value = store[n][k].value
            \/ store'[n][k].value = puts + 1
        BY <2>1
      <3>2. Database!Has(store, n, k) => store[n][k].value # tx[c].ops[i].value
        BY <2>1 DEF DbInv, Overwritten, InOrder
      <3>3. tx[c].ops[i].value # puts + 1
        BY <1>5
      <3>4. QED
        BY <3>1, <3>2, <3>3
    <2>2. \A c \in Threads : InOrder(tx[c].ops, tx[c].applied, store')
      BY <2>1 DEF InOrder
    <2>3. QED
      BY <2>2 DEF Overwritten
  <1>9. QED
    BY <1>1, <1>3, <1>4, <1>7, <1>8 DEF DbInv

LEMMA PutKeeps ==
  ASSUME DbInv, NEW c, NEW ns, NEW key \in DbKeys, NEW expiry, Database!Put(c, ns, key, expiry)
  PROVE  DbInv' /\ Moves
  <1>1. /\ store' = Database!PutIn(store, ns, key, puts + 1, expiry)
        /\ puts' = puts + 1 /\ UNCHANGED <<tx, discarded>> /\ Shaped(store)
    BY DEF Database!Put, DbInv
  <1>2. /\ Shaped(store')
        /\ \A n, k : Database!Has(store', n, k) =>
             IF n = ns /\ k = key THEN store'[n][k] = [value |-> puts + 1, expiry |-> expiry]
             ELSE Stays(store, store', n, k)
    BY <1>1, PutInEffect
  <1>3. QED
    BY <1>1, <1>2, StoreOperation DEF Stays

LEMMA RemovalsKeep ==
  ASSUME DbInv,
         \/ \E c \in Threads, ns \in DbNamespaces, key \in DbKeys : Database!Del(c, ns, key)
         \/ \E c \in Threads, ns \in DbNamespaces : Database!FlushNs(c, ns)
         \/ \E c \in Threads : Database!FlushAll(c) \/ Database!PurgeExpired(c)
  PROVE  DbInv' /\ Moves
  <1>1. puts' = puts /\ UNCHANGED <<tx, discarded>> /\ Shaped(store)
    BY DEF Database!Del, Database!FlushNs, Database!FlushAll, Database!PurgeExpired, DbInv
  <1>2. ASSUME NEW ns, NEW K, store' = Database!Without(store, ns, K)
        PROVE  DbInv' /\ Moves
    <2>1. /\ Shaped(store')
          /\ \A n, k : Database!Has(store', n, k) => Stays(store, store', n, k)
      BY <1>1, <1>2, WithoutEffect
    <2>2. QED
      BY <1>1, <2>1, StoreOperation DEF Stays
  <1>3. CASE store' = Database!EmptyStore
    <2>1. Shaped(store') /\ \A n, k : ~Database!Has(store', n, k)
      BY <1>3 DEF Shaped, Database!EmptyStore, Database!Has, Database!Space, Database!NoEntries
    <2>2. QED
      BY <1>1, <2>1, StoreOperation
  <1>4. ASSUME NEW c, Database!PurgeExpired(c)
        PROVE  DbInv' /\ Moves
    <2> DEFINE left(n) == {x \in DOMAIN store[n] : store[n][x].expiry # "past"}
    <2>1. store' = [n \in DOMAIN store |-> [k \in left(n) |-> store[n][k]]]
      BY <1>4 DEF Database!PurgeExpired
    <2>2. /\ DOMAIN store' = DOMAIN store /\ store' = [n \in DOMAIN store' |-> store'[n]]
          /\ \A n \in DOMAIN store : store'[n] = [k \in left(n) |-> store[n][k]]
      BY <2>1
    <2>3. \A n \in DOMAIN store : left(n) \subseteq DOMAIN store[n]
      OBVIOUS
    <2> HIDE DEF left
    <2>4. \A n \in DOMAIN store :
            /\ DOMAIN store'[n] = left(n) /\ store'[n] = [k \in DOMAIN store'[n] |-> store'[n][k]]
            /\ \A k \in DOMAIN store'[n] : k \in DOMAIN store[n] /\ store'[n][k] = store[n][k]
      BY <2>2, <2>3
    <2>5. Shaped(store')
      BY <1>1, <2>2, <2>3, <2>4 DEF Shaped
    <2>6. \A n, k : Database!Has(store', n, k) => Stays(store, store', n, k)
      BY <2>2, <2>4 DEF Database!Has, Database!Space, Database!NoEntries, Stays
    <2>7. QED
      BY <1>1, <2>5, <2>6, StoreOperation DEF Stays
  <1>5. QED
    BY <1>2, <1>3, <1>4
       DEF Database!Del, Database!FlushNs, Database!FlushAll, Database!DelIn, Database!FlushIn

\* expire and persist change the deadline of a visible entry; the clock that of an armed one.
LEMMA DeadlinesKeep ==
  ASSUME DbInv,
         \/ \E c \in Threads, ns \in DbNamespaces, key \in DbKeys, expiry \in {"never", "armed"} :
              Database!SetDeadline(c, ns, key, expiry)
         \/ Database!Tick
  PROVE  DbInv' /\ Moves
  <1>1. PICK ns, key, expiry :
          /\ Database!Has(store, ns, key) /\ store[ns][key].expiry # "past"
          /\ store' = [store EXCEPT ![ns][key].expiry = expiry]
          /\ UNCHANGED <<puts, tx, discarded>>
    <2>1. CASE Database!Tick
      BY <2>1 DEF Database!Tick, Database!Has, Database!Space
    <2>2. QED
      BY <2>1 DEF Database!SetDeadline, Database!Visible
  <1>2. ns \in DOMAIN store /\ key \in DOMAIN store[ns] /\ Shaped(store)
    BY <1>1 DEF Database!Has, Database!Space, Database!NoEntries, DbInv
  <1> DEFINE entry == [store[ns][key] EXCEPT !.expiry = expiry]
  <1>3. entry = [value |-> store[ns][key].value, expiry |-> expiry]
    BY <1>2 DEF Shaped
  <1>4. /\ DOMAIN store' = DOMAIN store /\ store' = [n \in DOMAIN store' |-> store'[n]]
        /\ store'[ns] = [store[ns] EXCEPT ![key] = entry]
        /\ \A n \in DOMAIN store \ {ns} : store'[n] = store[n]
    BY <1>1, <1>2 DEF Shaped
  <1> HIDE DEF entry
  <1>5. /\ DOMAIN store'[ns] = DOMAIN store[ns]
        /\ store'[ns] = [k \in DOMAIN store'[ns] |-> store'[ns][k]]
        /\ store'[ns][key] = entry
        /\ \A k \in DOMAIN store[ns] \ {key} : store'[ns][k] = store[ns][k]
    BY <1>2, <1>4 DEF Shaped
  <1>6. Shaped(store')
    BY <1>2, <1>3, <1>4, <1>5 DEF Shaped
  <1>7. ASSUME NEW n, NEW k, Database!Has(store', n, k)
        PROVE  /\ Database!Has(store, n, k)
               /\ store'[n][k].value = store[n][k].value
               /\ store[n][k].expiry = "past" => store'[n][k].expiry = "past"
    <2>1. n \in DOMAIN store /\ k \in DOMAIN store'[n]
      BY <1>4, <1>7 DEF Database!Has, Database!Space, Database!NoEntries
    <2>2. k \in DOMAIN store[n]
      BY <1>4, <1>5, <2>1
    <2>3. CASE n = ns /\ k = key
      BY <1>1, <1>3, <1>5, <2>1, <2>2, <2>3 DEF Database!Has, Database!Space
    <2>4. CASE ~(n = ns /\ k = key)
      BY <1>4, <1>5, <2>1, <2>2, <2>4 DEF Database!Has, Database!Space
    <2>5. QED
      BY <2>3, <2>4
  <1>8. puts' = puts /\ UNCHANGED <<tx, discarded>>
    BY <1>1
  <1>9. QED
    BY <1>6, <1>7, <1>8, StoreOperation

\* One thread's transaction changes.
LEMMA TxReplaced ==
  ASSUME TxTyped, NEW c \in Threads, NEW r, Sensible(r), tx' = [tx EXCEPT ![c] = r], puts' \in Nat
  PROVE  TxTyped' /\ tx'[c] = r /\ \A d \in Threads \ {c} : tx'[d] = tx[d]
  BY DEF TxTyped

\* A transaction that starts or is given up.
LEMMA BuffersKeep ==
  ASSUME DbInv, NEW c \in Threads, Database!Begin(c) \/ Database!Rollback(c)
  PROVE  DbInv' /\ Moves
  <1>1. UNCHANGED <<store, puts>> /\ Shaped(store) /\ TxTyped /\ puts \in Nat
    BY DEF Database!Begin, Database!Rollback, DbInv, TxTyped
  <1>2. Moves
    BY <1>1 DEF Moves
  <1>3. PICK phase \in {"none", "open"} :
          tx' = [tx EXCEPT ![c] = [ops |-> <<>>, applied |-> 0, phase |-> phase]]
    BY DEF Database!Begin, Database!Rollback, Database!NoTx
  <1> DEFINE r == [ops |-> <<>>, applied |-> 0, phase |-> phase]
  <1>4. Sensible(r) /\ r.ops = <<>> /\ r.applied = 0
    BY DEF Sensible, Transactions
  <1> HIDE DEF r
  <1>5. TxTyped' /\ tx'[c].ops = <<>> /\ tx'[c].applied = 0 /\ \A d \in Threads \ {c} : tx'[d] = tx[d]
    BY <1>1, <1>3, <1>4, TxReplaced DEF r
  <1>6. Writers(tx'[c].ops) = {}
    BY <1>5 DEF Writers
  <1>7. \/ discarded' = discarded
        \/ /\ tx[c].applied = 0
           /\ discarded' = discarded \cup {tx[c].ops[i].value : i \in Writers(tx[c].ops)}
    BY <1>1 DEF Database!Begin, Database!Rollback, Database!ValuesOf, TxTyped, Sensible, Writers, Writes
  <1>8. ASSUME NEW v \in discarded'
        PROVE  \/ v \in discarded
               \/ /\ tx[c].applied = 0
                  /\ \E i \in Writers(tx[c].ops) : v = tx[c].ops[i].value
    BY <1>7, <1>8
  <1>9. Numbered'
    <2>1. discarded' \subseteq 1 .. puts
      <3>1. \A i \in Writers(tx[c].ops) : tx[c].ops[i].value \in 1 .. puts
        BY DEF DbInv, Numbered
      <3>2. discarded \subseteq 1 .. puts
        BY DEF DbInv, Numbered
      <3>3. QED
        BY <1>8, <3>1, <3>2
    <2>2. ASSUME NEW d \in Threads, NEW i \in Writers(tx'[d].ops)
          PROVE  d # c /\ i \in Writers(tx[d].ops) /\ tx'[d].ops[i] = tx[d].ops[i]
      BY <1>5, <1>6, <2>2
    <2>3. \A d \in Threads : \A i \in Writers(tx'[d].ops) : tx'[d].ops[i].value \in (1 .. puts) \ discarded'
      BY <1>8, <2>2 DEF DbInv, Numbered
    <2>4. \A d, e \in Threads : \A i \in Writers(tx'[d].ops), j \in Writers(tx'[e].ops) :
            tx'[d].ops[i].value = tx'[e].ops[j].value => d = e /\ i = j
      <3>1. SUFFICES ASSUME NEW d \in Threads, NEW e \in Threads, NEW i \in Writers(tx'[d].ops),
                            NEW j \in Writers(tx'[e].ops), tx'[d].ops[i].value = tx'[e].ops[j].value
                     PROVE  d = e /\ i = j
        OBVIOUS
      <3>2. /\ i \in Writers(tx[d].ops) /\ j \in Writers(tx[e].ops)
            /\ tx[d].ops[i].value = tx[e].ops[j].value
        BY <2>2, <3>1
      <3>3. QED
        BY <3>2 DEF DbInv, Numbered
    <2>5. QED
      BY <1>1, <2>1, <2>3, <2>4 DEF DbInv, Numbered
  <1>10. Unwritten'
    <2>1. \A n, k : Database!Has(store, n, k) => store[n][k].value \notin discarded'
      <3>1. \A i \in Writers(tx[c].ops) : i > 0
        BY <1>1 DEF TxTyped, Sensible, Transactions, Writers
      <3>2. QED
        BY <1>8, <3>1 DEF DbInv, Unwritten, Unapplied
    <2>2. \A d \in Threads : Unapplied(tx'[d].ops, tx'[d].applied, store)
      BY <1>5, <1>6 DEF DbInv, Unwritten, Unapplied
    <2>3. QED
      BY <1>1, <2>1, <2>2 DEF Unwritten
  <1>11. Overwritten'
    <2>1. \A d \in Threads : InOrder(tx'[d].ops, tx'[d].applied, store)
      <3>1. InOrder(tx'[c].ops, tx'[c].applied, store)
        BY <1>6 DEF InOrder
      <3>2. QED
        BY <1>5, <3>1 DEF DbInv, Overwritten
    <2>2. QED
      BY <1>1, <2>1 DEF Overwritten
  <1>12. QED
    BY <1>1, <1>2, <1>5, <1>9, <1>10, <1>11 DEF DbInv

\* A transaction that starts to commit.
LEMMA CommitKeeps ==
  ASSUME DbInv, NEW c \in Threads, Database!Commit(c)
  PROVE  DbInv' /\ Moves
  <1>1. UNCHANGED <<store, puts, discarded>> /\ Shaped(store) /\ TxTyped /\ puts \in Nat
    BY DEF Database!Commit, DbInv, TxTyped
  <1>2. Moves
    BY <1>1 DEF Moves
  <1> DEFINE r == [tx[c] EXCEPT !.phase = IF tx[c].ops = <<>> THEN "done" ELSE "committing"]
  <1>3. tx' = [tx EXCEPT ![c] = r] /\ tx[c].phase = "open" /\ Sensible(tx[c])
    BY <1>1 DEF Database!Commit, TxTyped
  <1>4. Sensible(r) /\ r.ops = tx[c].ops /\ r.applied = tx[c].applied
    <2>1. /\ r \in Transactions /\ r.ops = tx[c].ops /\ r.applied = tx[c].applied
          /\ r.phase = IF tx[c].ops = <<>> THEN "done" ELSE "committing"
      BY <1>3 DEF Sensible, Transactions
    <2>2. tx[c].applied = 0 /\ tx[c].ops \in Seq(Database!Ops)
      BY <1>3 DEF Sensible, Transactions
    <2>3. tx[c].ops # <<>> => Len(tx[c].ops) > 0
      BY <2>2
    <2> HIDE DEF r
    <2>4. QED
      BY <2>1, <2>2, <2>3 DEF Sensible
  <1> HIDE DEF r
  <1>5. TxTyped' /\ tx'[c] = r /\ \A d \in Threads \ {c} : tx'[d] = tx[d]
    BY <1>1, <1>3, <1>4, TxReplaced
  <1>6. \A d \in Threads : tx'[d].ops = tx[d].ops /\ tx'[d].applied = tx[d].applied
    BY <1>4, <1>5
  <1>7. Numbered'
    BY <1>1, <1>6, SMTT(60) DEF DbInv, Numbered
  <1>8. Unwritten'
    BY <1>1, <1>6 DEF DbInv, Unwritten
  <1>9. Overwritten'
    BY <1>1, <1>6 DEF DbInv, Overwritten
  <1>10. QED
    BY <1>1, <1>2, <1>5, <1>7, <1>8, <1>9 DEF DbInv

\* A queued put carries a value of its own.
LEMMA QueueKeeps ==
  ASSUME DbInv, NEW c \in Threads, NEW op \in Database!Ops, Database!Queue(c, op)
  PROVE  DbInv' /\ Moves
  <1>1. UNCHANGED <<store, discarded>> /\ Shaped(store) /\ TxTyped /\ puts \in Nat /\ Sensible(tx[c])
    BY DEF Database!Queue, DbInv, TxTyped
  <1>2. Moves
    BY <1>1 DEF Moves
  <1> DEFINE ops == tx[c].ops
             m == Len(ops) + 1
             r == [tx[c] EXCEPT !.ops = Append(ops, op)]
  <1>3. /\ tx[c].phase = "open" /\ tx[c].applied = 0 /\ ops \in Seq(Database!Ops)
        /\ tx' = [tx EXCEPT ![c] = r]
        /\ IF Writes(op) THEN op.value = puts + 1 /\ puts' = puts + 1 ELSE puts' = puts
    BY <1>1 DEF Database!Queue, Sensible, Transactions, Writes
  <1>4. /\ r \in Transactions /\ r.ops = Append(ops, op)
        /\ r.applied = tx[c].applied /\ r.phase = tx[c].phase
    <2>1. Append(ops, op) \in Seq(Database!Ops) /\ tx[c] \in Transactions
      BY <1>1, <1>3 DEF Sensible
    <2>2. \A s \in Seq(Database!Ops) :
            /\ [tx[c] EXCEPT !.ops = s] \in Transactions /\ [tx[c] EXCEPT !.ops = s].ops = s
            /\ [tx[c] EXCEPT !.ops = s].applied = tx[c].applied
            /\ [tx[c] EXCEPT !.ops = s].phase = tx[c].phase
      BY <2>1 DEF Transactions
    <2>3. QED
      BY <2>1, <2>2
  <1>5. /\ m \in Nat /\ DOMAIN ops = 1 .. m - 1 /\ DOMAIN r.ops = 1 .. m /\ Len(r.ops) = m
        /\ \A i \in 1 .. m - 1 : r.ops[i] = ops[i]
        /\ r.ops[m] = op
    BY <1>3, <1>4
  <1>6. Sensible(r)
    BY <1>3, <1>4, <1>5 DEF Sensible
  <1>7. puts' \in Nat /\ puts' >= puts
    BY <1>1, <1>3
  <1> HIDE DEF m, r
  <1>8. TxTyped' /\ tx'[c] = r /\ \A d \in Threads \ {c} : tx'[d] = tx[d]
    BY <1>1, <1>3, <1>6, <1>7, TxReplaced
  <1>9. ASSUME NEW d \in Threads, NEW i \in Writers(tx'[d].ops)
        PROVE  \/ i \in Writers(tx[d].ops) /\ tx'[d].ops[i].value = tx[d].ops[i].value
               \/ d = c /\ i = m /\ tx'[d].ops[i].value = puts + 1 /\ puts' = puts + 1
    <2>1. CASE d = c
      <3>1. i \in 1 .. m /\ Writes(r.ops[i])
        BY <1>5, <1>8, <1>9, <2>1 DEF Writers
      <3>2. CASE i = m
        BY <1>3, <1>5, <1>8, <2>1, <3>1, <3>2
      <3>3. CASE i # m
        <4>1. i \in 1 .. m - 1
          BY <1>5, <3>1, <3>3
        <4>2. QED
          BY <1>5, <1>8, <2>1, <3>1, <4>1 DEF Writers
      <3>4. QED
        BY <3>2, <3>3
    <2>2. CASE d # c
      BY <1>8, <1>9, <2>2
    <2>3. QED
      BY <2>1, <2>2
  <1>10. \A d \in Threads : tx'[d].applied = tx[d].applied
    BY <1>4, <1>8
  <1>11. Numbered'
    <2>1. \A n, k : Database!Has(store', n, k) => store'[n][k].value \in 1 .. puts'
      BY <1>1, <1>7 DEF DbInv, Numbered
    <2>2. discarded' \subseteq 1 .. puts'
      BY <1>1, <1>7 DEF DbInv, Numbered
    <2>3. \A d \in Threads : \A i \in Writers(tx[d].ops) :
            tx[d].ops[i].value \in (1 .. puts) \ discarded /\ tx[d].ops[i].value # puts + 1
      BY <1>1 DEF DbInv, Numbered
    <2>4. puts + 1 \notin discarded
      BY <1>1 DEF DbInv, Numbered
    <2>5. \A d \in Threads : \A i \in Writers(tx'[d].ops) :
            tx'[d].ops[i].value \in (1 .. puts') \ discarded'
      BY <1>1, <1>7, <1>9, <2>3, <2>4
    <2>6. \A d, e \in Threads : \A i \in Writers(tx'[d].ops), j \in Writers(tx'[e].ops) :
            tx'[d].ops[i].value = tx'[e].ops[j].value => d = e /\ i = j
      BY <1>9, <2>3 DEF DbInv, Numbered
    <2>7. QED
      BY <2>1, <2>2, <2>5, <2>6 DEF Numbered
  <1>12. Unwritten'
    <2>1. \A n, k : Database!Has(store, n, k) => store[n][k].value # puts + 1
      BY <1>1 DEF DbInv, Numbered
    <2>2. \A d \in Threads : Unapplied(tx'[d].ops, tx'[d].applied, store)
      BY <1>9, <1>10, <2>1 DEF DbInv, Unwritten, Unapplied
    <2>3. QED
      BY <1>1, <2>2 DEF DbInv, Unwritten
  <1>13. Overwritten'
    <2>1. InOrder(tx'[c].ops, tx'[c].applied, store)
      <3>1. tx'[c].applied = 0 /\ DOMAIN tx'[c].ops = 1 .. m
        BY <1>3, <1>5, <1>8, <1>10
      <3>2. QED
        BY <1>5, <3>1 DEF InOrder
    <2>2. \A d \in Threads : InOrder(tx'[d].ops, tx'[d].applied, store)
      BY <1>8, <2>1 DEF DbInv, Overwritten
    <2>3. QED
      BY <1>1, <2>2 DEF Overwritten
  <1>14. QED
    BY <1>1, <1>2, <1>8, <1>11, <1>12, <1>13 DEF DbInv

\* One operation of a commit.
LEMMA CommitStepKeeps ==
  ASSUME DbInv, NEW c \in Threads, Database!CommitStep(c)
  PROVE  DbInv' /\ Moves
  <1>1. /\ UNCHANGED <<puts, discarded>> /\ Shaped(store) /\ TxTyped /\ puts \in Nat
        /\ Sensible(tx[c])
    BY DEF Database!CommitStep, DbInv, TxTyped
  <1> DEFINE m == tx[c].applied + 1
             op == tx[c].ops[m]
             r == [tx[c] EXCEPT !.applied = m,
                                !.phase = IF m = Len(tx[c].ops) THEN "done" ELSE "committing"]
  <1>2. /\ store' = Database!Apply(store, op)
        /\ tx[c].phase = "committing"
        /\ tx' = [tx EXCEPT ![c] = r]
    BY <1>1 DEF Database!CommitStep, TxTyped
  <1>3. /\ tx[c].applied \in Nat /\ m \in Nat /\ m = tx[c].applied + 1
        /\ m \in DOMAIN tx[c].ops /\ m <= Len(tx[c].ops) /\ Len(tx[c].ops) \in Nat /\ op \in Database!Ops
    BY <1>1, <1>2 DEF Sensible, Transactions
  <1>4. /\ r \in Transactions /\ r.ops = tx[c].ops /\ r.applied = m
        /\ r.phase = IF m = Len(tx[c].ops) THEN "done" ELSE "committing"
    BY <1>1, <1>3 DEF Sensible, Transactions
  <1> HIDE DEF r, op, m
  <1>5. Sensible(r)
    BY <1>3, <1>4 DEF Sensible
  <1>6. TxTyped' /\ tx'[c] = r /\ \A d \in Threads \ {c} : tx'[d] = tx[d]
    BY <1>1, <1>2, <1>5, TxReplaced
  <1>7. \A d \in Threads : tx'[d].ops = tx[d].ops
    BY <1>4, <1>6
  <1>8. /\ Shaped(store')
        /\ \A n, k : Database!Has(store', n, k) =>
             \/ Stays(store, store', n, k) /\ ~Database!Hits(op, n, k)
             \/ Writes(op) /\ store'[n][k].value = op.value
    BY <1>1, <1>2, <1>3, ApplyEffect
  <1>9. Writes(op) => /\ m \in Writers(tx[c].ops)
                      /\ op.value \in (1 .. puts) \ discarded
                      /\ \A d \in Threads : \A i \in Writers(tx[d].ops) :
                           tx[d].ops[i].value = op.value => d = c /\ i = m
    BY <1>3, SMTT(60) DEF op, Writers, DbInv, Numbered
  <1>10. Moves
    BY <1>3, <1>8, <1>9 DEF Moves, Stays, op
  <1>11. Numbered'
    <2>1. \A n, k : Database!Has(store', n, k) => store'[n][k].value \in 1 .. puts
      BY <1>8, <1>9 DEF Stays, DbInv, Numbered
    <2>2. QED
      BY <1>1, <1>7, <2>1, SMTT(60) DEF DbInv, Numbered
  <1>12. Unwritten'
    <2>1. \A n, k : Database!Has(store', n, k) => store'[n][k].value \notin discarded
      BY <1>8, <1>9 DEF Stays, DbInv, Unwritten
    <2>2. ASSUME NEW d \in Threads
          PROVE  Unapplied(tx[d].ops, tx'[d].applied, store')
      <3>1. SUFFICES ASSUME NEW n, NEW k, Database!Has(store', n, k), NEW i \in Writers(tx[d].ops),
                            i > tx'[d].applied
                     PROVE  store'[n][k].value # tx[d].ops[i].value
        BY DEF Unapplied
      <3>2. i \in Nat /\ Sensible(tx[d])
        BY <1>1 DEF TxTyped, Sensible, Transactions, Writers
      <3>3. i > tx[d].applied /\ ~(d = c /\ i = m)
        <4>1. CASE d = c
          BY <1>3, <1>4, <1>6, <3>1, <3>2, <4>1
        <4>2. CASE d # c
          BY <1>6, <3>1, <4>2
        <4>3. QED
          BY <4>1, <4>2
      <3>4. QED
        BY <1>8, <1>9, <3>1, <3>3 DEF Stays, DbInv, Unwritten, Unapplied
    <2>3. QED
      BY <1>1, <1>7, <2>1, <2>2 DEF Unwritten
  <1>13. Overwritten'
    <2>1. ASSUME NEW d \in Threads
          PROVE  InOrder(tx[d].ops, tx'[d].applied, store')
      <3> DEFINE ops == tx[d].ops
      <3>1. SUFFICES ASSUME NEW i \in Writers(ops), NEW j \in DOMAIN ops, i < j, j <= tx'[d].applied,
                            Database!Hits(ops[j], ops[i].ns, ops[i].key),
                            Database!Has(store', ops[i].ns, ops[i].key)
                     PROVE  store'[ops[i].ns][ops[i].key].value # ops[i].value
        BY DEF InOrder
      <3>2. i \in Nat /\ j \in Nat
        BY <1>1 DEF TxTyped, Sensible, Transactions, Writers
      <3>3. ~(d = c /\ i = m)
        BY <1>3, <1>4, <1>6, <3>1, <3>2
      <3>4. ~(d = c /\ j = m) => j <= tx[d].applied
        BY <1>3, <1>4, <1>6, <3>1, <3>2
      <3>5. CASE Writes(op) /\ store'[ops[i].ns][ops[i].key].value = op.value
        BY <1>9, <3>3, <3>5
      <3>6. CASE Stays(store, store', ops[i].ns, ops[i].key) /\ ~Database!Hits(op, ops[i].ns, ops[i].key)
        <4>1. ~(d = c /\ j = m)
          BY <3>1, <3>6 DEF op
        <4>2. QED
          BY <3>1, <3>4, <3>6, <4>1 DEF Stays, DbInv, Overwritten, InOrder
      <3>7. QED
        BY <1>8, <3>1, <3>5, <3>6
    <2>2. QED
      BY <1>7, <2>1 DEF Overwritten
  <1>14. QED
    BY <1>6, <1>8, <1>10, <1>11, <1>12, <1>13 DEF DbInv

LEMMA DbInvInit == Database!Init => DbInv
  <1> SUFFICES ASSUME Database!Init PROVE DbInv
    OBVIOUS
  <1>1. /\ puts = 0 /\ discarded = {}
        /\ tx = [c \in Threads |-> [ops |-> <<>>, applied |-> 0, phase |-> "none"]]
    BY DEF Database!Init, Database!NoTx
  <1>2. Shaped(store) /\ \A n, k : ~Database!Has(store, n, k)
    BY DEF Database!Init, Shaped, Database!EmptyStore, Database!Has, Database!Space, Database!NoEntries
  <1>3. TxTyped
    BY <1>1 DEF TxTyped, Sensible, Transactions
  <1>4. \A c \in Threads : Writers(tx[c].ops) = {}
    BY <1>1 DEF Writers
  <1>5. QED
    BY <1>1, <1>2, <1>3, <1>4 DEF DbInv, Numbered, Unwritten, Overwritten, Unapplied, InOrder

LEMMA DbInvStep ==
  ASSUME DbInv, [Database!Next]_dbVars
  PROVE  DbInv' /\ [Moves]_dbVars
  <1>1. CASE Database!Next
    BY <1>1, PutKeeps, RemovalsKeep, DeadlinesKeep, BuffersKeep, CommitKeeps, QueueKeeps, CommitStepKeeps
       DEF Database!Next
  <1>2. CASE UNCHANGED dbVars
    <2>1. UNCHANGED <<store, puts, tx, discarded>>
      BY <1>2 DEF dbVars
    <2>2. QED
      BY <2>1, <1>2 DEF DbInv, Shaped, TxTyped, Numbered, Unwritten, Overwritten
  <1>3. QED
    BY <1>1, <1>2

LEMMA DbSteps == [MCNext]_<<focus, vars, dbVars, redisVars, objectVars>> => [Database!Next]_dbVars
  BY DEF MCNext, In

\* Whatever threads put, delete, flush, queue, commit and roll back, in any order: a value
\* only queued or rolled back is in no entry.
THEOREM OnlyCommitsWrite == MCSpec => []NoDirtyWrites
  <1>1. DbInv => NoDirtyWrites
    <2> SUFFICES ASSUME DbInv, NEW n \in DOMAIN store, NEW k \in DOMAIN store[n]
                 PROVE  /\ store[n][k].value \notin discarded
                        /\ \A c \in Threads :
                             tx[c].phase = "open" => store[n][k].value \notin Database!ValuesOf(tx[c].ops)
      BY DEF NoDirtyWrites, Database!NoDirtyWrites
    <2>1. Database!Has(store, n, k)
      BY DEF Database!Has, Database!Space
    <2>2. ASSUME NEW c \in Threads, tx[c].phase = "open"
          PROVE  store[n][k].value \notin Database!ValuesOf(tx[c].ops)
      <3>1. tx[c].applied = 0 /\ \A i \in DOMAIN tx[c].ops : i > 0
        BY <2>2 DEF DbInv, TxTyped, Sensible, Transactions
      <3>2. \A i \in Writers(tx[c].ops) : store[n][k].value # tx[c].ops[i].value
        BY <2>1, <3>1 DEF DbInv, Unwritten, Unapplied, Writers
      <3>3. QED
        BY <3>2 DEF Database!ValuesOf, Writers, Writes
    <2>3. QED
      BY <2>1, <2>2 DEF DbInv, Unwritten, Unapplied
  <1>2. MCInit => DbInv
    BY DbInvInit DEF MCInit
  <1>3. DbInv /\ [MCNext]_<<focus, vars, dbVars, redisVars, objectVars>> => DbInv'
    BY DbInvStep, DbSteps
  <1>4. QED
    BY <1>1, <1>2, <1>3, PTL DEF MCSpec

\* The operations of a transaction take effect in the order they were queued in, whatever
\* other threads do while they are applied one by one.
THEOREM OpsApplyInOrder == MCSpec => []LaterOpWins
  <1>1. DbInv => LaterOpWins
    <2> SUFFICES ASSUME DbInv, NEW c \in Threads, NEW i \in 1 .. tx[c].applied,
                        NEW j \in 1 .. tx[c].applied, i < j, Writes(tx[c].ops[i]),
                        Database!Hits(tx[c].ops[j], tx[c].ops[i].ns, tx[c].ops[i].key),
                        Database!Has(store, tx[c].ops[i].ns, tx[c].ops[i].key)
                 PROVE  store[tx[c].ops[i].ns][tx[c].ops[i].key].value # tx[c].ops[i].value
      BY DEF LaterOpWins, Database!LaterOpWins, Writes
    <2>1. i \in Writers(tx[c].ops) /\ j \in DOMAIN tx[c].ops /\ j <= tx[c].applied
      BY DEF DbInv, TxTyped, Sensible, Transactions, Writers
    <2>2. QED
      BY <2>1 DEF DbInv, Overwritten, InOrder
  <1>2. MCInit => DbInv
    BY DbInvInit DEF MCInit
  <1>3. DbInv /\ [MCNext]_<<focus, vars, dbVars, redisVars, objectVars>> => DbInv'
    BY DbInvStep, DbSteps
  <1>4. QED
    BY <1>1, <1>2, <1>3, PTL DEF MCSpec

\* A value past its deadline is never read again: no expire, no persist and no commit
\* brings it back.
THEOREM NothingRevives == MCSpec => ExpiredStaysExpired
  <1> DEFINE Stay == \A ns \in DOMAIN store : \A key \in DOMAIN store[ns] :
                store[ns][key].expiry = "past" =>
                  ~(Database!Visible(store', ns, key) /\ store'[ns][key].value = store[ns][key].value)
  <1>1. DbInv /\ Moves => Stay
    <2> SUFFICES ASSUME DbInv, Moves, NEW ns \in DOMAIN store, NEW key \in DOMAIN store[ns],
                        store[ns][key].expiry = "past", Database!Visible(store', ns, key)
                 PROVE  store'[ns][key].value # store[ns][key].value
      OBVIOUS
    <2>1. Database!Has(store, ns, key) /\ Database!Has(store', ns, key) /\ store'[ns][key].expiry # "past"
      BY DEF Database!Visible, Database!Has, Database!Space
    <2>2. store[ns][key].value \in 1 .. puts /\ puts \in Nat
      BY <2>1 DEF DbInv, Numbered, TxTyped
    <2>3. \A c \in Threads : tx[c].applied \in Nat
      BY DEF DbInv, TxTyped, Sensible, Transactions
    <2>4. \A c \in Threads : tx[c].applied + 1 \in Writers(tx[c].ops) =>
            store[ns][key].value # tx[c].ops[tx[c].applied + 1].value
      BY <2>1, <2>3 DEF DbInv, Unwritten, Unapplied
    <2>5. QED
      BY <2>1, <2>2, <2>4 DEF Moves
  <1>2. MCInit => DbInv
    BY DbInvInit DEF MCInit
  <1>3. DbInv /\ [MCNext]_<<focus, vars, dbVars, redisVars, objectVars>> => DbInv' /\ [Moves]_dbVars
    BY DbInvStep, DbSteps
  <1>4. ExpiredStaysExpired <=> [][Stay]_dbVars
    BY PTL DEF ExpiredStaysExpired, Database!ExpiredStaysExpired, Database!vars, dbVars
  <1> HIDE DEF Stay
  <1>5. DbInv /\ [Moves]_dbVars => [Stay]_dbVars
    BY <1>1
  <1>6. QED
    BY <1>2, <1>3, <1>4, <1>5, PTL DEF MCSpec

---------------------------------------------------------------------------------
(***************************************************************************)
(* Object storage: EveryObjectHasItsBucket and VisibilityIsFixed.          *)
(***************************************************************************)

\* A request between its locks is about an object there may be.
RequestInv ==
  request # Objects!Nobody => request.bucket \in Buckets /\ request.key \in ObjectKeys

StorageInv == Objects!EveryObjectHasItsBucket /\ RequestInv

\* An object written lies in a bucket there is, and no name becomes a file and a folder.
LEMMA WritingKeeps ==
  ASSUME Objects!EveryObjectHasItsBucket, NEW b \in Buckets, NEW k \in ObjectKeys,
         Objects!WriteObject(b, k) \/ Objects!RemoveObject(b, k), UNCHANGED <<buckets, forgotten>>
  PROVE  Objects!EveryObjectHasItsBucket'
  <1>1. CASE Objects!RemoveObject(b, k)
    <2>1. files' \subseteq files /\ folders' = folders
      BY <1>1 DEF Objects!RemoveObject
    <2>2. QED
      BY <2>1 DEF Objects!EveryObjectHasItsBucket
  <1>2. CASE Objects!WriteObject(b, k)
    <2>1. CASE UNCHANGED <<files, folders>>
      BY <2>1 DEF Objects!EveryObjectHasItsBucket
    <2>2. CASE b \in DOMAIN buckets /\ Objects!CanWrite(b, k)
      <3> DEFINE o == <<b, k>>
                 above == IF Folder[k] = "none" THEN {} ELSE {<<b, Folder[k]>>}
      <3>1. files' = files \cup {o} /\ folders' = folders \cup above
        BY <1>2, <2>2 DEF Objects!WriteObject
      <3>2. o \in Objects!Objects /\ above \subseteq Objects!Objects /\ o \notin above
        BY FolderAssumption DEF FolderAssumption, Objects!Objects
      <3>3. o \notin folders /\ above \cap files = {}
        BY <2>2 DEF Objects!CanWrite
      <3>4. files' \cup folders' \subseteq Objects!Objects /\ files' \cap folders' = {}
        BY <3>1, <3>2, <3>3 DEF Objects!EveryObjectHasItsBucket
      <3>5. {x[1] : x \in files'} \subseteq DOMAIN buckets' \cup forgotten'
        BY <2>2, <3>1 DEF Objects!EveryObjectHasItsBucket
      <3>6. \A x \in files' : Folder[x[2]] # "none" => <<x[1], Folder[x[2]]>> \in folders'
        <4>1. Folder[k] # "none" => <<b, Folder[k]>> \in above
          OBVIOUS
        <4>2. QED
          BY <3>1, <4>1 DEF Objects!EveryObjectHasItsBucket
      <3>7. QED
        BY <3>4, <3>5, <3>6 DEF Objects!EveryObjectHasItsBucket
    <2>3. QED
      BY <1>2, <2>1, <2>2 DEF Objects!WriteObject
  <1>3. QED
    BY <1>1, <1>2

\* The steps that change the registered buckets leave the disk alone.
LEMMA BucketsKeep ==
  ASSUME Objects!EveryObjectHasItsBucket, UNCHANGED <<files, folders>>,
         \A o \in files : o[1] \in DOMAIN buckets' \cup forgotten'
  PROVE  Objects!EveryObjectHasItsBucket'
  BY DEF Objects!EveryObjectHasItsBucket

LEMMA StorageStep ==
  ASSUME StorageInv, [Objects!Next]_objectVars
  PROVE  StorageInv'
  <1>1. \A o \in files : o[1] \in DOMAIN buckets \cup forgotten
    BY DEF StorageInv, Objects!EveryObjectHasItsBucket
  <1>2. ASSUME NEW b \in Buckets, NEW public \in BOOLEAN, Objects!CreateBucket(b, public)
        PROVE  StorageInv'
    <2>1. /\ DOMAIN buckets' = DOMAIN buckets \cup {b} /\ forgotten' = forgotten \ {b}
          /\ UNCHANGED <<files, folders, request>>
      BY <1>2 DEF Objects!CreateBucket
    <2>2. QED
      BY <1>1, <2>1, BucketsKeep DEF StorageInv, RequestInv
  <1>3. ASSUME NEW b \in Buckets, Objects!DeleteBucket(b)
        PROVE  StorageInv'
    <2>1. /\ DOMAIN buckets' = DOMAIN buckets \ {b} /\ forgotten' = forgotten
          /\ UNCHANGED <<files, folders, request>>
          /\ \A o \in files : o[1] # b
      BY <1>3 DEF Objects!DeleteBucket, Objects!FilesOf
    <2>2. QED
      BY <1>1, <2>1, BucketsKeep DEF StorageInv, RequestInv
  <1>4. ASSUME NEW b \in Buckets, NEW k \in ObjectKeys, Objects!Put(b, k) \/ Objects!Delete(b, k)
        PROVE  StorageInv'
    BY <1>4, WritingKeeps DEF Objects!Put, Objects!Delete, StorageInv, RequestInv
  <1>5. ASSUME NEW b \in Buckets, NEW k \in ObjectKeys, NEW method, Objects!SignUrl(method, b, k)
        PROVE  StorageInv'
    BY <1>1, <1>5, BucketsKeep DEF Objects!SignUrl, StorageInv, RequestInv
  <1>6. ASSUME NEW b \in Buckets, NEW k \in ObjectKeys, NEW kind, NEW signed,
               Objects!Authorise(kind, b, k, signed) \/ Objects!AuthoriseInfo(b, k, signed)
        PROVE  StorageInv'
    <2>1. request'.bucket = b /\ request'.key = k /\ UNCHANGED <<buckets, files, folders, forgotten>>
      BY <1>6 DEF Objects!Authorise, Objects!AuthoriseInfo
    <2>2. QED
      BY <1>1, <2>1, BucketsKeep DEF StorageInv, RequestInv
  <1>7. ASSUME NEW u, Objects!UrlExpires(u)
        PROVE  StorageInv'
    BY <1>1, <1>7, BucketsKeep DEF Objects!UrlExpires, StorageInv, RequestInv
  <1>8. CASE Objects!CarryOut
    <2>1. /\ UNCHANGED <<buckets, forgotten>> /\ request' = Objects!Nobody
          /\ request.bucket \in Buckets /\ request.key \in ObjectKeys
          /\ \/ UNCHANGED <<files, folders>>
             \/ Objects!WriteObject(request.bucket, request.key)
             \/ Objects!RemoveObject(request.bucket, request.key)
      BY <1>8 DEF Objects!CarryOut, StorageInv, RequestInv
    <2>2. Objects!EveryObjectHasItsBucket'
      BY <1>1, <2>1, WritingKeeps, BucketsKeep DEF StorageInv
    <2>3. QED
      BY <2>1, <2>2 DEF StorageInv, RequestInv, Objects!Nobody
  <1>9. CASE Objects!Restart
    <2>1. UNCHANGED <<files, folders>> /\ request' = Objects!Nobody /\ \A o \in files : o[1] \in forgotten'
      BY <1>9 DEF Objects!Restart
    <2>2. QED
      BY <2>1, BucketsKeep DEF StorageInv, RequestInv, Objects!Nobody
  <1>10. CASE UNCHANGED objectVars
    BY <1>1, <1>10, BucketsKeep DEF objectVars, StorageInv, RequestInv, Objects!Nobody
  <1>11. QED
    BY <1>2, <1>3, <1>4, <1>5, <1>6, <1>7, <1>8, <1>9, <1>10 DEF Objects!Next

\* While the bucket is as the request was let in with, a request without a signature
\* is for an object of a public one.
LetInInv ==
  request # Objects!Nobody /\ ~request.signed => Objects!Readable(<<request.bucket>>, request.since)

LEMMA LetInStep ==
  ASSUME LetInInv, [Objects!Next]_objectVars
  PROVE  LetInInv'
  <1>1. CASE UNCHANGED request
    BY <1>1 DEF LetInInv, Objects!Nobody, Objects!Readable
  <1>2. CASE request' = Objects!Nobody
    BY <1>2 DEF LetInInv, Objects!Nobody
  <1>3. ASSUME NEW b \in Buckets, NEW k \in ObjectKeys, NEW kind, NEW signed \in BOOLEAN,
               Objects!Authorise(kind, b, k, signed) \/ Objects!AuthoriseInfo(b, k, signed)
        PROVE  LetInInv'
    <2>1. /\ request'.bucket = b /\ request'.signed = signed /\ request'.since = buckets
          /\ ~signed => b \in DOMAIN buckets /\ buckets[b]
      BY <1>3 DEF Objects!Authorise, Objects!AuthoriseInfo
    <2>2. QED
      BY <2>1 DEF LetInInv, Objects!Readable
  <1>4. QED
    BY <1>1, <1>2, <1>3
       DEF Objects!Next, objectVars, Objects!CreateBucket, Objects!DeleteBucket, Objects!Put,
           Objects!Delete, Objects!SignUrl, Objects!UrlExpires, Objects!CarryOut, Objects!Restart

\* What a step may not do to who can read an object.
Fixed ==
  /\ \A o \in files \cap files' :
       o[1] \notin forgotten /\ o[1] \in DOMAIN buckets' =>
         Objects!Readable(o, buckets) = Objects!Readable(o, buckets')
  /\ Objects!CarryOut /\ ~request.signed /\ <<request.bucket, request.key>> \in files =>
       \/ Objects!Readable(<<request.bucket>>, buckets)
       \/ buckets # request.since

LEMMA FixedStep ==
  ASSUME StorageInv, LetInInv, [Objects!Next]_objectVars
  PROVE  Fixed
  <1>1. Objects!CarryOut /\ ~request.signed =>
          Objects!Readable(<<request.bucket>>, buckets) \/ buckets # request.since
    BY DEF LetInInv, Objects!CarryOut
  <1>2. ASSUME NEW o \in files \cap files', o[1] \notin forgotten, o[1] \in DOMAIN buckets'
        PROVE  Objects!Readable(o, buckets) = Objects!Readable(o, buckets')
    <2>1. o[1] \in DOMAIN buckets
      BY <1>2 DEF StorageInv, Objects!EveryObjectHasItsBucket
    <2>2. CASE buckets' = buckets
      BY <2>2
    <2>3. ASSUME NEW b \in Buckets, NEW public \in BOOLEAN, Objects!CreateBucket(b, public)
          PROVE  o[1] \in DOMAIN buckets' /\ buckets'[o[1]] = buckets[o[1]]
      BY <2>1, <2>3 DEF Objects!CreateBucket
    <2>4. ASSUME NEW b \in Buckets, Objects!DeleteBucket(b)
          PROVE  o[1] \in DOMAIN buckets' /\ buckets'[o[1]] = buckets[o[1]]
      BY <1>2, <2>1, <2>4 DEF Objects!DeleteBucket, Objects!FilesOf
    <2>5. CASE Objects!Restart
      BY <1>2, <2>5 DEF Objects!Restart
    <2>6. QED
      BY <2>1, <2>2, <2>3, <2>4, <2>5
         DEF Objects!Readable, Objects!Next, objectVars, Objects!Put, Objects!Delete, Objects!SignUrl,
             Objects!Authorise, Objects!AuthoriseInfo, Objects!UrlExpires, Objects!CarryOut
  <1>3. QED
    BY <1>1, <1>2 DEF Fixed

\* Whatever is created, deleted, uploaded under a signature and restarted, in any order:
\* an object lies in a bucket that is registered or that a restart forgot, and no name
\* is a file and a folder at once.
THEOREM ObjectsKeepTheirBuckets == MCSpec => []EveryObjectHasItsBucket
  <1>1. MCInit => StorageInv
    BY DEF MCInit, Objects!Init, StorageInv, Objects!EveryObjectHasItsBucket, RequestInv
  <1>2. StorageInv /\ [MCNext]_<<focus, vars, dbVars, redisVars, objectVars>> => StorageInv'
    BY StorageStep DEF MCNext, In
  <1>3. StorageInv => EveryObjectHasItsBucket
    BY DEF StorageInv, EveryObjectHasItsBucket
  <1>4. QED
    BY <1>1, <1>2, <1>3, PTL DEF MCSpec

\* And while the daemon runs, no object changes between public and private; a download
\* without a signature is of an object that was in a public bucket when it was let in.
THEOREM VisibilityStays == MCSpec => VisibilityIsFixed
  <1> DEFINE Inv == StorageInv /\ LetInInv
  <1>1. MCInit => Inv
    BY DEF MCInit, Objects!Init, StorageInv, Objects!EveryObjectHasItsBucket, RequestInv, LetInInv
  <1>2. [MCNext]_<<focus, vars, dbVars, redisVars, objectVars>> => [Objects!Next]_objectVars
    BY DEF MCNext, In
  <1>3. Inv /\ [Objects!Next]_objectVars => Inv'
    BY StorageStep, LetInStep
  <1>4. Inv /\ [Objects!Next]_objectVars => [Fixed]_objectVars
    BY FixedStep
  <1>5. VisibilityIsFixed <=> [][Fixed]_objectVars
    BY PTL DEF VisibilityIsFixed, Objects!VisibilityIsFixed, Fixed, Objects!vars, objectVars
  <1> HIDE DEF Inv
  <1>6. QED
    BY <1>1, <1>2, <1>3, <1>4, <1>5, PTL DEF MCSpec

---------------------------------------------------------------------------------
(***************************************************************************)
(* The mini Redis: ServesTheLiveKeys.                                      *)
(***************************************************************************)

IsFun(f) == f = [x \in DOMAIN f |-> f[x]]

\* A value of one of the three types; a map of keys to values and deadlines.
IsValue(v) ==
  \/ v.type = "string"
  \/ v.type = "list" /\ v.list \in Seq(Pushable)
  \/ v.type = "hash"

IsMap(d) ==
  /\ IsFun(d)
  /\ \A k \in DOMAIN d :
       /\ d[k] = [val |-> d[k].val, expiry |-> d[k].expiry]
       /\ IsValue(d[k].val)
       /\ d[k].expiry \in {"never", "armed", "past"}

LEMMA SameMap ==
  ASSUME NEW f, NEW g, IsFun(f), IsFun(g),
         \A x : x \in DOMAIN f <=> x \in DOMAIN g,
         \A x \in DOMAIN f : f[x] = g[x]
  PROVE  f = g
  <1>1. DOMAIN f = DOMAIN g
    <2>1. DOMAIN f \subseteq DOMAIN g /\ DOMAIN g \subseteq DOMAIN f
      OBVIOUS
    <2>2. QED
      BY <2>1, Zenon
  <1>2. QED
    BY <1>1 DEF IsFun

LEMMA WithoutIs ==
  ASSUME NEW d, NEW K
  PROVE  /\ \A k : k \in DOMAIN Redis!Without(d, K) <=> k \in DOMAIN d /\ k \notin K
         /\ \A k \in DOMAIN Redis!Without(d, K) : Redis!Without(d, K)[k] = d[k]
         /\ IsFun(Redis!Without(d, K))
  BY DEF Redis!Without, IsFun

LEMMA WithIs ==
  ASSUME NEW d, NEW k, NEW val, NEW expiry
  PROVE  /\ \A j : j \in DOMAIN Redis!With(d, k, val, expiry) <=> j = k \/ j \in DOMAIN d
         /\ Redis!With(d, k, val, expiry)[k] = [val |-> val, expiry |-> expiry]
         /\ \A j \in DOMAIN d : j # k => Redis!With(d, k, val, expiry)[j] = d[j]
         /\ IsFun(Redis!With(d, k, val, expiry))
  BY DEF Redis!With, IsFun

LEMMA SeenIs ==
  ASSUME NEW d
  PROVE  /\ \A k : k \in DOMAIN Redis!Seen(d) <=> k \in DOMAIN d /\ d[k].expiry # "past"
         /\ \A k \in DOMAIN Redis!Seen(d) : Redis!Seen(d)[k] = d[k]
         /\ IsFun(Redis!Seen(d))
  <1>1. \A k \in DOMAIN d : k \in Redis!Expired(d) <=> d[k].expiry = "past"
    BY DEF Redis!Expired
  <1>2. QED
    BY <1>1, WithoutIs DEF Redis!Seen

\* Taking keys away takes them away from what is seen.
LEMMA SeenWithout ==
  \A d, K : IsMap(d) => /\ IsMap(Redis!Without(d, K))
                        /\ Redis!Seen(Redis!Without(d, K)) = Redis!Without(Redis!Seen(d), K)
  <1> SUFFICES ASSUME NEW d, NEW K, IsMap(d)
               PROVE  /\ IsMap(Redis!Without(d, K))
                      /\ Redis!Seen(Redis!Without(d, K)) = Redis!Without(Redis!Seen(d), K)
    OBVIOUS
  <1>1. IsMap(Redis!Without(d, K))
    BY WithoutIs DEF IsMap
  <1> DEFINE a == Redis!Seen(Redis!Without(d, K))
             b == Redis!Without(Redis!Seen(d), K)
  <1>2. \A k : k \in DOMAIN a <=> k \in DOMAIN b
    BY SeenIs, WithoutIs
  <1>3. \A k \in DOMAIN a : a[k] = d[k] /\ b[k] = d[k]
    BY <1>2, SeenIs, WithoutIs
  <1>4. IsFun(a) /\ IsFun(b)
    BY SeenIs, WithoutIs
  <1> HIDE DEF a, b
  <1>5. a = b
    BY <1>2, <1>3, <1>4, SameMap
  <1>6. QED
    BY <1>1, <1>5 DEF a, b

\* Looking at keys removes the expired ones, which nobody sees.
LEMMA SeenLive ==
  \A d, K : IsMap(d) =>
    LET l == Redis!Without(d, K \cap Redis!Expired(d)) IN
    /\ IsMap(l) /\ Redis!Seen(l) = Redis!Seen(d)
    /\ \A k \in K : /\ k \in DOMAIN l <=> k \in DOMAIN Redis!Seen(d)
                    /\ k \in DOMAIN l => l[k] = d[k] /\ Redis!Seen(d)[k] = d[k] /\ k \in DOMAIN d
  <1> SUFFICES ASSUME NEW d, NEW K, IsMap(d)
               PROVE  LET l == Redis!Without(d, K \cap Redis!Expired(d)) IN
                      /\ IsMap(l) /\ Redis!Seen(l) = Redis!Seen(d)
                      /\ \A k \in K : /\ k \in DOMAIN l <=> k \in DOMAIN Redis!Seen(d)
                                      /\ k \in DOMAIN l => l[k] = d[k] /\ Redis!Seen(d)[k] = d[k] /\ k \in DOMAIN d
    OBVIOUS
  <1> DEFINE X == K \cap Redis!Expired(d)
             l == Redis!Without(d, X)
             s == Redis!Seen(d)
             t == Redis!Without(s, X)
  <1>1. IsMap(l) /\ Redis!Seen(l) = t
    BY SeenWithout
  <1>2. \A k \in X : d[k].expiry = "past"
    BY DEF Redis!Expired
  <1> HIDE DEF X
  <1>3. IsFun(s) /\ IsFun(t)
    BY SeenIs, WithoutIs
  <1>4. \A k : k \in DOMAIN t <=> k \in DOMAIN s
    BY <1>2, SeenIs, WithoutIs
  <1>5. \A k \in DOMAIN t : t[k] = s[k]
    BY WithoutIs
  <1>8. t = s
    <2> HIDE DEF t, s
    <2>1. QED
      BY <1>3, <1>4, <1>5, SameMap
  <1>9. \A k \in K \cap DOMAIN d : k \in X <=> d[k].expiry = "past"
    BY DEF Redis!Expired, X
  <1>10. \A k \in K : /\ k \in DOMAIN l <=> k \in DOMAIN s
                      /\ k \in DOMAIN l => l[k] = d[k] /\ s[k] = d[k] /\ k \in DOMAIN d
    BY <1>9, SeenIs, WithoutIs
  <1>11. QED
    BY <1>1, <1>8, <1>10 DEF X

LEMMA LiveIs ==
  \A d, k : IsMap(d) =>
    LET l == Redis!Live(d, k) IN
    /\ IsMap(l) /\ Redis!Seen(l) = Redis!Seen(d)
    /\ k \in DOMAIN l <=> k \in DOMAIN Redis!Seen(d)
    /\ k \in DOMAIN l => l[k] = d[k] /\ Redis!Seen(d)[k] = d[k] /\ k \in DOMAIN d
  <1> SUFFICES ASSUME NEW d, NEW k, IsMap(d)
               PROVE  LET l == Redis!Live(d, k) IN
                      /\ IsMap(l) /\ Redis!Seen(l) = Redis!Seen(d)
                      /\ k \in DOMAIN l <=> k \in DOMAIN Redis!Seen(d)
                      /\ k \in DOMAIN l => l[k] = d[k] /\ Redis!Seen(d)[k] = d[k] /\ k \in DOMAIN d
    OBVIOUS
  <1> DEFINE K == {k}
             l == Redis!Without(d, K \cap Redis!Expired(d))
  <1>1. k \in K /\ Redis!Live(d, k) = l
    BY DEF Redis!Live
  <1> HIDE DEF K
  <1>2. /\ IsMap(l) /\ Redis!Seen(l) = Redis!Seen(d)
        /\ k \in DOMAIN l <=> k \in DOMAIN Redis!Seen(d)
        /\ k \in DOMAIN l => l[k] = d[k] /\ Redis!Seen(d)[k] = d[k] /\ k \in DOMAIN d
    BY <1>1, SeenLive
  <1> HIDE DEF l
  <1>3. QED
    BY <1>1, <1>2

\* The deadlines of entries that are seen.
Unexpired == {"never", "armed"}

\* An entry that has expired is not seen, another one is.
LEMMA SeenWith ==
  \A d, k, val, expiry :
    IsMap(d) /\ IsValue(val) /\ expiry \in Unexpired =>
      /\ IsMap(Redis!With(d, k, val, expiry))
      /\ Redis!Seen(Redis!With(d, k, val, expiry)) = Redis!With(Redis!Seen(d), k, val, expiry)
  <1> SUFFICES ASSUME NEW d, NEW k, NEW val, NEW expiry,
                      IsMap(d), IsValue(val), expiry \in Unexpired
               PROVE  /\ IsMap(Redis!With(d, k, val, expiry))
                      /\ Redis!Seen(Redis!With(d, k, val, expiry)) = Redis!With(Redis!Seen(d), k, val, expiry)
    OBVIOUS
  <1> DEFINE e == Redis!With(d, k, val, expiry)
             s == Redis!Seen(d)
             a == Redis!Seen(e)
             c == Redis!With(s, k, val, expiry)
  <1>1. /\ \A j : j \in DOMAIN e <=> j = k \/ j \in DOMAIN d
        /\ e[k] = [val |-> val, expiry |-> expiry]
        /\ \A j \in DOMAIN d : j # k => e[j] = d[j]
        /\ IsFun(e)
    BY WithIs
  <1>2. /\ \A j : j \in DOMAIN s <=> j \in DOMAIN d /\ d[j].expiry # "past"
        /\ \A j : j \in DOMAIN a <=> j \in DOMAIN e /\ e[j].expiry # "past"
        /\ \A j \in DOMAIN s : s[j] = d[j]
        /\ \A j \in DOMAIN a : a[j] = e[j]
        /\ IsFun(a)
    BY SeenIs
  <1>4. /\ \A j : j \in DOMAIN c <=> j = k \/ j \in DOMAIN s
        /\ c[k] = [val |-> val, expiry |-> expiry]
        /\ \A j \in DOMAIN s : j # k => c[j] = s[j]
        /\ IsFun(c)
    BY WithIs
  <1> HIDE DEF e, s, a, c
  <1>5. IsMap(e)
    BY <1>1 DEF IsMap, Unexpired
  <1>6. (\A j : j \in DOMAIN a <=> j \in DOMAIN c) /\ \A j \in DOMAIN a : a[j] = c[j]
    BY <1>1, <1>2, <1>4 DEF Unexpired
  <1>7. a = c
    BY <1>2, <1>4, <1>6, SameMap
  <1>8. QED
    BY <1>5, <1>7 DEF a, c, e, s

LEMMA SeenExpired ==
  \A d, k, val : IsMap(d) /\ IsValue(val) =>
    /\ IsMap(Redis!With(d, k, val, "past"))
    /\ Redis!Seen(Redis!With(d, k, val, "past")) = Redis!Without(Redis!Seen(d), {k})
  <1> SUFFICES ASSUME NEW d, NEW k, NEW val, IsMap(d), IsValue(val)
               PROVE  /\ IsMap(Redis!With(d, k, val, "past"))
                      /\ Redis!Seen(Redis!With(d, k, val, "past")) = Redis!Without(Redis!Seen(d), {k})
    OBVIOUS
  <1> DEFINE e == Redis!With(d, k, val, "past")
             s == Redis!Seen(d)
             a == Redis!Seen(e)
             b == Redis!Without(s, {k})
  <1>1. /\ \A j : j \in DOMAIN e <=> j = k \/ j \in DOMAIN d
        /\ e[k] = [val |-> val, expiry |-> "past"]
        /\ \A j \in DOMAIN d : j # k => e[j] = d[j]
        /\ IsFun(e)
    BY WithIs
  <1>2. /\ \A j : j \in DOMAIN s <=> j \in DOMAIN d /\ d[j].expiry # "past"
        /\ \A j : j \in DOMAIN a <=> j \in DOMAIN e /\ e[j].expiry # "past"
        /\ \A j \in DOMAIN s : s[j] = d[j]
        /\ \A j \in DOMAIN a : a[j] = e[j]
        /\ IsFun(a)
    BY SeenIs
  <1>3. /\ \A j : j \in DOMAIN b <=> j \in DOMAIN s /\ j # k
        /\ \A j \in DOMAIN b : b[j] = s[j]
        /\ IsFun(b)
    BY WithoutIs
  <1> HIDE DEF e, s, a, b
  <1>4. IsMap(e)
    BY <1>1 DEF IsMap
  <1>5. (\A j : j \in DOMAIN a <=> j \in DOMAIN b) /\ \A j \in DOMAIN a : a[j] = b[j]
    BY <1>1, <1>2, <1>3
  <1>6. a = b
    BY <1>2, <1>3, <1>5, SameMap
  <1>7. QED
    BY <1>4, <1>6 DEF a, b, e, s

LEMMA SeenEndless ==
  \A d, k, val : IsMap(d) /\ IsValue(val) =>
    /\ IsMap(Redis!With(d, k, val, "never"))
    /\ Redis!Seen(Redis!With(d, k, val, "never")) = Redis!With(Redis!Seen(d), k, val, "never")
  BY SeenWith DEF Unexpired

LEMMA WithTwice ==
  \A d, k, v, w, x, y : Redis!With(Redis!With(d, k, v, x), k, w, y) = Redis!With(d, k, w, y)
  <1> SUFFICES ASSUME NEW d, NEW k, NEW v, NEW w, NEW x, NEW y
               PROVE  Redis!With(Redis!With(d, k, v, x), k, w, y) = Redis!With(d, k, w, y)
    OBVIOUS
  <1> DEFINE a == Redis!With(d, k, v, x)
             b == Redis!With(a, k, w, y)
             c == Redis!With(d, k, w, y)
  <1>1. /\ \A j : j \in DOMAIN a <=> j = k \/ j \in DOMAIN d
        /\ a[k] = [val |-> v, expiry |-> x]
        /\ \A j \in DOMAIN d : j # k => a[j] = d[j]
        /\ IsFun(a)
    BY WithIs
  <1>2. /\ \A j : j \in DOMAIN b <=> j = k \/ j \in DOMAIN a
        /\ b[k] = [val |-> w, expiry |-> y]
        /\ \A j \in DOMAIN a : j # k => b[j] = a[j]
        /\ IsFun(b)
    BY WithIs
  <1>3. /\ \A j : j \in DOMAIN c <=> j = k \/ j \in DOMAIN d
        /\ c[k] = [val |-> w, expiry |-> y]
        /\ \A j \in DOMAIN d : j # k => c[j] = d[j]
        /\ IsFun(c)
    BY WithIs
  <1> HIDE DEF a, b, c
  <1>4. b = c
    BY <1>1, <1>2, <1>3, SameMap
  <1>5. QED
    BY <1>4 DEF a, b, c


LEMMA SameCount == \A S : Redis!Cardinality(S) = Cardinality(S)
  BY Zenon DEF Redis!Cardinality, Cardinality

\* What a command that only reads a value sees of it.
LEMMA ReadServed ==
  \A d, k, type, missing, found : IsMap(d) =>
    LET r == Redis!Read(d, k, type, missing, found)
        c == Redis!Seen(d) IN
    /\ IsMap(r.data) /\ Redis!Seen(r.data) = c
    /\ k \notin DOMAIN c => r.reply = missing
    /\ k \in DOMAIN c => /\ c[k] = d[k] /\ k \in DOMAIN d
                         /\ r.reply = IF c[k].val.type # type THEN Redis!Err ELSE found
  <1> SUFFICES ASSUME NEW d, NEW k, NEW type, NEW missing, NEW found, IsMap(d)
               PROVE  LET r == Redis!Read(d, k, type, missing, found)
                          c == Redis!Seen(d) IN
                      /\ IsMap(r.data) /\ Redis!Seen(r.data) = c
                      /\ k \notin DOMAIN c => r.reply = missing
                      /\ k \in DOMAIN c => /\ c[k] = d[k] /\ k \in DOMAIN d
                                           /\ r.reply = IF c[k].val.type # type THEN Redis!Err ELSE found
    OBVIOUS
  <1> DEFINE l == Redis!Live(d, k)
             c == Redis!Seen(d)
  <1>1. /\ IsMap(l) /\ Redis!Seen(l) = c
        /\ k \in DOMAIN l <=> k \in DOMAIN c
        /\ k \in DOMAIN l => l[k] = d[k] /\ c[k] = d[k] /\ k \in DOMAIN d
    BY LiveIs
  <1>2. Redis!Read(d, k, type, missing, found) =
          [data |-> l, reply |-> IF k \notin DOMAIN l THEN missing
                                 ELSE IF d[k].val.type # type THEN Redis!Err ELSE found]
    BY Zenon DEF Redis!Read, Redis!Result
  <1> HIDE DEF l, c
  <1>3. QED
    BY <1>1, <1>2 DEF c

\* What the key store promises, by the type a command wants.
LEMMA Promises ==
  \A c, q :
    /\ q.op \in Redis!StringCommands =>
         Redis!Promised(c, q) = IF q.k \in DOMAIN c /\ c[q.k].val.type # "string"
                                THEN Redis!Answers(c, Redis!Err) ELSE Redis!StringAnswer(c, q)
    /\ q.op \in Redis!ListCommands =>
         Redis!Promised(c, q) = IF q.k \in DOMAIN c /\ c[q.k].val.type # "list"
                                THEN Redis!Answers(c, Redis!Err) ELSE Redis!ListAnswer(c, q)
    /\ q.op \in Redis!HashCommands =>
         Redis!Promised(c, q) = IF q.k \in DOMAIN c /\ c[q.k].val.type # "hash"
                                THEN Redis!Answers(c, Redis!Err) ELSE Redis!HashAnswer(c, q)
    /\ q.op \notin Redis!StringCommands \cup Redis!ListCommands \cup Redis!HashCommands =>
         Redis!Promised(c, q) = Redis!KeyAnswer(c, q)
  BY DEF Redis!Promised, Redis!Mistyped, Redis!StringCommands, Redis!ListCommands, Redis!HashCommands

\* Unless it panics, a command leaves a map, in which clients see what was promised,
\* and answers as promised.
Served(d, q) ==
  LET r == Redis!Dispatch(d, q)
      p == Redis!Promised(Redis!Seen(d), q)
  IN r.reply # Redis!Panic =>
       IsMap(r.data) /\ Redis!Seen(r.data) = p.contents /\ r.reply = p.reply

LEMMA GetServed ==
  \A d, q : IsMap(d) /\ q.op = "GET" => Served(d, q)
  <1> SUFFICES ASSUME NEW d, NEW q, IsMap(d), q.op = "GET" PROVE Served(d, q)
    OBVIOUS
  <1> DEFINE c == Redis!Seen(d)
             r == Redis!Dispatch(d, q)
  <1>1. r = Redis!Read(d, q.k, "string", Redis!Null, Redis!Bulk(d[q.k].val.s))
    BY DEF Redis!Dispatch
  <1>2. /\ IsMap(r.data) /\ Redis!Seen(r.data) = c
        /\ q.k \notin DOMAIN c => r.reply = Redis!Null
        /\ q.k \in DOMAIN c => /\ c[q.k] = d[q.k]
                               /\ r.reply = IF c[q.k].val.type # "string" THEN Redis!Err
                                            ELSE Redis!Bulk(d[q.k].val.s)
    BY <1>1, ReadServed
  <1>3. Redis!Promised(c, q) = IF q.k \in DOMAIN c /\ c[q.k].val.type # "string"
                               THEN Redis!Answers(c, Redis!Err) ELSE Redis!StringAnswer(c, q)
    BY Promises DEF Redis!StringCommands
  <1>4. Redis!StringAnswer(c, q) =
          Redis!Answers(c, IF q.k \notin DOMAIN c THEN Redis!Null ELSE Redis!Bulk(c[q.k].val.s))
    BY DEF Redis!StringAnswer
  <1> HIDE DEF c, r
  <1>5. QED
    BY <1>2, <1>3, <1>4 DEF Served, Redis!Answers, c, r

LEMMA HGetServed ==
  \A d, q : IsMap(d) /\ q.op = "HGET" => Served(d, q)
  <1> SUFFICES ASSUME NEW d, NEW q, IsMap(d), q.op = "HGET" PROVE Served(d, q)
    OBVIOUS
  <1> DEFINE c == Redis!Seen(d)
             r == Redis!Dispatch(d, q)
             hash == d[q.k].val.hash
  <1>1. r = Redis!Read(d, q.k, "hash", Redis!Null, (IF q.f \in DOMAIN hash THEN Redis!Bulk(hash[q.f]) ELSE Redis!Null))
    BY DEF Redis!Dispatch
  <1>2. /\ IsMap(r.data) /\ Redis!Seen(r.data) = c
        /\ q.k \notin DOMAIN c => r.reply = Redis!Null
        /\ q.k \in DOMAIN c => /\ c[q.k] = d[q.k]
                               /\ r.reply = IF c[q.k].val.type # "hash" THEN Redis!Err
                                            ELSE (IF q.f \in DOMAIN hash THEN Redis!Bulk(hash[q.f]) ELSE Redis!Null)
    <2> DEFINE missing == Redis!Null
               found == IF q.f \in DOMAIN hash THEN Redis!Bulk(hash[q.f]) ELSE Redis!Null
    <2>1. r = Redis!Read(d, q.k, "hash", missing, found)
      BY <1>1
    <2> HIDE DEF missing, found, r
    <2>2. /\ IsMap(r.data) /\ Redis!Seen(r.data) = c
          /\ q.k \notin DOMAIN c => r.reply = missing
          /\ q.k \in DOMAIN c => /\ c[q.k] = d[q.k]
                                 /\ r.reply = IF c[q.k].val.type # "hash" THEN Redis!Err ELSE found
      BY <2>1, ReadServed
    <2>3. QED
      BY <2>2 DEF missing, found
  <1>3. Redis!Promised(c, q) = IF q.k \in DOMAIN c /\ c[q.k].val.type # "hash"
                               THEN Redis!Answers(c, Redis!Err) ELSE Redis!HashAnswer(c, q)
    BY Promises DEF Redis!HashCommands
  <1>4. /\ q.k \notin DOMAIN c => Redis!HashAnswer(c, q) = Redis!Answers(c, Redis!Null)
        /\ q.k \in DOMAIN c /\ c[q.k] = d[q.k] => Redis!HashAnswer(c, q) = Redis!Answers(c, (IF q.f \in DOMAIN hash THEN Redis!Bulk(hash[q.f]) ELSE Redis!Null))
    BY DEF Redis!HashAnswer
  <1> HIDE DEF c, r
  <1>5. QED
    BY <1>2, <1>3, <1>4 DEF Served, Redis!Answers, c, r


LEMMA HExistsServed ==
  \A d, q : IsMap(d) /\ q.op = "HEXISTS" => Served(d, q)
  <1> SUFFICES ASSUME NEW d, NEW q, IsMap(d), q.op = "HEXISTS" PROVE Served(d, q)
    OBVIOUS
  <1> DEFINE c == Redis!Seen(d)
             r == Redis!Dispatch(d, q)
             hash == d[q.k].val.hash
  <1>1. r = Redis!Read(d, q.k, "hash", Redis!Num(0), Redis!Num(IF q.f \in DOMAIN hash THEN 1 ELSE 0))
    BY DEF Redis!Dispatch
  <1>2. /\ IsMap(r.data) /\ Redis!Seen(r.data) = c
        /\ q.k \notin DOMAIN c => r.reply = Redis!Num(0)
        /\ q.k \in DOMAIN c => /\ c[q.k] = d[q.k]
                               /\ r.reply = IF c[q.k].val.type # "hash" THEN Redis!Err
                                            ELSE Redis!Num(IF q.f \in DOMAIN hash THEN 1 ELSE 0)
    BY <1>1, ReadServed
  <1>3. Redis!Promised(c, q) = IF q.k \in DOMAIN c /\ c[q.k].val.type # "hash"
                               THEN Redis!Answers(c, Redis!Err) ELSE Redis!HashAnswer(c, q)
    BY Promises DEF Redis!HashCommands
  <1>4. /\ q.k \notin DOMAIN c => Redis!HashAnswer(c, q) = Redis!Answers(c, Redis!Num(0))
        /\ q.k \in DOMAIN c /\ c[q.k] = d[q.k] => Redis!HashAnswer(c, q) = Redis!Answers(c, Redis!Num(IF q.f \in DOMAIN hash THEN 1 ELSE 0))
    BY DEF Redis!HashAnswer
  <1> HIDE DEF c, r
  <1>5. QED
    BY <1>2, <1>3, <1>4 DEF Served, Redis!Answers, c, r


LEMMA HLenServed ==
  \A d, q : IsMap(d) /\ q.op = "HLEN" => Served(d, q)
  <1> SUFFICES ASSUME NEW d, NEW q, IsMap(d), q.op = "HLEN" PROVE Served(d, q)
    OBVIOUS
  <1> DEFINE c == Redis!Seen(d)
             r == Redis!Dispatch(d, q)
             hash == d[q.k].val.hash
  <1>1. r = Redis!Read(d, q.k, "hash", Redis!Num(0), Redis!Num(Cardinality(DOMAIN hash)))
    BY SameCount DEF Redis!Dispatch
  <1>2. /\ IsMap(r.data) /\ Redis!Seen(r.data) = c
        /\ q.k \notin DOMAIN c => r.reply = Redis!Num(0)
        /\ q.k \in DOMAIN c => /\ c[q.k] = d[q.k]
                               /\ r.reply = IF c[q.k].val.type # "hash" THEN Redis!Err
                                            ELSE Redis!Num(Cardinality(DOMAIN hash))
    BY <1>1, ReadServed
  <1>3. Redis!Promised(c, q) = IF q.k \in DOMAIN c /\ c[q.k].val.type # "hash"
                               THEN Redis!Answers(c, Redis!Err) ELSE Redis!HashAnswer(c, q)
    BY Promises DEF Redis!HashCommands
  <1>4. /\ q.k \notin DOMAIN c => Redis!HashAnswer(c, q) = Redis!Answers(c, Redis!Num(0))
        /\ q.k \in DOMAIN c /\ c[q.k] = d[q.k] => Redis!HashAnswer(c, q) = Redis!Answers(c, Redis!Num(Cardinality(DOMAIN hash)))
    BY SameCount, FS_EmptySet DEF Redis!HashAnswer

  <1> HIDE DEF c, r
  <1>5. QED
    BY <1>2, <1>3, <1>4 DEF Served, Redis!Answers, c, r


LEMMA HMGetServed ==
  \A d, q : IsMap(d) /\ q.op = "HMGET" => Served(d, q)
  <1> SUFFICES ASSUME NEW d, NEW q, IsMap(d), q.op = "HMGET" PROVE Served(d, q)
    OBVIOUS
  <1> DEFINE c == Redis!Seen(d)
             r == Redis!Dispatch(d, q)
             hash == d[q.k].val.hash
  <1>1. r = Redis!Read(d, q.k, "hash", Redis!Arr(<<[f \in q.F |-> Redis!Null]>>), Redis!Arr(<<[f \in q.F |-> IF f \in DOMAIN hash THEN Redis!Bulk(hash[f]) ELSE Redis!Null]>>))
    BY DEF Redis!Dispatch
  <1>2. /\ IsMap(r.data) /\ Redis!Seen(r.data) = c
        /\ q.k \notin DOMAIN c => r.reply = Redis!Arr(<<[f \in q.F |-> Redis!Null]>>)
        /\ q.k \in DOMAIN c => /\ c[q.k] = d[q.k]
                               /\ r.reply = IF c[q.k].val.type # "hash" THEN Redis!Err
                                            ELSE Redis!Arr(<<[f \in q.F |-> IF f \in DOMAIN hash THEN Redis!Bulk(hash[f]) ELSE Redis!Null]>>)
    <2> DEFINE missing == Redis!Arr(<<[f \in q.F |-> Redis!Null]>>)
               found == Redis!Arr(<<[f \in q.F |-> IF f \in DOMAIN hash THEN Redis!Bulk(hash[f]) ELSE Redis!Null]>>)
    <2>1. r = Redis!Read(d, q.k, "hash", missing, found)
      BY <1>1
    <2> HIDE DEF missing, found, r
    <2>2. /\ IsMap(r.data) /\ Redis!Seen(r.data) = c
          /\ q.k \notin DOMAIN c => r.reply = missing
          /\ q.k \in DOMAIN c => /\ c[q.k] = d[q.k]
                                 /\ r.reply = IF c[q.k].val.type # "hash" THEN Redis!Err ELSE found
      BY <2>1, ReadServed
    <2>3. QED
      BY <2>2 DEF missing, found
  <1>3. Redis!Promised(c, q) = IF q.k \in DOMAIN c /\ c[q.k].val.type # "hash"
                               THEN Redis!Answers(c, Redis!Err) ELSE Redis!HashAnswer(c, q)
    BY Promises DEF Redis!HashCommands
  <1>4. /\ q.k \notin DOMAIN c => Redis!HashAnswer(c, q) = Redis!Answers(c, Redis!Arr(<<[f \in q.F |-> Redis!Null]>>))
        /\ q.k \in DOMAIN c /\ c[q.k] = d[q.k] => Redis!HashAnswer(c, q) = Redis!Answers(c, Redis!Arr(<<[f \in q.F |-> IF f \in DOMAIN hash THEN Redis!Bulk(hash[f]) ELSE Redis!Null]>>))
    BY DEF Redis!HashAnswer
  <1> HIDE DEF c, r
  <1>5. QED
    BY <1>2, <1>3, <1>4 DEF Served, Redis!Answers, c, r


LEMMA HGetAllServed ==
  \A d, q : IsMap(d) /\ q.op = "HGETALL" => Served(d, q)
  <1> SUFFICES ASSUME NEW d, NEW q, IsMap(d), q.op = "HGETALL" PROVE Served(d, q)
    OBVIOUS
  <1> DEFINE c == Redis!Seen(d)
             r == Redis!Dispatch(d, q)
             hash == d[q.k].val.hash
  <1>1. r = Redis!Read(d, q.k, "hash", Redis!Arr(<<>>), Redis!Arr(<<Redis!Listing("HGETALL", hash)>>))
    BY DEF Redis!Dispatch
  <1>2. /\ IsMap(r.data) /\ Redis!Seen(r.data) = c
        /\ q.k \notin DOMAIN c => r.reply = Redis!Arr(<<>>)
        /\ q.k \in DOMAIN c => /\ c[q.k] = d[q.k]
                               /\ r.reply = IF c[q.k].val.type # "hash" THEN Redis!Err
                                            ELSE Redis!Arr(<<Redis!Listing("HGETALL", hash)>>)
    BY <1>1, ReadServed
  <1>3. Redis!Promised(c, q) = IF q.k \in DOMAIN c /\ c[q.k].val.type # "hash"
                               THEN Redis!Answers(c, Redis!Err) ELSE Redis!HashAnswer(c, q)
    BY Promises DEF Redis!HashCommands
  <1>4. /\ q.k \notin DOMAIN c => Redis!HashAnswer(c, q) = Redis!Answers(c, Redis!Arr(<<>>))
        /\ q.k \in DOMAIN c /\ c[q.k] = d[q.k] => Redis!HashAnswer(c, q) = Redis!Answers(c, Redis!Arr(<<Redis!Listing("HGETALL", hash)>>))
    BY DEF Redis!HashAnswer, Redis!Listing
  <1> HIDE DEF c, r
  <1>5. QED
    BY <1>2, <1>3, <1>4 DEF Served, Redis!Answers, c, r


LEMMA HKeysServed ==
  \A d, q : IsMap(d) /\ q.op = "HKEYS" => Served(d, q)
  <1> SUFFICES ASSUME NEW d, NEW q, IsMap(d), q.op = "HKEYS" PROVE Served(d, q)
    OBVIOUS
  <1> DEFINE c == Redis!Seen(d)
             r == Redis!Dispatch(d, q)
             hash == d[q.k].val.hash
  <1>1. r = Redis!Read(d, q.k, "hash", Redis!Arr(<<>>), Redis!Arr(<<Redis!Listing("HKEYS", hash)>>))
    BY DEF Redis!Dispatch
  <1>2. /\ IsMap(r.data) /\ Redis!Seen(r.data) = c
        /\ q.k \notin DOMAIN c => r.reply = Redis!Arr(<<>>)
        /\ q.k \in DOMAIN c => /\ c[q.k] = d[q.k]
                               /\ r.reply = IF c[q.k].val.type # "hash" THEN Redis!Err
                                            ELSE Redis!Arr(<<Redis!Listing("HKEYS", hash)>>)
    BY <1>1, ReadServed
  <1>3. Redis!Promised(c, q) = IF q.k \in DOMAIN c /\ c[q.k].val.type # "hash"
                               THEN Redis!Answers(c, Redis!Err) ELSE Redis!HashAnswer(c, q)
    BY Promises DEF Redis!HashCommands
  <1>4. /\ q.k \notin DOMAIN c => Redis!HashAnswer(c, q) = Redis!Answers(c, Redis!Arr(<<>>))
        /\ q.k \in DOMAIN c /\ c[q.k] = d[q.k] => Redis!HashAnswer(c, q) = Redis!Answers(c, Redis!Arr(<<Redis!Listing("HKEYS", hash)>>))
    BY DEF Redis!HashAnswer, Redis!Listing
  <1> HIDE DEF c, r
  <1>5. QED
    BY <1>2, <1>3, <1>4 DEF Served, Redis!Answers, c, r


LEMMA HValsServed ==
  \A d, q : IsMap(d) /\ q.op = "HVALS" => Served(d, q)
  <1> SUFFICES ASSUME NEW d, NEW q, IsMap(d), q.op = "HVALS" PROVE Served(d, q)
    OBVIOUS
  <1> DEFINE c == Redis!Seen(d)
             r == Redis!Dispatch(d, q)
             hash == d[q.k].val.hash
  <1>1. r = Redis!Read(d, q.k, "hash", Redis!Arr(<<>>), Redis!Arr(<<Redis!Listing("HVALS", hash)>>))
    BY DEF Redis!Dispatch
  <1>2. /\ IsMap(r.data) /\ Redis!Seen(r.data) = c
        /\ q.k \notin DOMAIN c => r.reply = Redis!Arr(<<>>)
        /\ q.k \in DOMAIN c => /\ c[q.k] = d[q.k]
                               /\ r.reply = IF c[q.k].val.type # "hash" THEN Redis!Err
                                            ELSE Redis!Arr(<<Redis!Listing("HVALS", hash)>>)
    BY <1>1, ReadServed
  <1>3. Redis!Promised(c, q) = IF q.k \in DOMAIN c /\ c[q.k].val.type # "hash"
                               THEN Redis!Answers(c, Redis!Err) ELSE Redis!HashAnswer(c, q)
    BY Promises DEF Redis!HashCommands
  <1>4. /\ q.k \notin DOMAIN c => Redis!HashAnswer(c, q) = Redis!Answers(c, Redis!Arr(<<>>))
        /\ q.k \in DOMAIN c /\ c[q.k] = d[q.k] => Redis!HashAnswer(c, q) = Redis!Answers(c, Redis!Arr(<<Redis!Listing("HVALS", hash)>>))
    BY DEF Redis!HashAnswer, Redis!Listing
  <1> HIDE DEF c, r
  <1>5. QED
    BY <1>2, <1>3, <1>4 DEF Served, Redis!Answers, c, r


LEMMA LLenServed ==
  \A d, q : IsMap(d) /\ q.op = "LLEN" => Served(d, q)
  <1> SUFFICES ASSUME NEW d, NEW q, IsMap(d), q.op = "LLEN" PROVE Served(d, q)
    OBVIOUS
  <1> DEFINE c == Redis!Seen(d)
             r == Redis!Dispatch(d, q)
             hash == d[q.k].val.hash
  <1>1. r = Redis!Read(d, q.k, "list", Redis!Num(0), Redis!Num(Len(d[q.k].val.list)))
    BY DEF Redis!Dispatch
  <1>2. /\ IsMap(r.data) /\ Redis!Seen(r.data) = c
        /\ q.k \notin DOMAIN c => r.reply = Redis!Num(0)
        /\ q.k \in DOMAIN c => /\ c[q.k] = d[q.k]
                               /\ r.reply = IF c[q.k].val.type # "list" THEN Redis!Err
                                            ELSE Redis!Num(Len(d[q.k].val.list))
    BY <1>1, ReadServed
  <1>3. Redis!Promised(c, q) = IF q.k \in DOMAIN c /\ c[q.k].val.type # "list"
                               THEN Redis!Answers(c, Redis!Err) ELSE Redis!ListAnswer(c, q)
    BY Promises DEF Redis!ListCommands
  <1>4. /\ q.k \notin DOMAIN c => Redis!ListAnswer(c, q) = Redis!Answers(c, Redis!Num(0))
        /\ q.k \in DOMAIN c /\ c[q.k] = d[q.k] => Redis!ListAnswer(c, q) = Redis!Answers(c, Redis!Num(Len(d[q.k].val.list)))
    BY DEF Redis!ListAnswer
  <1> HIDE DEF c, r
  <1>5. QED
    BY <1>2, <1>3, <1>4 DEF Served, Redis!Answers, c, r


---------------------------------------------------------------------------------

LEMMA IncrByServed ==
  \A d, q : IsMap(d) /\ q.op = "INCRBY" => Served(d, q)
  <1> SUFFICES ASSUME NEW d, NEW q, IsMap(d), q.op = "INCRBY" PROVE Served(d, q)
    OBVIOUS
  <1> DEFINE c == Redis!Seen(d)
             l == Redis!Live(d, q.k)
             r == Redis!Dispatch(d, q)
  <1>1. r = Redis!IncrBy(d, q)
    BY DEF Redis!Dispatch
  <1>2. /\ IsMap(l) /\ Redis!Seen(l) = c
        /\ q.k \in DOMAIN l <=> q.k \in DOMAIN c
        /\ q.k \in DOMAIN l => l[q.k] = c[q.k]
    BY LiveIs
  <1>3. Redis!Promised(c, q) = IF q.k \in DOMAIN c /\ c[q.k].val.type # "string"
                               THEN Redis!Answers(c, Redis!Err) ELSE Redis!StringAnswer(c, q)
    BY Promises DEF Redis!StringCommands
  <1> DEFINE absent == q.k \notin DOMAIN c
             n == (IF absent THEN 0 ELSE c[q.k].val.s) + q.v
  <1>4. Redis!StringAnswer(c, q) =
          IF ~absent /\ c[q.k].val.s = Text THEN Redis!Answers(c, Redis!Err)
          ELSE Redis!Answers(Redis!With(c, q.k, Redis!Str(n), "never"), Redis!Num(n))
    BY DEF Redis!StringAnswer
  <1>5. r = IF ~absent /\ c[q.k].val.type # "string" THEN Redis!Result(l, Redis!Err)
            ELSE IF ~absent /\ c[q.k].val.s = Text THEN Redis!Result(l, Redis!Err)
            ELSE IF n \notin Numbers THEN Redis!Result(l, Redis!Panic)
            ELSE Redis!Result(Redis!With(l, q.k, Redis!Str(n), "never"), Redis!Num(n))
    <2> HIDE DEF c, l, r
    <2>1. Redis!Str(0).type = "string" /\ Redis!Str(0).s = 0 /\ Text # 0
      BY TextAssumption DEF Redis!Str, TextAssumption
    <2>2. CASE absent
      BY <1>1, <1>2, <2>1, <2>2 DEF Redis!IncrBy, l
    <2>3. CASE ~absent
      BY <1>1, <1>2, <2>1, <2>3 DEF Redis!IncrBy, l
    <2>4. QED
      BY <2>2, <2>3
  <1>6. IsValue(Redis!Str(n))
    BY DEF IsValue, Redis!Str
  <1> HIDE DEF n
  <1>7. /\ IsMap(Redis!With(l, q.k, Redis!Str(n), "never"))
        /\ Redis!Seen(Redis!With(l, q.k, Redis!Str(n), "never")) = Redis!With(c, q.k, Redis!Str(n), "never")
    <2> HIDE DEF c, l
    <2>1. QED
      BY <1>2, <1>6, SeenEndless
  <1> HIDE DEF c, l, r
  <1>8. QED
    BY <1>2, <1>3, <1>4, <1>5, <1>7 DEF Served, Redis!Answers, Redis!Result, c, r

LEMMA SetServed ==
  \A d, q : IsMap(d) /\ q \in Commands /\ q.op = "SET" => Served(d, q)
  <1> SUFFICES ASSUME NEW d, NEW q \in Commands, IsMap(d), q.op = "SET" PROVE Served(d, q)
    OBVIOUS
  <1> DEFINE c == Redis!Seen(d)
             r == Redis!Dispatch(d, q)
             e == Redis!With(d, q.k, Redis!Str(q.v), q.ttl)
  <1>1. r = Redis!Set(d, q)
    BY DEF Redis!Dispatch
  <1>2. Redis!Promised(c, q) = Redis!KeyAnswer(c, q)
    BY Promises DEF Redis!StringCommands, Redis!ListCommands, Redis!HashCommands
  <1>3. Redis!KeyAnswer(c, q) =
          Redis!Answers(IF q.ttl = "past" THEN Redis!Without(c, {q.k})
                        ELSE Redis!With(c, q.k, Redis!Str(q.v), q.ttl), Redis!Ok)
    BY DEF Redis!KeyAnswer
  <1>4. IsValue(Redis!Str(q.v)) /\ q.ttl \in {"never", "armed", "past", "huge"}
    BY CommandsAssumption DEF IsValue, Redis!Str, CommandsAssumption
  <1>5. /\ q.ttl \in Unexpired => /\ IsMap(e)
                                  /\ Redis!Seen(e) = Redis!With(c, q.k, Redis!Str(q.v), q.ttl)
        /\ q.ttl = "past" => IsMap(e) /\ Redis!Seen(e) = Redis!Without(c, {q.k})
    BY <1>4, SeenWith, SeenExpired
  <1>6. r = IF q.ttl = "huge" THEN Redis!Result(d, Redis!Panic) ELSE Redis!Result(e, Redis!Ok)
    BY <1>1 DEF Redis!Set
  <1> HIDE DEF c, r, e
  <1>7. QED
    BY <1>2, <1>3, <1>4, <1>5, <1>6 DEF Unexpired, Served, Redis!Answers, Redis!Result, c, r

LEMMA SetNxServed ==
  \A d, q : IsMap(d) /\ q.op = "SETNX" => Served(d, q)
  <1> SUFFICES ASSUME NEW d, NEW q, IsMap(d), q.op = "SETNX" PROVE Served(d, q)
    OBVIOUS
  <1> DEFINE c == Redis!Seen(d)
             r == Redis!Dispatch(d, q)
             l == Redis!Live(d, q.k)
             e == Redis!With(l, q.k, Redis!Str(q.v), "never")
  <1>1. r = Redis!SetNx(d, q)
    BY DEF Redis!Dispatch
  <1>2. Redis!Promised(c, q) = Redis!KeyAnswer(c, q)
    BY Promises DEF Redis!StringCommands, Redis!ListCommands, Redis!HashCommands
  <1>3. Redis!KeyAnswer(c, q) =
          IF q.k \notin DOMAIN c
          THEN Redis!Answers(Redis!With(c, q.k, Redis!Str(q.v), "never"), Redis!Num(1))
          ELSE Redis!Answers(c, Redis!Num(0))
    BY DEF Redis!KeyAnswer
  <1>4. /\ IsMap(l) /\ Redis!Seen(l) = c
        /\ q.k \in DOMAIN l <=> q.k \in DOMAIN c
    BY LiveIs
  <1>5. IsValue(Redis!Str(q.v))
    BY DEF IsValue, Redis!Str
  <1>6. IsMap(e) /\ Redis!Seen(e) = Redis!With(c, q.k, Redis!Str(q.v), "never")
    <2> HIDE DEF c, l
    <2>1. QED
      BY <1>4, <1>5, SeenEndless
  <1>7. r = IF q.k \in DOMAIN l THEN Redis!Result(l, Redis!Num(0)) ELSE Redis!Result(e, Redis!Num(1))
    BY <1>1 DEF Redis!SetNx
  <1> HIDE DEF c, r, e, l
  <1>8. QED
    BY <1>2, <1>3, <1>4, <1>6, <1>7 DEF Served, Redis!Answers, Redis!Result, c, r

LEMMA ExpireServed ==
  \A d, q : IsMap(d) /\ q \in Commands /\ q.op = "EXPIRE" => Served(d, q)
  <1> SUFFICES ASSUME NEW d, NEW q \in Commands, IsMap(d), q.op = "EXPIRE" PROVE Served(d, q)
    OBVIOUS
  <1> DEFINE c == Redis!Seen(d)
             r == Redis!Dispatch(d, q)
             l == Redis!Live(d, q.k)
             e == Redis!With(l, q.k, l[q.k].val, q.ttl)
  <1>1. r = Redis!Expire(d, q)
    BY DEF Redis!Dispatch
  <1>2. Redis!Promised(c, q) = Redis!KeyAnswer(c, q)
    BY Promises DEF Redis!StringCommands, Redis!ListCommands, Redis!HashCommands
  <1>3. Redis!KeyAnswer(c, q) =
          IF q.k \notin DOMAIN c THEN Redis!Answers(c, Redis!Num(0))
          ELSE Redis!Answers(IF q.ttl = "past" THEN Redis!Without(c, {q.k})
                             ELSE Redis!With(c, q.k, c[q.k].val, q.ttl), Redis!Num(1))
    BY DEF Redis!KeyAnswer
  <1>4. /\ IsMap(l) /\ Redis!Seen(l) = c
        /\ q.k \in DOMAIN l <=> q.k \in DOMAIN c
        /\ q.k \in DOMAIN l => l[q.k] = c[q.k]
    BY LiveIs
  <1>5. q.ttl \in {"armed", "past", "huge"}
    BY CommandsAssumption DEF CommandsAssumption
  <1>6. q.k \in DOMAIN l => IsValue(l[q.k].val)
    BY <1>4 DEF IsMap
  <1>7. /\ q.k \in DOMAIN l /\ q.ttl \in Unexpired =>
             IsMap(e) /\ Redis!Seen(e) = Redis!With(c, q.k, l[q.k].val, q.ttl)
        /\ q.k \in DOMAIN l /\ q.ttl = "past" => IsMap(e) /\ Redis!Seen(e) = Redis!Without(c, {q.k})
    <2> DEFINE val == l[q.k].val
    <2>1. q.k \in DOMAIN l => IsValue(val)
      BY <1>6
    <2> HIDE DEF c, l, val
    <2>2. q.k \in DOMAIN l /\ q.ttl \in Unexpired =>
            /\ IsMap(Redis!With(l, q.k, val, q.ttl))
            /\ Redis!Seen(Redis!With(l, q.k, val, q.ttl)) = Redis!With(c, q.k, val, q.ttl)
      BY <1>4, <2>1, SeenWith
    <2>3. q.k \in DOMAIN l /\ q.ttl = "past" =>
            /\ IsMap(Redis!With(l, q.k, val, q.ttl))
            /\ Redis!Seen(Redis!With(l, q.k, val, q.ttl)) = Redis!Without(c, {q.k})
      BY <1>4, <2>1, SeenExpired
    <2>4. QED
      BY <2>2, <2>3 DEF val
  <1>8. r = IF q.k \notin DOMAIN l THEN Redis!Result(l, Redis!Num(0))
            ELSE IF q.ttl = "huge" THEN Redis!Result(l, Redis!Panic) ELSE Redis!Result(e, Redis!Num(1))
    BY <1>1 DEF Redis!Expire
  <1> HIDE DEF c, r, e, l
  <1>9. QED
    BY <1>2, <1>3, <1>4, <1>5, <1>7, <1>8 DEF Unexpired, Served, Redis!Answers, Redis!Result, c, r

LEMMA TtlServed ==
  \A d, q : IsMap(d) /\ q.op \in {"TTL", "TYPE"} => Served(d, q)
  <1> SUFFICES ASSUME NEW d, NEW q, IsMap(d), q.op \in {"TTL", "TYPE"} PROVE Served(d, q)
    OBVIOUS
  <1> DEFINE c == Redis!Seen(d)
             r == Redis!Dispatch(d, q)
             l == Redis!Live(d, q.k)
  <1>1. r = IF q.op = "TTL" THEN Redis!Ttl(d, q) ELSE Redis!TypeCmd(d, q)
    BY DEF Redis!Dispatch
  <1>2. Redis!Promised(c, q) = Redis!KeyAnswer(c, q)
    BY Promises DEF Redis!StringCommands, Redis!ListCommands, Redis!HashCommands
  <1>3. Redis!KeyAnswer(c, q) =
          Redis!Answers(c, IF q.op = "TTL"
                           THEN Redis!Num(IF q.k \notin DOMAIN c THEN -2
                                          ELSE IF c[q.k].expiry = "never" THEN -1 ELSE 1)
                           ELSE Redis!Bulk(IF q.k \notin DOMAIN c THEN "none" ELSE c[q.k].val.type))
    BY DEF Redis!KeyAnswer
  <1>4. /\ IsMap(l) /\ Redis!Seen(l) = c
        /\ q.k \in DOMAIN l <=> q.k \in DOMAIN c
        /\ q.k \in DOMAIN l => l[q.k] = c[q.k]
    BY LiveIs
  <1>5. r = Redis!Result(l, IF q.op = "TTL"
                            THEN Redis!Num(IF q.k \notin DOMAIN l THEN -2
                                           ELSE IF l[q.k].expiry = "never" THEN -1 ELSE 1)
                            ELSE Redis!Bulk(IF q.k \notin DOMAIN l THEN "none" ELSE l[q.k].val.type))
    BY <1>1 DEF Redis!Ttl, Redis!TypeCmd
  <1> HIDE DEF c, r, l
  <1>6. QED
    BY <1>2, <1>3, <1>4, <1>5 DEF Served, Redis!Answers, Redis!Result, c, r

LEMMA MGetServed ==
  \A d, q : IsMap(d) /\ q.op = "MGET" => Served(d, q)
  <1> SUFFICES ASSUME NEW d, NEW q, IsMap(d), q.op = "MGET" PROVE Served(d, q)
    OBVIOUS
  <1> DEFINE c == Redis!Seen(d)
             r == Redis!Dispatch(d, q)
             l == Redis!Without(d, q.K \cap Redis!Expired(d))
             F(k) == Redis!Read(d, k, "string", Redis!Null, Redis!Bulk(d[k].val.s)).reply
             G(k) == IF Redis!Holds(c, k, "string") THEN Redis!Bulk(c[k].val.s)
                     ELSE IF k \in DOMAIN c THEN Redis!Err ELSE Redis!Null
  <1>1. r = Redis!Result(l, Redis!Arr(<<[k \in q.K |-> F(k)]>>))
    BY DEF Redis!Dispatch, Redis!MGet
  <1>2. Redis!Promised(c, q) = Redis!KeyAnswer(c, q)
    BY Promises DEF Redis!StringCommands, Redis!ListCommands, Redis!HashCommands
  <1>3. Redis!KeyAnswer(c, q) = Redis!Answers(c, Redis!Arr(<<[k \in q.K |-> G(k)]>>))
    BY DEF Redis!KeyAnswer
  <1>4. IsMap(l) /\ Redis!Seen(l) = c
    BY SeenLive
  <1>5. \A k \in q.K : F(k) = G(k)
    BY ReadServed DEF Redis!Holds
  <1>6. [k \in q.K |-> F(k)] = [k \in q.K |-> G(k)]
    <2> HIDE DEF F, G
    <2>1. QED
      BY <1>5
  <1> HIDE DEF c, r, l, F, G
  <1>7. QED
    BY <1>1, <1>2, <1>3, <1>4, <1>6 DEF Served, Redis!Answers, Redis!Result, c, r

LEMMA ExistsServed ==
  \A d, q : IsMap(d) /\ q.op = "EXISTS" => Served(d, q)
  <1> SUFFICES ASSUME NEW d, NEW q, IsMap(d), q.op = "EXISTS" PROVE Served(d, q)
    OBVIOUS
  <1> DEFINE c == Redis!Seen(d)
             r == Redis!Dispatch(d, q)
             l == Redis!Without(d, q.K \cap Redis!Expired(d))
  <1>1. r = Redis!Result(l, Redis!Num(Cardinality(q.K \cap DOMAIN l)))
    BY SameCount DEF Redis!Dispatch, Redis!Exists
  <1>2. Redis!Promised(c, q) = Redis!KeyAnswer(c, q)
    BY Promises DEF Redis!StringCommands, Redis!ListCommands, Redis!HashCommands
  <1>3. Redis!KeyAnswer(c, q) = Redis!Answers(c, Redis!Num(Cardinality(q.K \cap DOMAIN c)))
    BY SameCount DEF Redis!KeyAnswer
  <1>4. IsMap(l) /\ Redis!Seen(l) = c /\ \A k \in q.K : k \in DOMAIN l <=> k \in DOMAIN c
    BY SeenLive
  <1> HIDE DEF c, r, l
  <1>5. q.K \cap DOMAIN l = q.K \cap DOMAIN c
    BY <1>4
  <1>6. QED
    BY <1>1, <1>2, <1>3, <1>4, <1>5 DEF Served, Redis!Answers, Redis!Result, c, r

LEMMA KeysServed ==
  \A d, q : IsMap(d) /\ q.op \in {"KEYS", "PING", "COMMAND"} => Served(d, q)
  <1> SUFFICES ASSUME NEW d, NEW q, IsMap(d), q.op \in {"KEYS", "PING", "COMMAND"} PROVE Served(d, q)
    OBVIOUS
  <1> DEFINE c == Redis!Seen(d)
             r == Redis!Dispatch(d, q)
  <1>1. r = IF q.op = "KEYS" THEN Redis!Result(c, Redis!Arr(<<DOMAIN c>>)) ELSE Redis!Result(d, Redis!Ok)
    BY DEF Redis!Dispatch, Redis!KeysCmd
  <1>2. Redis!Promised(c, q) = Redis!KeyAnswer(c, q)
    BY Promises DEF Redis!StringCommands, Redis!ListCommands, Redis!HashCommands
  <1>3. Redis!KeyAnswer(c, q) = Redis!Answers(c, IF q.op = "KEYS" THEN Redis!Arr(<<DOMAIN c>>) ELSE Redis!Ok)
    BY DEF Redis!KeyAnswer
  <1>4. IsMap(c) /\ Redis!Seen(c) = c
    <2>1. IsFun(c) /\ \A k \in DOMAIN c : k \in DOMAIN d /\ c[k] = d[k] /\ d[k].expiry # "past"
      BY SeenIs
    <2> HIDE DEF c
    <2>2. IsMap(c)
      BY <2>1 DEF IsMap
    <2>3. /\ \A k : k \in DOMAIN Redis!Seen(c) <=> k \in DOMAIN c
          /\ \A k \in DOMAIN Redis!Seen(c) : Redis!Seen(c)[k] = c[k]
          /\ IsFun(Redis!Seen(c))
      BY <2>1, SeenIs
    <2>4. Redis!Seen(c) = c
      BY <2>1, <2>3, SameMap
    <2>5. QED
      BY <2>2, <2>4
  <1> HIDE DEF c, r
  <1>5. QED
    BY <1>1, <1>2, <1>3, <1>4 DEF Served, Redis!Answers, Redis!Result, c, r

LEMMA FlushServed ==
  \A d, q : IsMap(d) /\ q.op = "FLUSHDB" => Served(d, q)
  <1> SUFFICES ASSUME NEW d, NEW q, IsMap(d), q.op = "FLUSHDB" PROVE Served(d, q)
    OBVIOUS
  <1> DEFINE c == Redis!Seen(d)
             r == Redis!Dispatch(d, q)
             l == Redis!Without(d, DOMAIN d)
             x == Redis!Without(c, DOMAIN d)
             y == Redis!Without(c, DOMAIN c)
  <1>1. r = Redis!Result(l, Redis!Ok)
    BY DEF Redis!Dispatch
  <1>2. Redis!Promised(c, q) = Redis!KeyAnswer(c, q)
    BY Promises DEF Redis!StringCommands, Redis!ListCommands, Redis!HashCommands
  <1>3. Redis!KeyAnswer(c, q) = Redis!Answers(y, Redis!Ok)
    BY DEF Redis!KeyAnswer
  <1>4. IsMap(l) /\ Redis!Seen(l) = x
    BY SeenWithout
  <1>5. /\ IsFun(x) /\ IsFun(y)
        /\ \A k : k \in DOMAIN x <=> k \in DOMAIN y
        /\ \A k \in DOMAIN x : x[k] = y[k]
    <2>1. \A k : k \in DOMAIN c => k \in DOMAIN d
      BY SeenIs
    <2> HIDE DEF c
    <2>2. QED
      BY <2>1, WithoutIs
  <1> HIDE DEF c, r, l, x, y
  <1>6. x = y
    BY <1>5, SameMap
  <1>7. QED
    BY <1>1, <1>2, <1>3, <1>4, <1>6 DEF Served, Redis!Answers, Redis!Result, c, r

\* Deletions leave what was promised, and answer it when they meet no expired entry.
LEMMA DelServed ==
  \A d, q : IsMap(d) /\ q.op = "DEL" =>
    LET r == Redis!Dispatch(d, q)
        p == Redis!Promised(Redis!Seen(d), q) IN
    /\ IsMap(r.data) /\ Redis!Seen(r.data) = p.contents
    /\ q.K \cap Redis!Expired(d) = {} => r.reply = p.reply
  <1> SUFFICES ASSUME NEW d, NEW q, IsMap(d), q.op = "DEL"
               PROVE  LET r == Redis!Dispatch(d, q)
                          p == Redis!Promised(Redis!Seen(d), q) IN
                      /\ IsMap(r.data) /\ Redis!Seen(r.data) = p.contents
                      /\ q.K \cap Redis!Expired(d) = {} => r.reply = p.reply
    OBVIOUS
  <1> DEFINE c == Redis!Seen(d)
             r == Redis!Dispatch(d, q)
             l == Redis!Without(d, q.K)
  <1>1. r = Redis!Result(l, Redis!Num(Cardinality(q.K \cap DOMAIN d)))
    BY SameCount DEF Redis!Dispatch, Redis!Del
  <1>2. Redis!Promised(c, q) = Redis!KeyAnswer(c, q)
    BY Promises DEF Redis!StringCommands, Redis!ListCommands, Redis!HashCommands
  <1>3. Redis!KeyAnswer(c, q) = Redis!Answers(Redis!Without(c, q.K), Redis!Num(Cardinality(q.K \cap DOMAIN c)))
    BY SameCount DEF Redis!KeyAnswer
  <1>4. IsMap(l) /\ Redis!Seen(l) = Redis!Without(c, q.K)
    BY SeenWithout
  <1>5. q.K \cap Redis!Expired(d) = {} => q.K \cap DOMAIN d = q.K \cap DOMAIN c
    BY SeenIs DEF Redis!Expired
  <1> HIDE DEF c, r, l
  <1>6. QED
    BY <1>1, <1>2, <1>3, <1>4, <1>5 DEF Redis!Answers, Redis!Result, c, r

LEMMA MSetServed ==
  \A d, q : IsMap(d) /\ q.op = "MSET" => Served(d, q)
  <1> SUFFICES ASSUME NEW d, NEW q, IsMap(d), q.op = "MSET" PROVE Served(d, q)
    OBVIOUS
  <1> DEFINE Written(m) == [j \in DOMAIN m \cup q.K |->
                              IF j \in q.K THEN [val |-> Redis!Str(q.v), expiry |-> "never"] ELSE m[j]]
             c == Redis!Seen(d)
             r == Redis!Dispatch(d, q)
             e == Written(d)
             x == Redis!Seen(e)
             y == Written(c)
  <1>1. r = Redis!Result(e, Redis!Ok)
    BY DEF Redis!Dispatch, Redis!MSet
  <1>2. Redis!Promised(c, q) = Redis!KeyAnswer(c, q)
    BY Promises DEF Redis!StringCommands, Redis!ListCommands, Redis!HashCommands
  <1>3. Redis!KeyAnswer(c, q) = Redis!Answers(y, Redis!Ok)
    BY DEF Redis!KeyAnswer
  <1>4. /\ IsFun(e) /\ IsFun(y)
        /\ \A k : k \in DOMAIN e <=> k \in DOMAIN d \/ k \in q.K
        /\ \A k : k \in DOMAIN y <=> k \in DOMAIN c \/ k \in q.K
        /\ \A k \in q.K : e[k] = [val |-> Redis!Str(q.v), expiry |-> "never"] /\ y[k] = e[k]
        /\ \A k \in DOMAIN d : k \notin q.K => e[k] = d[k]
        /\ \A k \in DOMAIN c : k \notin q.K => y[k] = c[k]
    <2> HIDE DEF c
    <2>1. QED
      BY DEF IsFun
  <1>5. /\ \A k : k \in DOMAIN c <=> k \in DOMAIN d /\ d[k].expiry # "past"
        /\ \A k \in DOMAIN c : c[k] = d[k]
    BY SeenIs
  <1>6. /\ \A k : k \in DOMAIN x <=> k \in DOMAIN e /\ e[k].expiry # "past"
        /\ \A k \in DOMAIN x : x[k] = e[k]
        /\ IsFun(x)
    <2> HIDE DEF e
    <2>1. QED
      BY SeenIs
  <1>7. IsValue(Redis!Str(q.v))
    BY DEF IsValue, Redis!Str
  <1> HIDE DEF c, r, e, x, y
  <1>8. IsMap(e)
    BY <1>4, <1>7 DEF IsMap
  <1>9. (\A k : k \in DOMAIN x <=> k \in DOMAIN y) /\ \A k \in DOMAIN x : x[k] = y[k]
    BY <1>4, <1>5, <1>6
  <1>10. x = y
    BY <1>4, <1>6, <1>9, SameMap
  <1>11. QED
    BY <1>1, <1>2, <1>3, <1>8, <1>10 DEF Served, Redis!Answers, Redis!Result, c, r, x

---------------------------------------------------------------------------------
\* The hashes.

\* What hset, hsetnx and hincrby write to.
LEMMA EntryIs ==
  \A d, k : IsMap(d) =>
    LET h == Redis!HashEntry(d, k)
        c == Redis!Seen(d) IN
    /\ IsMap(h) /\ k \in DOMAIN h /\ h[k].expiry \in Unexpired
    /\ k \in DOMAIN c => h = d /\ k \in DOMAIN d /\ c[k] = d[k]
    /\ k \notin DOMAIN c => /\ h = Redis!With(d, k, Redis!Hash(Redis!NoFields), "never")
                            /\ h[k].val = Redis!Hash(Redis!NoFields) /\ h[k].expiry = "never"
  <1> SUFFICES ASSUME NEW d, NEW k, IsMap(d)
               PROVE  LET h == Redis!HashEntry(d, k)
                          c == Redis!Seen(d) IN
                      /\ IsMap(h) /\ k \in DOMAIN h /\ h[k].expiry \in Unexpired
                      /\ k \in DOMAIN c => h = d /\ k \in DOMAIN d /\ c[k] = d[k]
                      /\ k \notin DOMAIN c =>
                           /\ h = Redis!With(d, k, Redis!Hash(Redis!NoFields), "never")
                           /\ h[k].val = Redis!Hash(Redis!NoFields) /\ h[k].expiry = "never"
    OBVIOUS
  <1> DEFINE h == Redis!HashEntry(d, k)
             c == Redis!Seen(d)
             fresh == Redis!Hash(Redis!NoFields)
             e == Redis!With(d, k, fresh, "never")
  <1>1. k \in DOMAIN c <=> k \in DOMAIN d /\ d[k].expiry # "past"
    BY SeenIs
  <1>2. k \in DOMAIN c => c[k] = d[k]
    BY SeenIs
  <1>3. h = IF k \in DOMAIN c THEN d ELSE e
    BY <1>1 DEF Redis!HashEntry
  <1>4. IsValue(fresh)
    BY DEF IsValue, Redis!Hash
  <1> HIDE DEF fresh
  <1>5. IsMap(e)
    BY <1>4, SeenEndless
  <1>6. k \in DOMAIN e /\ e[k] = [val |-> fresh, expiry |-> "never"]
    BY WithIs
  <1> HIDE DEF h, c, e
  <1>7. CASE k \in DOMAIN c
    BY <1>1, <1>2, <1>3, <1>7 DEF h, c, IsMap, Unexpired
  <1>8. CASE k \notin DOMAIN c
    BY <1>3, <1>5, <1>6, <1>8 DEF h, c, e, fresh, Unexpired
  <1>9. QED
    BY <1>7, <1>8

\* A hash in an entry that is not expired, written over.
LEMMA KeptHash ==
  \A d, k, hash : IsMap(d) =>
    LET h == Redis!HashEntry(d, k)
        c == Redis!Seen(d)
        e == Redis!KeepHash(h, k, hash) IN
    /\ IsMap(e)
    /\ Redis!Seen(e) = Redis!With(c, k, Redis!Hash(hash), IF k \in DOMAIN c THEN c[k].expiry ELSE "never")
  <1> SUFFICES ASSUME NEW d, NEW k, NEW hash, IsMap(d)
               PROVE  LET h == Redis!HashEntry(d, k)
                          c == Redis!Seen(d)
                          e == Redis!KeepHash(h, k, hash) IN
                      /\ IsMap(e)
                      /\ Redis!Seen(e) = Redis!With(c, k, Redis!Hash(hash),
                                                    IF k \in DOMAIN c THEN c[k].expiry ELSE "never")
    OBVIOUS
  <1> DEFINE h == Redis!HashEntry(d, k)
             c == Redis!Seen(d)
             val == Redis!Hash(hash)
             x == h[k].expiry
             e == Redis!With(h, k, val, x)
             fresh == Redis!Hash(Redis!NoFields)
  <1>1. Redis!KeepHash(h, k, hash) = e
    BY DEF Redis!KeepHash
  <1>2. /\ IsMap(h) /\ k \in DOMAIN h /\ x \in Unexpired
        /\ k \in DOMAIN c => h = d /\ c[k] = d[k]
        /\ k \notin DOMAIN c => h = Redis!With(d, k, fresh, "never") /\ x = "never"
    BY EntryIs
  <1>3. IsValue(val)
    BY DEF IsValue, Redis!Hash
  <1>4. e = Redis!With(d, k, val, x)
    <2> HIDE DEF h, c, val, x, fresh
    <2>1. CASE k \in DOMAIN c
      BY <1>2, <2>1
    <2>2. CASE k \notin DOMAIN c
      BY <1>2, <2>2, WithTwice
    <2>3. QED
      BY <2>1, <2>2
  <1>5. x = IF k \in DOMAIN c THEN c[k].expiry ELSE "never"
    <2> HIDE DEF c
    <2>1. CASE k \in DOMAIN c
      BY <1>2, <2>1
    <2>2. CASE k \notin DOMAIN c
      BY <1>2, <2>2
    <2>3. QED
      BY <2>1, <2>2
  <1> HIDE DEF h, val, x, e
  <1>6. IsMap(e) /\ Redis!Seen(e) = Redis!With(c, k, val, x)
    BY <1>2, <1>3, <1>4, SeenWith
  <1> HIDE DEF c
  <1>7. QED
    BY <1>1, <1>5, <1>6 DEF h, c, val

LEMMA HSetServed ==
  \A d, q : IsMap(d) /\ q.op \in {"HSET", "HSETNX"} => Served(d, q)
  <1> SUFFICES ASSUME NEW d, NEW q, IsMap(d), q.op \in {"HSET", "HSETNX"} PROVE Served(d, q)
    OBVIOUS
  <1> DEFINE c == Redis!Seen(d)
             r == Redis!Dispatch(d, q)
             absent == q.k \notin DOMAIN c
             h == Redis!HashEntry(d, q.k)
             hash == h[q.k].val.hash
             new == Redis!WithField(hash, q.f, q.v)
             e == Redis!KeepHash(h, q.k, new)
             expiry == IF q.k \in DOMAIN c THEN c[q.k].expiry ELSE "never"
  <1>1. r = Redis!HSet(d, q)
    BY DEF Redis!Dispatch
  <1>2. Redis!Promised(c, q) = IF q.k \in DOMAIN c /\ c[q.k].val.type # "hash"
                               THEN Redis!Answers(c, Redis!Err) ELSE Redis!HashAnswer(c, q)
    BY Promises DEF Redis!HashCommands
  <1>3. /\ IsMap(h)
        /\ ~absent => h = d /\ c[q.k] = h[q.k]
        /\ absent => h[q.k].val = Redis!Hash(Redis!NoFields)
    BY EntryIs
  <1>4. IsMap(e) /\ Redis!Seen(e) = Redis!With(c, q.k, Redis!Hash(new), expiry)
    <2> HIDE DEF new
    <2>1. QED
      BY KeptHash
  <1>5. hash = IF absent THEN [f \in {} |-> f] ELSE c[q.k].val.hash
    <2> HIDE DEF c, h
    <2>1. QED
      BY <1>3 DEF Redis!Hash, Redis!NoFields
  <1>6. absent => h[q.k].val.type = "hash"
    BY <1>3 DEF Redis!Hash
  <1>7. Redis!HashAnswer(c, q) =
          IF q.op = "HSETNX" /\ q.f \in DOMAIN hash THEN Redis!Answers(c, Redis!Num(0))
          ELSE Redis!Answers(Redis!With(c, q.k, Redis!Hash(new), expiry),
                             Redis!Num(IF q.f \in DOMAIN hash THEN 0 ELSE 1))
    <2> HIDE DEF c, hash
    <2>1. QED
      BY <1>5 DEF Redis!HashAnswer
  <1>8. r = IF h[q.k].val.type # "hash" THEN Redis!Result(h, Redis!Err)
            ELSE IF q.op = "HSETNX" /\ q.f \in DOMAIN hash THEN Redis!Result(h, Redis!Num(0))
            ELSE Redis!Result(e, Redis!Num(IF q.f \in DOMAIN hash THEN 0 ELSE 1))
    BY <1>1, Zenon DEF Redis!HSet
  <1>9. q.f \notin DOMAIN hash \/ ~absent
    <2> HIDE DEF c, hash
    <2>1. QED
      BY <1>5
  <1> HIDE DEF c, r, h, hash, new, e, expiry
  <1>10. QED
    BY <1>2, <1>3, <1>4, <1>6, <1>7, <1>8, <1>9 DEF Served, Redis!Answers, Redis!Result, c, r

LEMMA HIncrByServed ==
  \A d, q : IsMap(d) /\ q.op = "HINCRBY" => Served(d, q)
  <1> SUFFICES ASSUME NEW d, NEW q, IsMap(d), q.op = "HINCRBY" PROVE Served(d, q)
    OBVIOUS
  <1> DEFINE c == Redis!Seen(d)
             r == Redis!Dispatch(d, q)
             absent == q.k \notin DOMAIN c
             h == Redis!HashEntry(d, q.k)
             hash == h[q.k].val.hash
             cur == IF q.f \notin DOMAIN hash THEN 0 ELSE IF hash[q.f] = Text THEN 0 ELSE hash[q.f]
             new == Redis!WithField(hash, q.f, cur + q.v)
             e == Redis!KeepHash(h, q.k, new)
             expiry == IF q.k \in DOMAIN c THEN c[q.k].expiry ELSE "never"
  <1>1. r = Redis!HIncrBy(d, q)
    BY DEF Redis!Dispatch
  <1>2. Redis!Promised(c, q) = IF q.k \in DOMAIN c /\ c[q.k].val.type # "hash"
                               THEN Redis!Answers(c, Redis!Err) ELSE Redis!HashAnswer(c, q)
    BY Promises DEF Redis!HashCommands
  <1>3. /\ IsMap(h)
        /\ ~absent => h = d /\ c[q.k] = h[q.k]
        /\ absent => h[q.k].val = Redis!Hash(Redis!NoFields)
    BY EntryIs
  <1>4. IsMap(e) /\ Redis!Seen(e) = Redis!With(c, q.k, Redis!Hash(new), expiry)
    <2> HIDE DEF new
    <2>1. QED
      BY KeptHash
  <1>5. hash = IF absent THEN [f \in {} |-> f] ELSE c[q.k].val.hash
    <2> HIDE DEF c, h
    <2>1. QED
      BY <1>3 DEF Redis!Hash, Redis!NoFields
  <1>6. absent => h[q.k].val.type = "hash"
    BY <1>3 DEF Redis!Hash
  <1>7. Redis!HashAnswer(c, q) =
          Redis!Answers(Redis!With(c, q.k, Redis!Hash(new), expiry), Redis!Num(cur + q.v))
    <2> HIDE DEF c, hash
    <2>1. QED
      BY <1>5 DEF Redis!HashAnswer
  <1>8. r = IF h[q.k].val.type # "hash" THEN Redis!Result(h, Redis!Err)
            ELSE IF cur + q.v \notin Numbers THEN Redis!Result(h, Redis!Panic)
            ELSE Redis!Result(e, Redis!Num(cur + q.v))
    BY <1>1, Zenon DEF Redis!HIncrBy
  <1> HIDE DEF c, r, h, hash, cur, new, e, expiry
  <1>9. QED
    BY <1>2, <1>3, <1>4, <1>6, <1>7, <1>8 DEF Served, Redis!Answers, Redis!Result, c, r

LEMMA HDelServed ==
  \A d, q : IsMap(d) /\ q.op = "HDEL" => Served(d, q)
  <1> SUFFICES ASSUME NEW d, NEW q, IsMap(d), q.op = "HDEL" PROVE Served(d, q)
    OBVIOUS
  <1> DEFINE c == Redis!Seen(d)
             r == Redis!Dispatch(d, q)
             l == Redis!Live(d, q.k)
             hash == l[q.k].val.hash
             new == [g \in DOMAIN hash \ {q.f} |-> hash[g]]
             x == l[q.k].expiry
             e == Redis!With(l, q.k, Redis!Hash(new), x)
             count == Cardinality({q.f} \cap DOMAIN hash)
  <1>1. r = Redis!HDel(d, q)
    BY DEF Redis!Dispatch
  <1>2. Redis!Promised(c, q) = IF q.k \in DOMAIN c /\ c[q.k].val.type # "hash"
                               THEN Redis!Answers(c, Redis!Err) ELSE Redis!HashAnswer(c, q)
    BY Promises DEF Redis!HashCommands
  <1>3. /\ IsMap(l) /\ Redis!Seen(l) = c
        /\ q.k \in DOMAIN l <=> q.k \in DOMAIN c
        /\ q.k \in DOMAIN l => l[q.k] = c[q.k]
    BY LiveIs
  <1>4. q.k \in DOMAIN c => x \in Unexpired
    BY <1>3, SeenIs DEF IsMap, Unexpired
  <1>5. IsValue(Redis!Hash(new))
    BY DEF IsValue, Redis!Hash
  <1>6. q.k \in DOMAIN c => /\ IsMap(e)
                            /\ Redis!Seen(e) = Redis!With(c, q.k, Redis!Hash(new), x)
    <2> HIDE DEF c, l, new, x
    <2>1. QED
      BY <1>3, <1>4, <1>5, SeenWith
  <1>7. Redis!HashAnswer(c, q) =
          IF q.k \notin DOMAIN c THEN Redis!Answers(c, Redis!Num(0))
          ELSE Redis!Answers(Redis!With(c, q.k, Redis!Hash(new), x), Redis!Num(count))
    <2> HIDE DEF c, l
    <2>1. CASE q.k \notin DOMAIN c
      BY <2>1 DEF Redis!HashAnswer
    <2>2. CASE q.k \in DOMAIN c
      BY <1>3, <2>2, SameCount DEF Redis!HashAnswer
    <2>3. QED
      BY <2>1, <2>2
  <1>8. r = IF q.k \notin DOMAIN l THEN Redis!Result(l, Redis!Num(0))
            ELSE IF l[q.k].val.type # "hash" THEN Redis!Result(l, Redis!Err)
            ELSE Redis!Result(e, Redis!Num(count))
    BY <1>1, SameCount DEF Redis!HDel, Redis!KeepHash
  <1> HIDE DEF c, r, l, hash, new, x, e, count
  <1>9. QED
    BY <1>2, <1>3, <1>6, <1>7, <1>8 DEF Served, Redis!Answers, Redis!Result, c, r

---------------------------------------------------------------------------------
\* The lists.

\* Where an index points to, and the indexes between two.
At(list, i) == IF i < 0 THEN Len(list) + i ELSE i
Wanted(list, start, stop) ==
  {i \in 0 .. Len(list) - 1 : At(list, start) <= i /\ i <= At(list, stop)}

\* Those from lo to hi are the ones asked for, and what they answer.
Ends(list, start, stop, lo, hi) ==
  \A i \in Int : i \in Wanted(list, start, stop) <=> lo <= i /\ i <= hi
Slice(list, lo, hi) ==
  [j \in 1 .. (IF lo > hi THEN 0 ELSE hi - lo + 1) |-> Redis!Bulk(list[lo + j])]

LEMMA BetweenIs ==
  \A list, start, stop, lo, hi :
    list \in Seq(Pushable) /\ lo \in Nat /\ hi \in Int /\ Ends(list, start, stop, lo, hi)
      => Redis!Between(list, start, stop) = Slice(list, lo, hi)
  <1> SUFFICES ASSUME NEW list, NEW start, NEW stop, NEW lo, NEW hi,
                      list \in Seq(Pushable), lo \in Nat, hi \in Int, Ends(list, start, stop, lo, hi)
               PROVE  Redis!Between(list, start, stop) = Slice(list, lo, hi)
    OBVIOUS
  <1> DEFINE W == Wanted(list, start, stop)
             size == IF lo > hi THEN 0 ELSE hi - lo + 1
             Below(i) == {h \in W : h < i}
             Nth(j) == CHOOSE i \in W : Redis!Cardinality(Below(i)) = j - 1
  <1>1. Redis!Between(list, start, stop) =
          [j \in 1 .. Redis!Cardinality(W) |-> Redis!Bulk(list[1 + Nth(j)])]
    BY Zenon DEF Redis!Between, Wanted, At
  <1>2. W = lo .. hi
    <2>1. W \subseteq Int
      BY DEF Wanted
    <2> HIDE DEF W
    <2>2. \A i \in W : i \in lo .. hi
      BY <2>1 DEF W, Ends
    <2>3. \A i \in lo .. hi : i \in W
      BY DEF W, Ends
    <2>4. QED
      BY <2>2, <2>3
  <1> HIDE DEF W
  <1>3. Redis!Cardinality(W) = size
    BY <1>2, FS_Interval, SameCount
  <1>4. \A i \in W : Redis!Cardinality(Below(i)) = i - lo
    <2> SUFFICES ASSUME NEW i \in W PROVE Redis!Cardinality(Below(i)) = i - lo
      OBVIOUS
    <2> DEFINE last == i - 1
    <2>1. Below(i) = lo .. last /\ i \in Int /\ lo <= i /\ last \in Int
      BY <1>2
    <2> HIDE DEF last, Below
    <2>2. Cardinality(lo .. last) = IF lo > last THEN 0 ELSE last - lo + 1
      BY <2>1, FS_Interval
    <2>3. Cardinality(lo .. last) = i - lo
      BY <2>1, <2>2 DEF last
    <2>4. QED
      BY <2>1, <2>3, SameCount
  <1> HIDE DEF Below
  <1>5. \A j \in 1 .. size : Nth(j) = lo + j - 1
    <2> SUFFICES ASSUME NEW j \in 1 .. size PROVE Nth(j) = lo + j - 1
      OBVIOUS
    <2> DEFINE n == lo + j - 1
    <2>1. n \in W /\ n \in Int
      BY <1>2
    <2>2. Redis!Cardinality(Below(n)) = j - 1
      BY <1>4, <2>1
    <2>3. \A i \in W : Redis!Cardinality(Below(i)) = j - 1 => i = n
      BY <1>2, <1>4
    <2> HIDE DEF n
    <2>4. Nth(j) \in W /\ Redis!Cardinality(Below(Nth(j))) = j - 1
      BY <2>1, <2>2
    <2> HIDE DEF Nth
    <2>5. QED
      BY <2>3, <2>4 DEF n
  <1> HIDE DEF Nth
  <1>6. \A j \in 1 .. size : list[1 + Nth(j)] = list[lo + j]
    BY <1>5
  <1> DEFINE F(j) == Redis!Bulk(list[1 + Nth(j)])
             G(j) == Redis!Bulk(list[lo + j])
  <1>7. \A j \in 1 .. size : F(j) = G(j)
    BY <1>6
  <1> HIDE DEF F, G, size
  <1>8. [j \in 1 .. size |-> F(j)] = [j \in 1 .. size |-> G(j)]
    BY <1>7
  <1>9. QED
    BY <1>1, <1>3, <1>8 DEF F, G, size, Slice

\* A range answers what lies between its ends, or panics.
LEMMA RangeIs ==
  \A list, start, stop :
    list \in Seq(Pushable) /\ start \in Int /\ stop \in Int /\ Redis!Range(list, start, stop) # Redis!Panic
      => Redis!Range(list, start, stop) = Redis!Arr(Redis!Between(list, start, stop))
  <1> SUFFICES ASSUME NEW list, NEW start, NEW stop,
                      list \in Seq(Pushable), start \in Int, stop \in Int,
                      Redis!Range(list, start, stop) # Redis!Panic
               PROVE  Redis!Range(list, start, stop) = Redis!Arr(Redis!Between(list, start, stop))
    OBVIOUS
  <1> DEFINE len == Len(list)
             s == IF start < 0 THEN (IF len + start < 0 THEN 0 ELSE len + start)
                  ELSE IF start < len THEN start ELSE len
             e == IF stop < 0 THEN len + stop ELSE IF stop < len - 1 THEN stop ELSE len - 1
             all == [i \in 1 .. e - s + 1 |-> Redis!Bulk(list[s + i])]
             some == Slice(list, s, e)
  <1>1. len \in Nat
    OBVIOUS
  <1>2. s \in Nat /\ e \in Int
    BY <1>1
  <1>3. Ends(list, start, stop, s, e)
    BY <1>1 DEF Ends, Wanted, At
  <1>4. Redis!Range(list, start, stop) =
          IF e < 0 THEN Redis!Panic ELSE IF s > e THEN Redis!Arr(<<>>) ELSE Redis!Arr(all)
    BY Zenon DEF Redis!Range
  <1> HIDE DEF s, e
  <1>5. Redis!Between(list, start, stop) = some
    BY <1>2, <1>3, BetweenIs
  <1>6. IF s > e THEN some = <<>> ELSE some = all
    <2>1. CASE s > e
      BY <1>2, <2>1 DEF Slice
    <2>2. CASE ~(s > e)
      BY <1>2, <2>2 DEF Slice
    <2>3. QED
      BY <2>1, <2>2
  <1> HIDE DEF all, some
  <1>7. QED
    BY <1>4, <1>5, <1>6

\* So does an index.
LEMMA IndexIs ==
  \A list, idx : list \in Seq(Pushable) /\ idx \in Int =>
    Redis!Index(list, idx) =
      LET r == Redis!Between(list, idx, idx) IN IF r = <<>> THEN Redis!Null ELSE r[1]
  <1> SUFFICES ASSUME NEW list, NEW idx, list \in Seq(Pushable), idx \in Int
               PROVE  Redis!Index(list, idx) =
                        LET r == Redis!Between(list, idx, idx) IN IF r = <<>> THEN Redis!Null ELSE r[1]
    OBVIOUS
  <1> DEFINE i == At(list, idx)
             r == Redis!Between(list, idx, idx)
  <1>1. Redis!Index(list, idx) = IF i < 0 \/ i >= Len(list) THEN Redis!Null ELSE Redis!Bulk(list[i + 1])
    BY DEF Redis!Index, At
  <1>2. i \in Int /\ Len(list) \in Nat
    BY DEF At
  <1>3. CASE i < 0 \/ i >= Len(list)
    <2> DEFINE last == -1
    <2>1. last \in Int /\ 0 > last
      OBVIOUS
    <2> HIDE DEF last
    <2>2. Ends(list, idx, idx, 0, last)
      BY <1>2, <1>3 DEF Ends, Wanted, last
    <2>3. r = Slice(list, 0, last)
      BY <2>1, <2>2, BetweenIs
    <2>4. r = <<>>
      BY <2>1, <2>3 DEF Slice
    <2>5. QED
      BY <1>1, <1>3, <2>4
  <1>4. CASE ~(i < 0 \/ i >= Len(list))
    <2>1. Ends(list, idx, idx, i, i) /\ i \in Nat
      BY <1>2, <1>4 DEF Ends, Wanted
    <2> HIDE DEF i
    <2>2. r = Slice(list, i, i)
      BY <1>2, <2>1, BetweenIs
    <2>3. Slice(list, i, i) = [j \in 1 .. 1 |-> Redis!Bulk(list[i + j])]
      BY <2>1 DEF Slice
    <2> HIDE DEF r
    <2>4. r # <<>> /\ r[1] = Redis!Bulk(list[i + 1])
      BY <2>2, <2>3
    <2>5. QED
      BY <1>1, <1>4, <2>4 DEF r
  <1>5. QED
    BY <1>3, <1>4

LEMMA BetweenNone ==
  \A start, stop : Redis!Between(<<>>, start, stop) = <<>>
  <1> SUFFICES ASSUME NEW start, NEW stop PROVE Redis!Between(<<>>, start, stop) = <<>>
    OBVIOUS
  <1> DEFINE list == <<>>
             last == -1
  <1>1. list \in Seq(Pushable) /\ last \in Int /\ 0 > last
    OBVIOUS
  <1>2. Wanted(list, start, stop) = {}
    BY DEF Wanted
  <1> HIDE DEF last
  <1>3. Ends(list, start, stop, 0, last)
    BY <1>2 DEF Ends, last
  <1> HIDE DEF list
  <1>4. Redis!Between(list, start, stop) = Slice(list, 0, last)
    BY <1>1, <1>3, BetweenIs
  <1>5. Slice(list, 0, last) = <<>>
    BY <1>1 DEF Slice
  <1>6. QED
    BY <1>4, <1>5 DEF list

LEMMA RangeServed ==
  \A d, q : IsMap(d) /\ q \in Commands /\ q.op = "LRANGE" => Served(d, q)
  <1> SUFFICES ASSUME NEW d, NEW q \in Commands, IsMap(d), q.op = "LRANGE" PROVE Served(d, q)
    OBVIOUS
  <1> DEFINE c == Redis!Seen(d)
             r == Redis!Dispatch(d, q)
             list == d[q.k].val.list
             range == Redis!Range(list, q.start, q.stop)
             between == Redis!Between(list, q.start, q.stop)
  <1>1. r = Redis!Read(d, q.k, "list", Redis!Arr(<<>>), range)
    BY DEF Redis!Dispatch
  <1>2. /\ IsMap(r.data) /\ Redis!Seen(r.data) = c
        /\ q.k \notin DOMAIN c => r.reply = Redis!Arr(<<>>)
        /\ q.k \in DOMAIN c => /\ c[q.k] = d[q.k] /\ q.k \in DOMAIN d
                               /\ r.reply = IF c[q.k].val.type # "list" THEN Redis!Err ELSE range
    <2> HIDE DEF range
    <2>1. QED
      BY <1>1, ReadServed
  <1>3. Redis!Promised(c, q) = IF q.k \in DOMAIN c /\ c[q.k].val.type # "list"
                               THEN Redis!Answers(c, Redis!Err) ELSE Redis!ListAnswer(c, q)
    BY Promises DEF Redis!ListCommands
  <1>4. Redis!ListAnswer(c, q) =
          Redis!Answers(c, Redis!Arr(Redis!Between(IF q.k \in DOMAIN c THEN c[q.k].val.list ELSE <<>>,
                                                   q.start, q.stop)))
    BY DEF Redis!ListAnswer
  <1>5. q.start \in Int /\ q.stop \in Int
    BY CommandsAssumption DEF CommandsAssumption
  <1>6. q.k \in DOMAIN d /\ d[q.k].val.type = "list" => list \in Seq(Pushable)
    BY DEF IsMap, IsValue
  <1>7. q.k \in DOMAIN d /\ d[q.k].val.type = "list" /\ range # Redis!Panic => range = Redis!Arr(between)
    <2> HIDE DEF list
    <2>1. QED
      BY <1>5, <1>6, RangeIs
  <1> HIDE DEF r, range
  <1>8. CASE q.k \notin DOMAIN c
    <2>1. Redis!Between(<<>>, q.start, q.stop) = <<>>
      BY BetweenNone
    <2> HIDE DEF c
    <2>2. QED
      BY <1>2, <1>3, <1>4, <1>8, <2>1 DEF Served, Redis!Answers, c, r
  <1>9. CASE q.k \in DOMAIN c
    <2>1. c[q.k].val.list = list
      BY <1>2, <1>9
    <2> HIDE DEF c
    <2>2. Redis!ListAnswer(c, q) = Redis!Answers(c, Redis!Arr(between))
      BY <1>4, <1>9, <2>1
    <2> HIDE DEF between, list
    <2>3. QED
      BY <1>2, <1>3, <1>7, <1>9, <2>2 DEF Served, Redis!Answers, c, r
  <1>10. QED
    BY <1>8, <1>9

LEMMA IndexServed ==
  \A d, q : IsMap(d) /\ q \in Commands /\ q.op = "LINDEX" => Served(d, q)
  <1> SUFFICES ASSUME NEW d, NEW q \in Commands, IsMap(d), q.op = "LINDEX" PROVE Served(d, q)
    OBVIOUS
  <1> DEFINE c == Redis!Seen(d)
             r == Redis!Dispatch(d, q)
             list == d[q.k].val.list
             index == Redis!Index(list, q.start)
             First(s) == IF s = <<>> THEN Redis!Null ELSE s[1]
             between == Redis!Between(list, q.start, q.start)
  <1>1. r = Redis!Read(d, q.k, "list", Redis!Null, index)
    BY DEF Redis!Dispatch
  <1>2. /\ IsMap(r.data) /\ Redis!Seen(r.data) = c
        /\ q.k \notin DOMAIN c => r.reply = Redis!Null
        /\ q.k \in DOMAIN c => /\ c[q.k] = d[q.k] /\ q.k \in DOMAIN d
                               /\ r.reply = IF c[q.k].val.type # "list" THEN Redis!Err ELSE index
    <2> HIDE DEF index
    <2>1. QED
      BY <1>1, ReadServed
  <1>3. Redis!Promised(c, q) = IF q.k \in DOMAIN c /\ c[q.k].val.type # "list"
                               THEN Redis!Answers(c, Redis!Err) ELSE Redis!ListAnswer(c, q)
    BY Promises DEF Redis!ListCommands
  <1>4. Redis!ListAnswer(c, q) =
          Redis!Answers(c, First(Redis!Between(IF q.k \in DOMAIN c THEN c[q.k].val.list ELSE <<>>,
                                               q.start, q.start)))
    BY DEF Redis!ListAnswer
  <1>5. q.start \in Int
    BY CommandsAssumption DEF CommandsAssumption
  <1>6. q.k \in DOMAIN d /\ d[q.k].val.type = "list" => list \in Seq(Pushable)
    BY DEF IsMap, IsValue
  <1>7. q.k \in DOMAIN d /\ d[q.k].val.type = "list" => index = First(between)
    <2> HIDE DEF list
    <2>1. QED
      BY <1>5, <1>6, IndexIs
  <1> HIDE DEF r, index
  <1>8. CASE q.k \notin DOMAIN c
    <2>1. Redis!Between(<<>>, q.start, q.start) = <<>>
      BY BetweenNone
    <2> HIDE DEF c
    <2>2. QED
      BY <1>2, <1>3, <1>4, <1>8, <2>1 DEF Served, Redis!Answers, c, r
  <1>9. CASE q.k \in DOMAIN c
    <2>1. c[q.k].val.list = list
      BY <1>2, <1>9
    <2> HIDE DEF c, First
    <2>2. Redis!ListAnswer(c, q) = Redis!Answers(c, First(between))
      BY <1>4, <1>9, <2>1
    <2> HIDE DEF between, list
    <2>3. QED
      BY <1>2, <1>3, <1>7, <1>9, <2>2 DEF Served, Redis!Answers, c, r
  <1>10. QED
    BY <1>8, <1>9

\* What a push makes of a list.
LEMMA PushedIs ==
  \A q, list, front : q \in Commands /\ q.op \in {"LPUSH", "RPUSH"} /\ list \in Seq(Pushable) =>
    IsValue(Redis!List(Redis!Pushed(list, q.vs, front)))
  <1> SUFFICES ASSUME NEW q \in Commands, NEW list \in Seq(Pushable), NEW front,
                      q.op \in {"LPUSH", "RPUSH"}
               PROVE  IsValue(Redis!List(Redis!Pushed(list, q.vs, front)))
    OBVIOUS
  <1> DEFINE vs == q.vs
             turned == [i \in 1 .. Len(vs) |-> vs[Len(vs) + 1 - i]]
  <1>1. vs \in Seq(Pushable)
    BY CommandsAssumption DEF CommandsAssumption, Pushes
  <1> HIDE DEF vs
  <1>2. turned \in Seq(Pushable)
    <2>1. Len(vs) \in Nat /\ \A i \in 1 .. Len(vs) : vs[Len(vs) + 1 - i] \in Pushable
      BY <1>1
    <2>2. turned \in [1 .. Len(vs) -> Pushable]
      BY <2>1
    <2>3. QED
      BY <2>1, <2>2
  <1> HIDE DEF turned
  <1>3. turned \o list \in Seq(Pushable) /\ list \o vs \in Seq(Pushable)
    BY <1>1, <1>2
  <1>4. Redis!Pushed(list, vs, front) = IF front THEN turned \o list ELSE list \o vs
    BY DEF Redis!Pushed, turned
  <1> DEFINE new == Redis!Pushed(list, vs, front)
  <1>5. new \in Seq(Pushable)
    BY <1>3, <1>4
  <1> HIDE DEF new
  <1>6. IsValue(Redis!List(new))
    BY <1>5 DEF IsValue, Redis!List
  <1>7. QED
    BY <1>6 DEF new, vs

LEMMA PushServed ==
  \A d, q : IsMap(d) /\ q \in Commands /\ q.op \in {"LPUSH", "RPUSH"} =>
    IF q.k \in Redis!Expired(d)
    THEN LET r == Redis!Dispatch(d, q) IN IsMap(r.data) /\ Redis!Seen(r.data) = Redis!Seen(d)
    ELSE Served(d, q)
  <1> SUFFICES ASSUME NEW d, NEW q \in Commands, IsMap(d), q.op \in {"LPUSH", "RPUSH"}
               PROVE  IF q.k \in Redis!Expired(d)
                      THEN LET r == Redis!Dispatch(d, q)
                           IN IsMap(r.data) /\ Redis!Seen(r.data) = Redis!Seen(d)
                      ELSE Served(d, q)
    OBVIOUS
  <1> DEFINE c == Redis!Seen(d)
             r == Redis!Dispatch(d, q)
             old == IF q.k \in DOMAIN d THEN d[q.k] ELSE [val |-> Redis!List(<<>>), expiry |-> "never"]
             front == (q.op = "LPUSH")
             new == Redis!Pushed(old.val.list, q.vs, front)
             val == Redis!List(new)
             e == Redis!With(d, q.k, val, old.expiry)
  <1>1. r = Redis!Push(d, q)
    BY DEF Redis!Dispatch
  <1>2. Redis!Promised(c, q) = IF q.k \in DOMAIN c /\ c[q.k].val.type # "list"
                               THEN Redis!Answers(c, Redis!Err) ELSE Redis!ListAnswer(c, q)
    BY Promises DEF Redis!ListCommands
  <1>3. r = IF old.val.type # "list" THEN Redis!Result(d, Redis!Err)
            ELSE Redis!Result(e, Redis!Num(Len(new)))
    BY <1>1, Zenon DEF Redis!Push
  <1>4. q.k \in DOMAIN c <=> q.k \in DOMAIN d /\ d[q.k].expiry # "past"
    BY SeenIs
  <1>5. q.k \in DOMAIN c => c[q.k] = d[q.k]
    BY SeenIs
  <1>6. q.k \in Redis!Expired(d) <=> q.k \in DOMAIN d /\ d[q.k].expiry = "past"
    BY DEF Redis!Expired
  <1>7. /\ old.expiry \in {"never", "armed", "past"}
        /\ old.val.type = "list" => old.val.list \in Seq(Pushable)
    <2>1. CASE q.k \in DOMAIN d
      <3>1. old = d[q.k] /\ IsValue(d[q.k].val) /\ d[q.k].expiry \in {"never", "armed", "past"}
        BY <2>1 DEF IsMap
      <3> HIDE DEF old
      <3>2. QED
        BY <3>1 DEF IsValue
    <2>2. CASE q.k \notin DOMAIN d
      <3>1. old.expiry = "never" /\ old.val = [type |-> "list", list |-> <<>>]
        BY <2>2 DEF Redis!List
      <3>2. <<>> \in Seq(Pushable)
        OBVIOUS
      <3> HIDE DEF old
      <3>3. QED
        BY <3>1, <3>2
    <2>3. QED
      BY <2>1, <2>2
  <1>8. old.val.type = "list" => IsValue(val)
    <2> HIDE DEF old, front
    <2>1. QED
      BY <1>7, PushedIs
  <1> HIDE DEF val
  <1>9. CASE q.k \in Redis!Expired(d)
    <2>1. old.expiry = "past" /\ q.k \notin DOMAIN c
      BY <1>4, <1>6, <1>9
    <2>2. old.val.type = "list" => IsMap(e) /\ Redis!Seen(e) = Redis!Without(c, {q.k})
      <3> HIDE DEF old, c
      <3>1. QED
        BY <1>8, <2>1, SeenExpired DEF c
    <2>3. Redis!Without(c, {q.k}) = c
      <3> DEFINE x == Redis!Without(c, {q.k})
      <3>1. /\ IsFun(x) /\ IsFun(c)
            /\ \A k : k \in DOMAIN x <=> k \in DOMAIN c
            /\ \A k \in DOMAIN x : x[k] = c[k]
        <4>1. IsFun(c)
          BY SeenIs
        <4> HIDE DEF c
        <4>2. QED
          BY <2>1, <4>1, WithoutIs
      <3> HIDE DEF x, c
      <3>2. x = c
        BY <3>1, SameMap
      <3>3. QED
        BY <3>2 DEF x
    <2> HIDE DEF r, c, e, old, new
    <2>4. QED
      BY <1>3, <1>9, <2>2, <2>3 DEF Redis!Result, c, r
  <1>10. CASE q.k \notin Redis!Expired(d)
    <2>1. old.expiry \in Unexpired
      BY <1>6, <1>7, <1>10 DEF Unexpired
    <2>2. old.val.type = "list" => IsMap(e) /\ Redis!Seen(e) = Redis!With(c, q.k, val, old.expiry)
      <3> HIDE DEF old
      <3>1. QED
        BY <1>8, <2>1, SeenWith
    <2>3. old = IF q.k \in DOMAIN c THEN c[q.k] ELSE [val |-> Redis!List(<<>>), expiry |-> "never"]
      BY <1>4, <1>5, <1>6, <1>10
    <2> HIDE DEF c, old
    <2>4. old.val.type # "list" <=> q.k \in DOMAIN c /\ c[q.k].val.type # "list"
      BY <2>3 DEF Redis!List
    <2>5. /\ old.val.list = IF q.k \in DOMAIN c THEN c[q.k].val.list ELSE <<>>
          /\ old.expiry = IF q.k \in DOMAIN c THEN c[q.k].expiry ELSE "never"
      BY <2>3 DEF Redis!List
    <2>6. Redis!ListAnswer(c, q) =
            Redis!Answers(Redis!With(c, q.k, val, old.expiry), Redis!Num(Len(new)))
      BY <2>5 DEF Redis!ListAnswer, val
    <2> HIDE DEF r, e, new
    <2>7. Served(d, q)
      BY <1>2, <1>3, <2>2, <2>4, <2>6 DEF Served, Redis!Result, Redis!Answers, c, r
    <2>8. QED
      BY <1>10, <2>7
  <1>11. QED
    BY <1>9, <1>10

---------------------------------------------------------------------------------
\* The invariant: the store is a map.

\* Every other command.
Commanded == {"GET", "SET", "SETNX", "INCRBY", "MGET", "MSET", "DEL", "EXISTS", "EXPIRE", "TTL",
              "TYPE", "KEYS", "FLUSHDB", "LPUSH", "RPUSH", "LRANGE", "LLEN", "LINDEX", "HSET",
              "HSETNX", "HGET", "HDEL", "HLEN", "HINCRBY", "HEXISTS", "HMGET", "HGETALL", "HKEYS",
              "HVALS", "PING", "COMMAND"}

LEMMA UnknownServed ==
  \A d, q : IsMap(d) /\ q.op \notin Commanded => Served(d, q)
  <1> SUFFICES ASSUME NEW d, NEW q, IsMap(d), q.op \notin Commanded PROVE Served(d, q)
    OBVIOUS
  <1> DEFINE c == Redis!Seen(d)
             r == Redis!Dispatch(d, q)
  <1>1. r = Redis!Result(d, Redis!Err)
    BY DEF Redis!Dispatch, Commanded
  <1>2. Redis!Promised(c, q) = Redis!KeyAnswer(c, q)
    BY Promises DEF Redis!StringCommands, Redis!ListCommands, Redis!HashCommands, Commanded
  <1>3. Redis!KeyAnswer(c, q) = Redis!Answers(c, Redis!Err)
    BY DEF Redis!KeyAnswer, Commanded
  <1> HIDE DEF c, r
  <1>4. QED
    BY <1>1, <1>2, <1>3 DEF Served, Redis!Answers, Redis!Result, c, r

\* Every command of the models on a map leaves a map, unless it panics, and is
\* served as promised.
LEMMA AllServed ==
  \A d, q : IsMap(d) /\ q \in Commands =>
    /\ Redis!ServedAsPromised(d, q)
    /\ Redis!Dispatch(d, q).reply # Redis!Panic => IsMap(Redis!Dispatch(d, q).data)
  <1> SUFFICES ASSUME NEW d, NEW q \in Commands, IsMap(d)
               PROVE  /\ Redis!ServedAsPromised(d, q)
                      /\ Redis!Dispatch(d, q).reply # Redis!Panic => IsMap(Redis!Dispatch(d, q).data)
    OBVIOUS
  <1>1. Redis!FeedsGhost(d, q) <=> q.op \in {"LPUSH", "RPUSH"} /\ q.k \in Redis!Expired(d)
    BY DEF Redis!FeedsGhost
  <1>2. CASE q.op = "DEL"
    <2>1. LET r == Redis!Dispatch(d, q)
              p == Redis!Promised(Redis!Seen(d), q) IN
          /\ IsMap(r.data) /\ Redis!Seen(r.data) = p.contents
          /\ q.K \cap Redis!Expired(d) = {} => r.reply = p.reply
      BY <1>2, DelServed
    <2>2. QED
      BY <1>1, <1>2, <2>1 DEF Redis!ServedAsPromised
  <1>3. CASE q.op \in {"LPUSH", "RPUSH"} /\ q.k \in Redis!Expired(d)
    <2>1. LET r == Redis!Dispatch(d, q) IN IsMap(r.data) /\ Redis!Seen(r.data) = Redis!Seen(d)
      BY <1>3, PushServed
    <2>2. QED
      BY <1>1, <1>3, <2>1 DEF Redis!ServedAsPromised
  <1>4. CASE q.op # "DEL" /\ ~(q.op \in {"LPUSH", "RPUSH"} /\ q.k \in Redis!Expired(d))
    <2>1. Served(d, q)
      <3>1. CASE q.op \in {"LPUSH", "RPUSH"}
        BY <1>4, <3>1, PushServed
      <3>2. CASE q.op \in {"SET", "EXPIRE", "LRANGE", "LINDEX"}
        BY <3>2, SetServed, ExpireServed, RangeServed, IndexServed
      <3>3. CASE q.op \in {"GET", "SETNX", "INCRBY", "MGET", "MSET", "EXISTS", "TTL", "TYPE"}
        BY <3>3, GetServed, SetNxServed, IncrByServed, MGetServed, MSetServed, ExistsServed, TtlServed
      <3>4. CASE q.op \in {"KEYS", "FLUSHDB", "PING", "COMMAND", "LLEN", "HSET", "HSETNX", "HGET"}
        BY <3>4, KeysServed, FlushServed, LLenServed, HSetServed, HGetServed
      <3>5. CASE q.op \in {"HDEL", "HLEN", "HINCRBY", "HEXISTS", "HMGET", "HGETALL", "HKEYS", "HVALS"}
        BY <3>5, HDelServed, HLenServed, HIncrByServed, HExistsServed, HMGetServed, HGetAllServed,
           HKeysServed, HValsServed
      <3>6. CASE q.op \notin Commanded
        BY <3>6, UnknownServed
      <3>7. QED
        BY <1>4, <3>1, <3>2, <3>3, <3>4, <3>5, <3>6 DEF Commanded
    <2>2. QED
      BY <1>1, <1>4, <2>1 DEF Redis!ServedAsPromised, Served
  <1>5. QED
    BY <1>2, <1>3, <1>4

RedisInv == IsMap(data)

LEMMA RedisInvInit == MCInit => RedisInv
  <1>1. Redis!Init => IsMap(data)
    BY DEF Redis!Init, IsMap, IsFun
  <1>2. QED
    BY <1>1 DEF MCInit, RedisInv

LEMMA RedisInvNext ==
  RedisInv /\ [MCNext]_<<focus, vars, dbVars, redisVars, objectVars>> => RedisInv'
  <1> SUFFICES ASSUME RedisInv, [MCNext]_<<focus, vars, dbVars, redisVars, objectVars>>
               PROVE  RedisInv'
    OBVIOUS
  <1>1. CASE UNCHANGED data
    BY <1>1 DEF RedisInv, IsMap, IsFun
  <1>2. ASSUME NEW q \in Commands, Redis!Apply(q) PROVE RedisInv'
    <2>1. CASE Redis!Dispatch(data, q).reply = Redis!Panic
      <3>1. data' = [k \in {} |-> k]
        BY <1>2, <2>1 DEF Redis!Apply
      <3>2. QED
        BY <3>1 DEF RedisInv, IsMap, IsFun
    <2>2. CASE Redis!Dispatch(data, q).reply # Redis!Panic
      <3>1. IsMap(Redis!Dispatch(data, q).data)
        BY <2>2, AllServed DEF RedisInv
      <3>2. data' = Redis!Dispatch(data, q).data
        BY <1>2, <2>2 DEF Redis!Apply
      <3>3. QED
        BY <3>1, <3>2 DEF RedisInv, IsMap, IsFun
    <2>3. QED
      BY <2>1, <2>2
  <1>3. ASSUME NEW k, Redis!Lapse(k) PROVE RedisInv'
    <2>1. k \in DOMAIN data /\ data' = [data EXCEPT ![k].expiry = "past"]
      BY <1>3 DEF Redis!Lapse
    <2>2. /\ DOMAIN data' = DOMAIN data /\ IsFun(data')
          /\ \A j \in DOMAIN data : j # k => data'[j] = data[j]
          /\ data'[k] = [data[k] EXCEPT !.expiry = "past"]
      BY <2>1 DEF RedisInv, IsMap, IsFun
    <2>3. data[k] = [val |-> data[k].val, expiry |-> data[k].expiry] /\ IsValue(data[k].val)
      BY <2>1 DEF RedisInv, IsMap
    <2>4. data'[k] = [val |-> data[k].val, expiry |-> "past"]
      BY <2>2, <2>3
    <2>5. \A j \in DOMAIN data' : /\ data'[j] = [val |-> data'[j].val, expiry |-> data'[j].expiry]
                                  /\ IsValue(data'[j].val)
                                  /\ data'[j].expiry \in {"never", "armed", "past"}
      <3> SUFFICES ASSUME NEW j \in DOMAIN data'
                   PROVE  /\ data'[j] = [val |-> data'[j].val, expiry |-> data'[j].expiry]
                          /\ IsValue(data'[j].val)
                          /\ data'[j].expiry \in {"never", "armed", "past"}
        OBVIOUS
      <3>1. CASE j = k
        BY <2>3, <2>4, <3>1
      <3>2. CASE j # k
        BY <2>2, <3>2 DEF RedisInv, IsMap
      <3>3. QED
        BY <3>1, <3>2
    <2>6. QED
      BY <2>2, <2>5 DEF RedisInv, IsMap, IsFun, IsValue
  <1>4. CASE Redis!Next
    BY <1>1, <1>2, <1>3, <1>4 DEF Redis!Next, Redis!Accept, Redis!Stop, Redis!ListenerEnds, Redis!Drop,
                                  Redis!Serve, Redis!Passthrough
  <1>5. QED
    BY <1>1, <1>4 DEF MCNext, In, redisVars

\* "expired keys are hidden on reads" (miniredis/README.md): whatever expired entries
\* the map still holds, every command of Dispatch answers, and changes what clients
\* see, as a store without them would; for any commands, numbers and list lengths.
THEOREM LiveKeysAreServed == MCSpec => []ServesTheLiveKeys
  <1>1. RedisInv => ServesTheLiveKeys
    BY AllServed DEF RedisInv, ServesTheLiveKeys, Redis!ServesTheLiveKeys
  <1>2. QED
    BY RedisInvInit, RedisInvNext, <1>1, PTL DEF MCSpec

=================================================================================
