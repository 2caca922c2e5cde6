-------------------------------- MODULE MCStores --------------------------------
(***************************************************************************)
(* The stores, on small instances: the embedded key-value library, the     *)
(* cache, the mini Redis and object storage.  A behaviour exercises one of *)
(* them, the one in focus, and leaves the others in their initial states.  *)
(***************************************************************************)
EXTENDS Cache, Integers, TLC

CONSTANTS
  Focus,              \* the stores a run exercises
  Threads,            \* of the key-value library, with its namespaces, keys and bounds
  DbNamespaces, DbKeys, MaxPuts, MaxOps,
  k1, k2,             \* keys of the mini Redis, the commands sent to it, and its bounds
  Commands, Text, Numbers, ListLength,
  Buckets, ObjectKeys, Folder     \* of object storage

\* The folder of a key is another name.
ASSUME FolderAssumption ==
  Folder \in [ObjectKeys -> ObjectKeys \cup {"none"}] /\ \A k \in ObjectKeys : Folder[k] # k
ASSUME PutsAssumption == MaxPuts \in Nat
ASSUME TextAssumption == Text \notin Numbers /\ 0 \in Numbers

\* What a command carries: a deadline, indexes, a list of what it pushes.
Pushes == {q \in Commands : q.op \in {"LPUSH", "RPUSH"}}
Pushable == UNION {{q.vs[i] : i \in DOMAIN q.vs} : q \in Pushes}
ASSUME CommandsAssumption ==
  /\ \A q \in Pushes : q.vs \in Seq(Pushable)
  /\ \A q \in Commands :
       /\ q.op = "SET" => q.ttl \in {"never", "armed", "past", "huge"}
       /\ q.op = "EXPIRE" => q.ttl \in {"armed", "past", "huge"}
       /\ q.op \in {"LRANGE", "LINDEX"} => q.start \in Int
       /\ q.op = "LRANGE" => q.stop \in Int

VARIABLES
  focus,
  store, puts, tx, discarded,                               \* Db
  data, poisoned, open, listener,                           \* MiniRedis
  buckets, files, folders, minted, request, forgotten       \* Storage

\* A client of the mini Redis sends each of these.
RedisCommands ==
  LET Q(op) == [op : {op}, k : {k1, k2}]
      SetOf(op) == [op : {op}, K : {{k1}, {k1, k2}}, k : {k1}]
  IN UNION {Q("GET"), Q("TTL"), Q("TYPE"), Q("LLEN"), Q("HLEN"), {[op |-> "KEYS", k |-> k1], [op |-> "FLUSHDB", k |-> k1]},
       [op : {"SET"}, k : {k1, k2}, v : {99, 0}, ttl : {"never", "armed", "past", "huge"}],
       [op : {"SETNX"}, k : {k1, k2}, v : {1}],
       [op : {"INCRBY"}, k : {k1, k2}, v : {-1, 1}],
       [op : {"EXPIRE"}, k : {k1, k2}, ttl : {"armed", "past", "huge"}],
       SetOf("MGET"), SetOf("DEL"), SetOf("EXISTS"),
       [op : {"MSET"}, K : {{k1, k2}}, k : {k1}, v : {0}],
       [op : {"LPUSH", "RPUSH"}, k : {k1, k2}, vs : {<<0>>, <<0, 1>>}],
       [op : {"LRANGE"}, k : {k1, k2}, start : {-1, 0, 1}, stop : {-2, -1, 0, 1}],
       [op : {"LINDEX"}, k : {k1, k2}, start : {-2, 0, 1}],
       [op : {"HSET", "HSETNX"}, k : {k1, k2}, f : {"f"}, v : {99, 1}],
       [op : {"HGET", "HDEL"}, k : {k1, k2}, f : {"f"}],
       [op : {"HINCRBY"}, k : {k1, k2}, f : {"f"}, v : {-1, 1}],
       [op : {"HEXISTS"}, k : {k1, k2}, f : {"f"}], [op : {"HMGET"}, k : {k1, k2}, F : {{"f"}}],
       Q("HGETALL"), Q("HKEYS"), Q("HVALS"), [op : {"PING", "COMMAND"}, k : {k1}]}

SmallNumbers == -1 .. 1

Database == INSTANCE Db WITH
  Namespaces <- DbNamespaces, Keys <- DbKeys, Values <- 1 .. MaxPuts
Redis == INSTANCE MiniRedis WITH
  Keys <- {k1, k2}
Objects == INSTANCE Storage WITH Keys <- ObjectKeys

\* a/b lies in the folder a, which is a key as well.
OneFolder == [k \in ObjectKeys |-> IF k = "a/b" THEN "a" ELSE "none"]

dbVars == <<store, puts, tx, discarded>>
redisVars == <<data, poisoned, open, listener>>
objectVars == <<buckets, files, folders, minted, request, forgotten>>

\* The store in focus moves; the others stay as they are.
In(component) ==
  /\ focus = component /\ UNCHANGED focus
  /\ IF component = "cache" THEN TRUE ELSE UNCHANGED vars
  /\ IF component = "db" THEN TRUE ELSE UNCHANGED dbVars
  /\ IF component = "redis" THEN TRUE ELSE UNCHANGED redisVars
  /\ IF component = "objects" THEN TRUE ELSE UNCHANGED objectVars

MCInit == focus \in Focus /\ Init /\ Database!Init /\ Redis!Init /\ Objects!Init

MCNext ==
  \/ In("cache") /\ Next
  \/ In("db") /\ Database!Next
  \/ In("redis") /\ Redis!Next
  \/ In("objects") /\ Objects!Next

MCSpec == MCInit /\ [][MCNext]_<<focus, vars, dbVars, redisVars, objectVars>>

\* Threads, and keys, are alike.
Symmetry == Permutations(Threads) \cup Permutations(Keys) \cup Permutations(DbKeys)

NoDirtyWrites == focus = "db" => Database!NoDirtyWrites
LaterOpWins == focus = "db" => Database!LaterOpWins
ExpiredStaysExpired == Database!ExpiredStaysExpired
ServesTheLiveKeys == focus = "redis" => Redis!ServesTheLiveKeys
EveryObjectHasItsBucket == focus = "objects" => Objects!EveryObjectHasItsBucket
VisibilityIsFixed == Objects!VisibilityIsFixed
=================================================================================
