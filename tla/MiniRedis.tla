-------------------------------- MODULE MiniRedis --------------------------------
(***************************************************************************)
(* The embedded Redis of miniredis/src/lib.rs: one store under one mutex,  *)
(* a thread per connection that takes the mutex for one command at a time, *)
(* and the listener that stop() ends.                                      *)
(*                                                                         *)
(* A deadline is none, still to come or passed; an entry past its deadline *)
(* stays in the map until a command comes across it.  String values are    *)
(* numbers, and Text for every string that is not one.  A panic under the  *)
(* mutex poisons it: whoever takes it afterwards panics as well.           *)
(***************************************************************************)
EXTENDS Integers, Sequences, FiniteSets

CONSTANTS Keys,
          Numbers,        \* bound: the i64 values counted with; one more overflows
          ListLength,     \* bound: elements of a list
          Commands,       \* the commands a client may send
          Text            \* a string that is not a number

VARIABLES
  data,       \* key -> [val, expiry]
  poisoned,
  open,       \* whether a client is connected
  listener    \* "up", "stopping" after stop(), "down"

vars == <<data, poisoned, open, listener>>

---------------------------------------------------------------------------------
\* Replies and values

\* Resp: integers, bulk strings, arrays, the null bulk string, +OK, errors, and
\* what a panicking command leaves its client with.
Num(n) == [t |-> "int", v |-> n]
Bulk(v) == [t |-> "bulk", v |-> v]
Arr(s) == [t |-> "arr", v |-> s]
Null == [t |-> "null"]
Ok == [t |-> "ok"]
Err == [t |-> "err"]
Panic == [t |-> "panic"]

\* StoreVal.
Str(v) == [type |-> "string", s |-> v]
List(l) == [type |-> "list", list |-> l]
Hash(h) == [type |-> "hash", hash |-> h]

---------------------------------------------------------------------------------
\* What clients are promised

\* miniredis/README.md promises a map of the keys that exist, key -> [val, expiry], in
\* which a key whose deadline has passed is not there any more.  Values are tagged with
\* their type; a command on a value of another type is an error and changes nothing.

\* The map d with k set to a value and its deadline, and d without the keys K.
With(d, k, val, expiry) ==
  [j \in DOMAIN d \cup {k} |-> IF j = k THEN [val |-> val, expiry |-> expiry] ELSE d[j]]
Without(d, K) == [j \in DOMAIN d \ K |-> d[j]]

Holds(c, k, type) == k \in DOMAIN c /\ c[k].val.type = type

\* The commands that want one type, and those of them that find another.
StringCommands == {"GET", "INCRBY"}
ListCommands == {"LPUSH", "RPUSH", "LRANGE", "LLEN", "LINDEX"}
HashCommands == {"HSET", "HSETNX", "HGET", "HDEL", "HLEN", "HINCRBY",
                 "HEXISTS", "HMGET", "HGETALL", "HKEYS", "HVALS"}
Mistyped(c, q) ==
  /\ q.k \in DOMAIN c
  /\ \/ q.op \in StringCommands /\ c[q.k].val.type # "string"
     \/ q.op \in ListCommands /\ c[q.k].val.type # "list"
     \/ q.op \in HashCommands /\ c[q.k].val.type # "hash"

Answers(c, reply) == [contents |-> c, reply |-> reply]

\* The elements a range asks for: the indexes between its ends, negative ones
\* counted from the back, those there are.
Between(list, start, stop) ==
  LET n == Len(list)
      at(i) == IF i < 0 THEN n + i ELSE i
      wanted == {i \in 0 .. n - 1 : at(start) <= i /\ i <= at(stop)}
  IN [j \in 1 .. Cardinality(wanted) |->
        Bulk(list[1 + (CHOOSE i \in wanted : Cardinality({h \in wanted : h < i}) = j - 1)])]

Pushed(list, vs, front) ==
  IF front THEN [i \in 1 .. Len(vs) |-> vs[Len(vs) + 1 - i]] \o list ELSE list \o vs

WithField(hash, f, v) == [g \in DOMAIN hash \cup {f} |-> IF g = f THEN v ELSE hash[g]]

\* The answers to the commands on strings, lists, hashes and keys, and the contents
\* they leave.
StringAnswer(c, q) ==
  LET absent == q.k \notin DOMAIN c
  IN CASE q.op = "GET" -> Answers(c, IF absent THEN Null ELSE Bulk(c[q.k].val.s))
       [] q.op = "INCRBY" -> IF ~absent /\ c[q.k].val.s = Text THEN Answers(c, Err)
                             ELSE LET n == (IF absent THEN 0 ELSE c[q.k].val.s) + q.v
                                  IN Answers(With(c, q.k, Str(n), "never"), Num(n))

ListAnswer(c, q) ==
  LET list == IF q.k \in DOMAIN c THEN c[q.k].val.list ELSE <<>>
      expiry == IF q.k \in DOMAIN c THEN c[q.k].expiry ELSE "never"
  IN CASE q.op \in {"LPUSH", "RPUSH"} -> LET l == Pushed(list, q.vs, q.op = "LPUSH")
                                         IN Answers(With(c, q.k, List(l), expiry), Num(Len(l)))
       [] q.op = "LRANGE" -> Answers(c, Arr(Between(list, q.start, q.stop)))
       [] q.op = "LLEN" -> Answers(c, Num(Len(list)))
       [] q.op = "LINDEX" -> LET r == Between(list, q.start, q.start)
                             IN Answers(c, IF r = <<>> THEN Null ELSE r[1])

HashAnswer(c, q) ==
  LET absent == q.k \notin DOMAIN c
      hash == IF absent THEN [f \in {} |-> f] ELSE c[q.k].val.hash
      expiry == IF absent THEN "never" ELSE c[q.k].expiry
      has == q.f \in DOMAIN hash
      number == IF has THEN IF hash[q.f] = Text THEN 0 ELSE hash[q.f] ELSE 0
      Keep(h, reply) == Answers(With(c, q.k, Hash(h), expiry), reply)
  IN CASE q.op = "HSET" -> Keep(WithField(hash, q.f, q.v), Num(IF has THEN 0 ELSE 1))
       [] q.op = "HSETNX" -> IF has THEN Answers(c, Num(0)) ELSE Keep(WithField(hash, q.f, q.v), Num(1))
       [] q.op = "HINCRBY" -> Keep(WithField(hash, q.f, number + q.v), Num(number + q.v))
       [] q.op = "HDEL" -> IF absent THEN Answers(c, Num(0))
                           ELSE Keep([f \in DOMAIN hash \ {q.f} |-> hash[f]],
                                     Num(Cardinality({q.f} \cap DOMAIN hash)))
       [] q.op = "HGET" -> Answers(c, IF has THEN Bulk(hash[q.f]) ELSE Null)
       [] q.op = "HLEN" -> Answers(c, Num(Cardinality(DOMAIN hash)))
       [] q.op = "HEXISTS" -> Answers(c, Num(IF has THEN 1 ELSE 0))
       [] q.op = "HMGET" -> Answers(c, Arr(<<[f \in q.F |-> IF f \in DOMAIN hash
                                                            THEN Bulk(hash[f]) ELSE Null]>>))
       [] q.op = "HGETALL" -> Answers(c, Arr(IF absent THEN <<>> ELSE <<{<<f, hash[f]>> : f \in DOMAIN hash}>>))
       [] q.op = "HKEYS" -> Answers(c, Arr(IF absent THEN <<>> ELSE <<DOMAIN hash>>))
       [] q.op = "HVALS" -> Answers(c, Arr(IF absent THEN <<>> ELSE <<hash>>))

KeyAnswer(c, q) ==
  LET absent == q.k \notin DOMAIN c
  IN CASE q.op = "SET" -> Answers(IF q.ttl = "past" THEN Without(c, {q.k})
                                  ELSE With(c, q.k, Str(q.v), q.ttl), Ok)
       [] q.op = "SETNX" -> IF absent THEN Answers(With(c, q.k, Str(q.v), "never"), Num(1))
                            ELSE Answers(c, Num(0))
       [] q.op = "MSET" -> Answers([j \in DOMAIN c \cup q.K |->
                             IF j \in q.K THEN [val |-> Str(q.v), expiry |-> "never"] ELSE c[j]], Ok)
       [] q.op = "MGET" -> Answers(c, Arr(<<[j \in q.K |->
                             IF Holds(c, j, "string") THEN Bulk(c[j].val.s)
                             ELSE IF j \in DOMAIN c THEN Err ELSE Null]>>))
       [] q.op = "DEL" -> Answers(Without(c, q.K), Num(Cardinality(q.K \cap DOMAIN c)))
       [] q.op = "EXISTS" -> Answers(c, Num(Cardinality(q.K \cap DOMAIN c)))
       [] q.op = "EXPIRE" -> IF absent THEN Answers(c, Num(0))
                             ELSE Answers(IF q.ttl = "past" THEN Without(c, {q.k})
                                          ELSE With(c, q.k, c[q.k].val, q.ttl), Num(1))
       [] q.op = "TTL" -> Answers(c, Num(IF absent THEN -2 ELSE IF c[q.k].expiry = "never" THEN -1 ELSE 1))
       [] q.op = "TYPE" -> Answers(c, Bulk(IF absent THEN "none" ELSE c[q.k].val.type))
       [] q.op = "KEYS" -> Answers(c, Arr(<<DOMAIN c>>))
       [] q.op = "FLUSHDB" -> Answers(Without(c, DOMAIN c), Ok)
       [] q.op \in {"PING", "COMMAND"} -> Answers(c, Ok)
       [] OTHER -> Answers(c, Err)

\* What such a map c answers to the command q, and what it holds then.
Promised(c, q) ==
  IF Mistyped(c, q) THEN Answers(c, Err)
  ELSE IF q.op \in StringCommands THEN StringAnswer(c, q)
  ELSE IF q.op \in ListCommands THEN ListAnswer(c, q)
  ELSE IF q.op \in HashCommands THEN HashAnswer(c, q)
  ELSE KeyAnswer(c, q)

---------------------------------------------------------------------------------
\* What the code does

NoFields == [f \in {} |-> f]

Expired(d) == {k \in DOMAIN d : d[k].expiry = "past"}

\* What clients see of d: the entries that have not expired.
Seen(d) == Without(d, Expired(d))

\* live, live_mut: an expired entry is removed when it is looked at.
Live(d, k) == Without(d, {k} \cap Expired(d))

Result(d, reply) == [data |-> d, reply |-> reply]

\* The commands that only read one value of one type: what is missing reads as
\* `missing`, another type is an error.
Read(d, k, type, missing, found) ==
  Result(Live(d, k), IF k \notin DOMAIN Live(d, k) THEN missing
                     ELSE IF d[k].val.type # type THEN Err ELSE found)

\* lrange: clamped ends; a stop before the first element becomes usize::MAX, and
\* the slice panics.
Range(list, start, stop) ==
  LET len == Len(list)
      s == IF start < 0 THEN (IF len + start < 0 THEN 0 ELSE len + start)
           ELSE IF start < len THEN start ELSE len
      e == IF stop < 0 THEN len + stop ELSE IF stop < len - 1 THEN stop ELSE len - 1
  IN IF e < 0 THEN Panic
     ELSE IF s > e THEN Arr(<<>>)
     ELSE Arr([i \in 1 .. e - s + 1 |-> Bulk(list[s + i])])

Index(list, idx) ==
  LET i == IF idx < 0 THEN Len(list) + idx ELSE idx
  IN IF i < 0 \/ i >= Len(list) THEN Null ELSE Bulk(list[i + 1])

\* set; EX and PX were added to the clock, where too large a number panics.
Set(d, q) == IF q.ttl = "huge" THEN Result(d, Panic)
             ELSE Result(With(d, q.k, Str(q.v), q.ttl), Ok)

SetNx(d, q) == LET l == Live(d, q.k)
               IN IF q.k \in DOMAIN l THEN Result(l, Num(0))
                  ELSE Result(With(l, q.k, Str(q.v), "never"), Num(1))

\* incr_by (INCR, DECR, INCRBY, DECRBY): the new entry has no deadline.  Past the
\* i64 range it panics in a build with overflow checks, and wraps in one without.
IncrBy(d, q) ==
  LET l == Live(d, q.k)
      cur == IF q.k \in DOMAIN l THEN l[q.k].val ELSE Str(0)
  IN IF cur.type # "string" THEN Result(l, Err)
     ELSE IF cur.s = Text THEN Result(l, Err)
     ELSE IF cur.s + q.v \notin Numbers THEN Result(l, Panic)
     ELSE Result(With(l, q.k, Str(cur.s + q.v), "never"), Num(cur.s + q.v))

\* mget looks at the keys one after the other; mset does not look at all.
MGet(d, q) ==
  Result(Without(d, q.K \cap Expired(d)),
         Arr(<<[k \in q.K |-> Read(d, k, "string", Null, Bulk(d[k].val.s)).reply]>>))
MSet(d, q) ==
  Result([k \in DOMAIN d \cup q.K |->
            IF k \in q.K THEN [val |-> Str(q.v), expiry |-> "never"] ELSE d[k]], Ok)

\* del counts what it removed, expired or not.
Del(d, q) == Result(Without(d, q.K), Num(Cardinality(q.K \cap DOMAIN d)))
Exists(d, q) == LET l == Without(d, q.K \cap Expired(d))
                IN Result(l, Num(Cardinality(q.K \cap DOMAIN l)))

Expire(d, q) == LET l == Live(d, q.k)
                IN IF q.k \notin DOMAIN l THEN Result(l, Num(0))
                   ELSE IF q.ttl = "huge" THEN Result(l, Panic)
                   ELSE Result(With(l, q.k, l[q.k].val, q.ttl), Num(1))

Ttl(d, q) == LET l == Live(d, q.k)
             IN Result(l, Num(IF q.k \notin DOMAIN l THEN -2
                              ELSE IF l[q.k].expiry = "never" THEN -1 ELSE 1))
TypeCmd(d, q) == LET l == Live(d, q.k)
                 IN Result(l, Bulk(IF q.k \in DOMAIN l THEN l[q.k].val.type ELSE "none"))

\* keys purges the whole map; the pattern of the models is "*".
KeysCmd(d) == Result(Seen(d), Arr(<<DOMAIN Seen(d)>>))

\* lpush and rpush: the entry is taken as it is, expired or not.
Push(d, q) ==
  LET old == IF q.k \in DOMAIN d THEN d[q.k] ELSE [val |-> List(<<>>), expiry |-> "never"]
      new == Pushed(old.val.list, q.vs, q.op = "LPUSH")
  IN IF old.val.type # "list" THEN Result(d, Err)
     ELSE Result(With(d, q.k, List(new), old.expiry), Num(Len(new)))

\* Mutation: an expired hash is taken as it is.
HashEntryStale(d, k) == IF k \in DOMAIN d THEN d ELSE With(d, k, Hash(NoFields), "never")

\* What hset, hsetnx and hincrby write to: the entry, made anew when it is
\* missing or expired.
HashEntry(d, k) ==
  IF k \in DOMAIN d /\ d[k].expiry # "past" THEN d
  ELSE With(d, k, Hash(NoFields), "never")

\* d with the hash under k replaced.
KeepHash(d, k, hash) == With(d, k, Hash(hash), d[k].expiry)

HSet(d, q) ==
  LET h == HashEntry(d, q.k)
      hash == h[q.k].val.hash
      had == q.f \in DOMAIN hash
  IN IF h[q.k].val.type # "hash" THEN Result(h, Err)
     ELSE IF q.op = "HSETNX" /\ had THEN Result(h, Num(0))
     ELSE Result(KeepHash(h, q.k, WithField(hash, q.f, q.v)), Num(IF had THEN 0 ELSE 1))

\* hincrby counts a field that is not a number as 0.
HIncrBy(d, q) ==
  LET h == HashEntry(d, q.k)
      hash == h[q.k].val.hash
      cur == IF q.f \notin DOMAIN hash THEN 0 ELSE IF hash[q.f] = Text THEN 0 ELSE hash[q.f]
  IN IF h[q.k].val.type # "hash" THEN Result(h, Err)
     ELSE IF cur + q.v \notin Numbers THEN Result(h, Panic)
     ELSE Result(KeepHash(h, q.k, WithField(hash, q.f, cur + q.v)), Num(cur + q.v))

\* hdel leaves a hash without fields in place.
HDel(d, q) ==
  LET l == Live(d, q.k)
      hash == l[q.k].val.hash
  IN IF q.k \notin DOMAIN l THEN Result(l, Num(0))
     ELSE IF l[q.k].val.type # "hash" THEN Result(l, Err)
     ELSE Result(KeepHash(l, q.k, [g \in DOMAIN hash \ {q.f} |-> hash[g]]),
                 Num(Cardinality({q.f} \cap DOMAIN hash)))

\* hgetall, hkeys and hvals, of which the code sorts the fields.
Listing(op, h) ==
  CASE op = "HGETALL" -> {<<f, h[f]>> : f \in DOMAIN h}
    [] op = "HKEYS" -> DOMAIN h
    [] OTHER -> h    \* the values, in the order of their fields

\* dispatch, for commands that pass the arity and number checks; one that does
\* not, or is unknown, is answered with an error.
Dispatch(d, q) ==
  LET list == d[q.k].val.list
      hash == d[q.k].val.hash
  IN CASE q.op = "GET" -> Read(d, q.k, "string", Null, Bulk(d[q.k].val.s))
       [] q.op = "SET" -> Set(d, q)
       [] q.op = "SETNX" -> SetNx(d, q)
       [] q.op = "INCRBY" -> IncrBy(d, q)
       [] q.op = "MGET" -> MGet(d, q)
       [] q.op = "MSET" -> MSet(d, q)
       [] q.op = "DEL" -> Del(d, q)
       [] q.op = "EXISTS" -> Exists(d, q)
       [] q.op = "EXPIRE" -> Expire(d, q)
       [] q.op = "TTL" -> Ttl(d, q)
       [] q.op = "TYPE" -> TypeCmd(d, q)
       [] q.op = "KEYS" -> KeysCmd(d)
       [] q.op = "FLUSHDB" -> Result(Without(d, DOMAIN d), Ok)
       [] q.op \in {"LPUSH", "RPUSH"} -> Push(d, q)
       [] q.op = "LRANGE" -> Read(d, q.k, "list", Arr(<<>>), Range(list, q.start, q.stop))
       [] q.op = "LLEN" -> Read(d, q.k, "list", Num(0), Num(Len(list)))
       [] q.op = "LINDEX" -> Read(d, q.k, "list", Null, Index(list, q.start))
       [] q.op \in {"HSET", "HSETNX"} -> HSet(d, q)
       [] q.op = "HGET" -> Read(d, q.k, "hash", Null, IF q.f \in DOMAIN hash THEN Bulk(hash[q.f]) ELSE Null)
       [] q.op = "HDEL" -> HDel(d, q)
       [] q.op = "HLEN" -> Read(d, q.k, "hash", Num(0), Num(Cardinality(DOMAIN hash)))
       [] q.op = "HINCRBY" -> HIncrBy(d, q)
       [] q.op = "HEXISTS" -> Read(d, q.k, "hash", Num(0), Num(IF q.f \in DOMAIN hash THEN 1 ELSE 0))
       [] q.op = "HMGET" -> Read(d, q.k, "hash", Arr(<<[f \in q.F |-> Null]>>),
                                 Arr(<<[f \in q.F |-> IF f \in DOMAIN hash THEN Bulk(hash[f]) ELSE Null]>>))
       [] q.op \in {"HGETALL", "HKEYS", "HVALS"} ->
            Read(d, q.k, "hash", Arr(<<>>), Arr(<<Listing(q.op, hash)>>))
       [] q.op \in {"PING", "COMMAND"} -> Result(d, Ok)
       [] OTHER -> Result(d, Err)

Fits(d) == \A k \in DOMAIN d : d[k].val.type = "list" => Len(d[k].val.list) <= ListLength

---------------------------------------------------------------------------------

Init ==
  /\ data = [k \in {} |-> k]
  /\ poisoned = FALSE
  /\ open = FALSE
  /\ listener = "up"

\* The listener hands the next client to a thread of its own; once stop() has
\* raised the flag it ends at the top of its loop.
Accept == listener # "down" /\ ~open /\ open' = TRUE /\ UNCHANGED <<data, poisoned, listener>>
Stop == listener = "up" /\ listener' = "stopping" /\ UNCHANGED <<data, poisoned, open>>
ListenerEnds == listener = "stopping" /\ listener' = "down" /\ UNCHANGED <<data, poisoned, open>>

\* One command, from taking the mutex to giving it back.
Apply(q) ==
  LET r == Dispatch(data, q)
  IN /\ ~poisoned
     /\ Fits(r.data)
     /\ poisoned' = (r.reply = Panic)
     /\ data' = IF r.reply = Panic THEN [k \in {} |-> k] ELSE r.data   \* out of everybody's reach

\* A client's command; its thread ends when it panics.
Serve(q) == open /\ Apply(q) /\ open' = ~poisoned' /\ UNCHANGED listener

\* The daemon's REDIS commands (tcp.rs): a connection of its own for one command,
\* and two seconds of waiting for an end that does not come.  On a poisoned store
\* the answer is empty, not an error, and nothing changes.
Passthrough(q) ==
  /\ listener = "up"
  /\ q.op \in {"GET", "SET", "DEL", "KEYS", "TTL", "EXPIRE", "FLUSHDB"}
  /\ Apply(q) /\ UNCHANGED <<open, listener>>

\* A command that meets a poisoned mutex, or a message that does not parse, ends
\* the connection's thread.
Drop == open /\ open' = FALSE /\ UNCHANGED <<data, poisoned, listener>>

\* A deadline passes.
Lapse(k) ==
  /\ k \in DOMAIN data /\ data[k].expiry = "armed"
  /\ data' = [data EXCEPT ![k].expiry = "past"]
  /\ UNCHANGED <<poisoned, open, listener>>

Next ==
  \/ Accept \/ Stop \/ ListenerEnds \/ Drop
  \/ \E q \in Commands : Serve(q) \/ Passthrough(q)
  \/ \E k \in Keys : Lapse(k)

Spec == Init /\ [][Next]_vars

---------------------------------------------------------------------------------
\* Properties


\* Whether q pushes to an entry of d that expired and is still there.
FeedsGhost(d, q) == q.op \in {"LPUSH", "RPUSH"} /\ q.k \in Expired(d)

ServedAsPromised(d, q) ==
  LET r == Dispatch(d, q)
      promised == Promised(Seen(d), q)
  IN r.reply # Panic =>
       IF FeedsGhost(d, q) THEN Seen(r.data) = Seen(d)
       ELSE /\ Seen(r.data) = promised.contents
            /\ (q.op = "DEL" /\ q.K \cap Expired(d) # {}) \/ r.reply = promised.reply

\* "expired keys are hidden on reads" (README): whatever expired entries are still
\* in the map, every command is answered, and changes what clients see, as by a
\* map that has none.  The code's exceptions: a push to such an entry changes
\* nothing they see, and del counts one.
ServesTheLiveKeys ==
  ~poisoned => \A q \in Commands : ServedAsPromised(data, q)

==================================================================================
