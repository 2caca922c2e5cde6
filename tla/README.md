# Bridge daemon: TLA+ specifications

A formal model of the Bridge daemon (`src/daemon`), of the libraries it is made
of (`src/db`, `src/miniredis`, `src/compiler`, `src/codegen`, `src/protocol`) and
of what speaks to it (`src/cli`, `src/sdk-rust`). TLC checks every module on small
instances; TLAPS proves theorems about nineteen of them for every value of their
constants. Properties come from what the code does; where a comment or a page of
`docs/` promises something else, a run shows the behaviour that breaks the promise.

`PROJECT.json` holds the details this page sums up: the source lines behind each
definition (`map`), the runs, the defect each property is known to catch
(`mutants`), the hazards of the code and the properties that cover them.

## The system

One process, several threads:

```
 main thread      TCP server (7878), one thread per connection      tcp.rs
 http thread      HTTP server (8787), one thread per connection     http.rs
 watcher thread   polls .bridge files, compiles, broadcasts         watcher.rs
 miniredis        RESP server with a mutex and state of its own     miniredis crate
```

All but miniredis share `Arc<Mutex<State>>` (`state.rs`), the *State lock*: a
record of registries, one per feature. A handler locks, works and unlocks, so
most operations are one atomic step, and most registries never look at one
another. What is hard about the system is where that is not so:

* a handler takes the lock more than once and another thread runs in between
  (`pubsub_publish`, `secrets_get`, signed storage requests, the request pipeline,
  the state streams, the watcher thread);
* a lock of a smaller scope is taken per call while the whole wants to be atomic
  (`Transaction::commit` in `src/db`, `TxRegistry::commit` in the daemon);
* a guard is held in a variable across calls (`route`, `tx_commit`);
* the disk, the environment and the clock move whenever they like (watcher, static
  files, secrets, deadlines, signed URLs);
* records made by one operation are followed by a later one, after others changed
  what they stand for (`superseded_by`, `in_flight`, recency stamps, ETags);
* expiry is lazy: an entry past its deadline stays until somebody looks;
* bytes arrive in pieces, and are read by scanners written by hand: RESP, HTTP,
  JSON, JWT, frames, the line protocol, two parsers of `.bridge` files, regular
  expressions, `bridge.toml`.

Nothing of the State is persisted, except that `storage.rs` keeps objects on
disk: a restart of the daemon loses queues, transactions, deployments and caches
by design. `Storage` is therefore the one module with a restart.

### Inventory

| Component (source) | State | Operations | What makes it correct | Modules |
|---|---|---|---|---|
| Pub/sub broker (`pubsub.rs`) | topics, queues, in-flight map, dead letters, configs | subscribe, publish, pull, ack, nack | nothing lost or delivered twice, order kept, settlements hit the right copy | `PubSub`, `SubscriptionQueue` |
| Deployments (`deploy.rs`) | list of deployments with status and `superseded_by` | create, set_status, rollback | one live per target, never dark, rollback inverts a promotion | `Deploy` |
| Key-value library (`db`) | namespaces of entries with deadlines, transactions | put, del, flush, expire, persist, purge, commit, rollback | no dirty writes, expired stays expired, commits serial (they are not) | `Kv`, `Db` |
| Store transactions (`transactions.rs`) | registry of transactions over the store | begin, queue, commit, rollback, prune | handlers see whole commits, each put decided once | `Transactions` |
| Cache (`cache.rs`) | keyspaces, shared operation counter | set, get, mset, mget, invalidate, evict | least recently used goes first, expired before live | `Cache`, `LruSpace` |
| Watcher, event streams (`watcher.rs`) | files with mtime and result, SSE senders | poll, compile, broadcast, watch, unwatch | changes get compiled, nothing stale shown, streams without gaps | `Watcher` |
| Mini Redis (`miniredis`) | typed values with deadlines, listener | RESP commands, stop | expired keys are gone for every command | `MiniRedis` |
| Object storage (`storage.rs`) | buckets in memory, objects on disk, signed URLs | create, delete, put, get, sign, restart | registry and disk agree, visibility is fixed | `Storage` |
| Request pipeline, rate limiter, middleware (`http.rs`, `ratelimit.rs`, `middleware.rs`) | token, rules and buckets, hooks, schemas, requests under way | each stage, and the handlers that change the settings | every request answered, token and limits apply, hooks nest | `Pipeline`, `RateLimit` |
| Body validation (`validation.rs`) | schemas per route | add, remove, check; patterns | rules keep their meaning | `Validation` |
| HTTP server (`http.rs`) | connections | read a request, choose an arm, write an answer, scan bodies | read as written; the right arm answers | `HttpMessages`, `Surface`, `JsonBodies` |
| MCP catalog (`mcp.rs`) | none | tool calls that become requests | a tool acts as its route (it does not) | `Surface` |
| TCP server, protocol, CLI (`tcp.rs`, `protocol`, `cli`) | the daemon token | build, encode, send, parse, answer | commands arrive as meant | `Wire`, `Strings` |
| Authentication (`auth.rs`) | issued, revoked and expiring sessions, API keys | issue, verify, revoke | the two ways of checking agree | `AuthSessions`, `Jwt` |
| State streams, traces, logs (`streaming.rs`, `state.rs`) | rings, sampler, sessions | record, poll, open, close | rings keep the newest; sessions end with their clients | `Traces` |
| Metrics (`state.rs`, `http.rs`) | counters | record, two views | both views tell what was served | `Metrics` |
| Secrets (`secrets.rs`) | sources by name | register, delete, get, check | an answer was right at some moment | `Secrets` |
| Infrastructure (`infra_config.rs`) | variables, services, databases, TLS | set, register, remove | what is stored can be used | `InfraConfig` |
| Testing (`testing.rs`) | databases, mocks, mode | new, cleanup, mock | namespaces are fresh | `TestRegistry` |
| WebSocket hub (`websocket.rs`) | rooms and members | join, leave, broadcast; handshake, frames | a broadcast reaches the room; frames are whole | `WsHub`, `WsFrames` |
| Static files (`staticfiles.rs`) | mounts over a disk that changes | mount, unmount, get, head | most specific mount serves; a confirmed copy is current | `StaticFiles` |
| Configuration (`config.rs`) | none | parse `bridge.toml` | every rule comes from its own table | `Config` |
| Compiler, codegen (`compiler`, `codegen`) | none | two parsers, client, OpenAPI, manifest | both parsers agree, clients follow the document | `Compiler`, `Manifest` |
| Rust SDK (`sdk-rust`) | manifest builders | declare, finalize, lock | the lock tells the contents | `Manifest` |
| Redis cluster (`redis_cluster.rs`) | nodes, slots, replicas | add, remove, assign, fail | a healthy cluster of slots serves every key | `RedisCluster` |
| Docker Postgres (`sqldb.rs`), schema introspection | docker's | | | not modelled |
| Scaffolding (`cron.rs`, `shutdown.rs`, `transport.rs`, ...) | | | called by nothing | not modelled |

Interactions: all handlers meet at the State lock, which `Pipeline` and
`Transactions` have as a variable; the store of `src/db` is under both the daemon's
transactions and the watcher (`Kv` is shared by `Db` and `Transactions`); the
daemon token is set over TCP and checked over HTTP (`Wire`, `Pipeline`,
`Surface`); MCP calls the router (`Surface`); the watcher fills the registry and
the event streams read it (`Watcher`); the generated clients and the OpenAPI
document come from one syntax tree (`Compiler`).

## Modules

Each component's module has its state as variables, `Init`, one action per
operation (or per stretch between two lock acquisitions), `Next`, `Spec`, and its
properties at the end. `MC*` modules and their `.cfg` files are instances for TLC.
Operators called *Mutation* are defects the code does not have, kept beside the
definition they would replace, to show that the properties notice them; where a
property is a conjunction, each part has a Mutation of its own.

### State shared by threads

**PubSub**, with **SubscriptionQueue**. `BrokerInner`'s maps are the variables;
every broker method is one action, since it runs under the broker's mutex. The
HTTP publish is two, `HttpPublish` and `HttpPublishReply`, as it takes the State
lock twice. A message's name is the number of its publish; a `VecDeque` is the set
of its entries, which are always in order of publish. `SubscriptionQueue` says what
one subscription promises (an at-least-once queue with dead-lettering after so many
attempts, first-in first-out when ordered); `MCPubSub` maps every (topic,
subscriber) queue to it: the mapping is a theorem (`QueuesRefine`), for any topics,
subscribers and configurations.

**Deploy**. A deployment is its position in the registry. The variable
`displaced` is history: what the live deployment took over from.

**Kv**, **Db**. `Kv` is the store both transaction layers work on: entries with a
deadline that is away, armed or past. `Db` adds threads, the clock and
`Transaction`; commit is one action per operation, since each call in its loop
takes the mutex for itself. `CommitsAreSerial` compares the outcome of commits with
the outcomes of all serial orders.

**Transactions**. `TxRegistry` in the daemon. Its commit is many calls too, but
`tx_commit` keeps the State lock for all of them; the model has that lock and the
steps under it, and the store's other writers wait for it as they do in the code.

**Watcher**. The polling thread is a program counter with one action per access
to the lock or the disk: `Poll`, `Look`, `Compare`, `Recompile`, `Publish`. The
disk is written by nobody's permission in between. Clients connect, are greeted,
receive and leave; a client's channel is bounded and a full one costs it its
place in the registry.

**RateLimit**, **Pipeline**. `RateLimit` has the operators of its source file;
`Pipeline` has those of `middleware.rs` (the hook chain) and the life of requests on
several threads, one action per stage, with the settings all stages read and the
handlers that change them. The State lock is free between stages, except after the limiter lets a
request past: `route` holds its guard until `drop(g)`, so that is a stage too.

### Stores

**Cache**, with **LruSpace**. `Cache` keeps the code's recency stamps and its
eviction loop; `LruSpace` says what a keyspace is: a recency list that drops
expired keys, then the oldest. `KeyspacesAreLru` maps each keyspace to it.

**MiniRedis**. One action per connection, command
and tick of a deadline; the effect of a command, panics and the poisoned mutex
included, is one operator per family of commands. `Promised` is what a client is told
to expect, a map in which a key past its deadline is not there;
`ServesTheLiveKeys` compares each command's answer and effect with it.

**Storage**. Buckets in memory over objects and folders on disk. A signed request
and a download are authorised under one lock and carried out under another; a
restart may fall anywhere.

### Registries

**Traces** (rings, sampler, streams), **AuthSessions**, **Secrets**,
**InfraConfig**, **TestRegistry**, **WsHub**, **Metrics**, **RedisCluster**: one
action per handler, and per critical section where a handler has two (`Secrets`,
`Traces`). **StaticFiles** has the mounts, the disk under them and the copies a client
keeps, one action for each of the looks at the disk that `serve` takes; **Manifest** the
SDK's builders, whose maps are kept in the order of their keys as a `BTreeMap` keeps
them. **Registries** puts them side by side (see *Instances*) and says what each
promises; it is the module the proofs are about.

### Text

Text is a sequence of symbols, one for every character that some scanner treats in
a way of its own and one for words nothing takes apart (**Strings** has the
operations). **Wire** is a command from the command line to the daemon's state and
back; **Compiler** both parsers, line by line, and what is generated from the
result; **Validation** the pattern parser and matcher and the rules;
**HttpMessages**, **JsonBodies**, **Surface** a request from its bytes to its arm;
**Config**, **Jwt**, **WsFrames** their source files. Where the code has a reference that can be written down (the relation a
pattern denotes, the claims that were signed, the JSON that was printed) the
property compares with it; elsewhere it relates two pieces of code that must agree
(two parsers, client and document, tool and route).

### Instances

`MCPubSub` and `MCPipeline` give one module its constants; Deploy, Db, Transactions
and Watcher need only their cfg. `MCStores` has the four stores; `Registries` has the
registries, and `MCRegistries` adds the parts that read and write text.
In these three a variable `focus` is chosen once: a behaviour exercises one
component, and the others stay in their initial states. The components do not call
each other, so nothing is lost by that, and one run asks the questions of all of
them. In a property such as `RegistriesKeepTheirWord` the focus selects which of
the components' own properties is meant.

## Runs

| Run | Question | Size (states) |
|---|---|---|
| `pubsub` | two subscribers of a topic, reconfigured at any time, an HTTP publisher between its locks: are queues sound, and do they implement `SubscriptionQueue`? | 77,750 |
| `pubsub_inflight` | *fails*: with two subscribers, is what is delivered in flight? | |
| `deploy_rollback` | *fails*: does a rollback restore what the live one displaced? | |
| `db_commit` | *fails*: are commits serial? | |
| `tx` | two transactions, two clients, the store's other writers: whole commits, every put decided once? | 895,093 |
| `watcher` | two files, one event client, saves at every point of the thread | 244,864 |
| `watcher_seconds` | *fails*: is every lasting change compiled, with mtimes in whole seconds? | |
| `pipeline` | three requests on two threads, among them those that change the settings | 162,399 |
| `stores` | cache, key-value library, mini Redis, object storage: expiry, eviction, transactions, restarts | 155,849 |
| `registries` | deployments, one subscriber's liveness, streams, sessions, secrets, infrastructure, test namespaces, rooms, metrics, cluster; and every part that reads and writes text | 114,881 |
| `auth_scheme` | *fails*: is the token that `AUTH SET bearer t` sets the one a request then needs? | |
| `mcp_tools` | *fails*: does a tool act as its route? | |

### Bounds, and why they are enough

* `MaxPublish = 2` (`pubsub`): a redelivered and a later message are what order,
  in-flight collisions and lost copies need; two subscribers are what the shared
  `in_flight` map and the shared per-subscriber config need. The proofs lift both.
* `MaxDeployments = 4`, two targets: three on one target make a rollback pass
  over an older one, the fourth shows that targets do not mix. Proved for all bounds.
* `MaxPuts`, `MaxOps` (`tx`, and Db in `stores`): two operations make a commit one
  that another thread can split; two puts to two keys tell every interleaving
  apart. `db_commit` needs four puts (two commits of two). `MaxUnits = 2` in `tx`
  bounds finished writes and commits.
* Cache (`stores`): `MaxSeq = 7` stamps fill three keys over a limit of two, use
  them again and evict. One keyspace: another one only moves the shared counter,
  and a lookup of a key that is not there moves it as well.
* MiniRedis (`stores`): two keys, one field, integers from -1 to 1 of which one more
  overflows, and lists of two elements: every command meets a missing, a wrongly
  typed, an expired and a live key, and every index of a range falls before, in and
  after the list.
* Storage (`stores`): one bucket, deleted and made again, and a key that is the
  folder of the other. The proof lifts both.
* `MaxTexts = 2`, `BufferSize = 1` (`watcher`): a file changes once under the
  thread's feet; the client's channel of 64 is one of 1, full at once. The proofs
  lift both.
* `MaxRequests = 3` on two threads (`pipeline`): one request half-way, one that
  changes a setting, and one that comes after. Buckets have capacity 1, so they
  run empty at once; `Refill` is time. The rules at the start are for one method
  and for everything, and one for a single route can be added.
* Rings of two traces and one log, three traces taken (`registries`): a full ring
  gives up its first. Clocks of two seconds: issued, expiring, expired.
* Two slots, three numbers to assign, two nodes (`registries`): the number that is no slot
  makes a cluster count as healthy with a slot missing, and all three take the count past
  the number of slots, where it wraps around or panics. Proved for all bounds.
* Texts: every symbol a scanner looks for stands at the beginning, inside and at the
  end of some text. Service files have up to four lines of ten kinds, configurations
  four lines of eleven: a section, a table, a key, and what ends it. Patterns have every
  construct, nested repetition of what may match nothing among them, over values of
  up to two characters and some longer. Frame lengths are those next to each of the
  encodings' edges and the limit. Bytes are cut at every place.

Deadlock is not checked in `stores`, `registries`, `auth_scheme`, and the runs of `Deploy`,
`Db` and `Surface` alone: a full registry of finished deployments, used-up puts or a
connection that is closed is an end.

Symmetry is used only over constants that no property distinguishes, and in no run
that checks liveness.

### Fairness

* `PubSub!Consuming`: a consumer that pulls what it can and answers what it was
  given. Nothing in the broker does it for them (`ack_deadline_secs` is stored and
  never read), so this is an assumption on clients, and `EveryMessageSettles` says
  what holds under it, with one subscriber; with several, the in-flight collision
  defeats it.
* `Traces!Fairness`: the thread of a stream renders and writes; it sleeps between
  polls and waits for nobody. Clients and other requests need do nothing.
* `Watcher!FairSpec`: weak fairness of the thread's step. The loop sleeps, locks
  and reads files, none of which waits for a client: event sends do not block.
* `Pipeline!FairSpec`: weak fairness of each thread's next step. A mutex may be
  unfair, but the requests in an instance are bounded, so the others run out; it
  is an assumption about the load as well as the scheduler.

`MCRegistries!MCSpec` has the first two as conjuncts.

### Where code and documents disagree

1. **pubsub_inflight** `in_flight` is keyed by message id alone. When two
   subscribers of a topic hold a message, only the last delivery is in the map:
   the other copy can be neither acked nor nacked, and an ack of it settles the
   wrong one.
2. **deploy_rollback** After an earlier rollback two deployments may name the live
   one in `superseded_by`, and `rollback` takes the first, which need not be the
   one it displaced. A rollback *right after a promotion* is exact: that is
   `RollbackUndoesDeploy`, proved.
3. **db_commit** Commits of `src/db` are documented as atomic and are not.
4. **watcher_seconds** A second save within the second of the first is never
   compiled.
5. **auth_scheme** `AUTH SET <scheme> <token>`, as the documents give it, makes the
   two words together the token, and a request with the token is refused.
6. **mcp_tools** A tool call goes through the router without its caller's
   credentials: with a token set, tools answer 401. Two tools name routes that the
   router does not have.

Also seen while modelling, and not stated as runs. The models do what the code
does in each case; a property that would fail for one of them says in its comment
what it leaves out.

* *Broker.* HTTP publish reports a fan-out that may exceed the real one (only the
  lower bound holds, `FanOutNotUnderstated`). A topic is not created by a publish
  without subscribers. Settings are keyed by the subscriber, not by the
  subscription. `ack_deadline_secs`, `retry_delay_ms` and `max_concurrency` are
  never enforced, so a consumer that dies after a pull leaves its message in flight.
* *Watcher.* A file that was missing, saved, compiled and deleted again keeps
  showing as compiled.
* *Pipeline.* An after hook may run without its before hook when the registry
  changes in between, as for the request that registers a middleware whose scope
  covers it. A global rejecting middleware, or an exhausted rule for everything,
  also rejects the requests that would remove it. A panic under the State lock
  poisons it.
* *State.* A stream of traces ends its body when it has rendered no trace
  (`StreamsAreLongLived` in `Traces` says the opposite and is not run).
  `TRACE LIST` and `traces_list` return the oldest traces up to the limit, which
  `daemon/README.md:125` calls recent. A sampling rate of one half or more takes
  everything. `StreamOpen` over TCP registers a session without a connection. Two
  endpoints may share a Prometheus series, as blanks, `/` and `-` become `_`. The
  registry of `metrics.rs` is seeded and never read.
* *Authentication.* `whoami` accepts a revoked token. A custom claim named `scopes`
  comes back as roles. In a JWT a comma in a claim's text ends the scan, `\uXXXX` is
  not decoded, and a custom claim may have the name of a registered one.
* *Mini Redis.* Pushes onto an expired list bring its elements back. `LRANGE` with a
  stop below `-len`, and `EXPIRE` or `SET EX` with a huge number, panic and poison the
  mutex; `INCR` overflow panics in a debug build. `SETEX` is documented and unknown.
  `DEL` counts expired keys.
* *Storage.* Deleting a bucket leaves empty folders; a restart forgets buckets, and
  creating one again adopts what was left. A key keeps the query string of its path.
  Signed URLs are not percent-encoded.
* *Registries.* Registering a service again updates it and answers 400. The cluster
  leaves a reassigned slot in its old owner's set, keeps a removed node in replica lists
  and honours an empty hash tag. `assign_slots` takes any `u16` (`redis_cluster.rs:142`),
  and the health counts numbers beyond 16383 as slots: a cluster can be `ok` with slots
  that no node serves, and with more than 16384 numbers assigned `slots_fail` wraps around,
  or panics in a debug build (`:251`). `RedisCluster` assigns such numbers and has both
  outcomes (`Infos`). `HealthyClustersServeEveryKey` promises every key a node only while
  there are none, and otherwise no more slots unserved than such numbers assigned.
* *Line protocol.* Characters above U+00FF lose their high byte, unencoded ones
  become Latin-1, `SETEX` is known only with a hyphen, the limit of `TRACE LIST` is
  ignored, a source called `file` is taken for `COMPILE FILE`, and an empty answer
  prints as `DATA`.
* *HTTP.* A request cut inside its head is served with what came; chunked bodies are
  not read; there is no read timeout; preflight, static, storage and stream answers
  have no request id; static files are served before the router. `HEAD` answers have two
  lengths. `If-Modified-Since` compares whole seconds.
* *Bodies.* The first occurrence of a quoted name is the field, wherever it stands;
  object values in pairs lose their closing brace; a key `ttl_ms` is taken for the
  lifetime; keys of `mget` with a comma are split.
* *Validation.* `matchesRegexp` must match the whole value (`test_full`, `validation.rs:511`,
  and the test at `:1001`), where the module's doc (`:31-32`, `:264`) promises the unanchored
  search of JavaScript's `RegExp.test`: `b+` refuses `ab`, which JavaScript accepts.
  `PatternsDenoteTheirValues` is about the whole value, as the code and its test are, and
  does not hold of the doc's reading. A repetition below its minimum must advance, so `(a?){2}` does not match
  `a` as it does in JavaScript either. A bare
  `/path` is normalised when it is registered and not when it is removed, one with a
  `:` not at all.
* *Compiler.* OpenAPI operations lack the key of their id, and two methods of a path
  duplicate its key; replacing `:id` hits `:idx`; a name with a hyphen gives invalid
  TypeScript. Two names can become one in Pascal case.
* *Configuration.* A section header with a comment after it is not one; a `#` or comma
  inside an array's strings cuts it; a rule without scope, or with an unknown hook,
  is dropped. Manifests check references by name only and replace silently.
* *MCP.* Answers have the id `null`; the default body of `publish_event` has `message`
  where the route reads `payload`; parameters end at the first comma.
* *Frames.* One above a megabyte can be written and not read; continuation is ignored.

## Theorems

Eight modules hold proofs, for any sets and any bounds: the seven `*Proofs` modules, and
`Iteration`, which has the lemmas about loops and vectors that the others cite. They
assume what the modules assume of their constants, each by name, and TLC evaluates
every assumption: configurations have a natural number of retries, bounds are natural
numbers, `None` is no value of the set it is kept apart from, the same of `Star` and of
the text that is no number; no key is its own folder; what a command of the mini Redis
carries is of the kind its parser lets through. Of the registries' constants: a secret's
value is none of the answers that stand for something else, statuses below 400 are the
successes, durations are natural numbers, there is a slot and slots fit a `u16` that fits
a `usize`, keys are bytes, prefixes are
lists of segments, and what is declared has the types the builder's methods ask for.

| Module | Invariant | Theorems (*action property*) |
|---|---|---|
| `PubSubProofs` | `IInv` | `TypeCorrect`, `InFlightSafe`, `DeliveredOnce`, `DeadLettersExact`, `FanOutBound`, *`NothingLost`*, *`FifoWhenOrdered`*, refinement `QueuesRefine` |
| `ManifestProofs` | `StaticOK`, `ManifestsOK` | what `TheyKeepTheirWord` says of `StaticFiles` and `Manifest` (`StaticSafe`, `ManifestSafe`) |
| `RegistriesProofs` | `IInv`, `RegistriesOK` | of `Deploy`: `TypeCorrect`, `OneLive`, `SuccessionSound`, *`StaysLive`*, *`OnlyProvenGoLive`*, *`RollbackInverts`*; of `Registries`: `TheyKeepTheirWord`, *`EveryAnswerWasRight`*, *`NamespacesAreUnique`*; and `CrcIsTheRemainder` |
| `WatcherProofs` | `IInv`, `StreamInv` | `ShownCurrently`, `NoGaps` |
| `PipelineProofs` | `TokenInv`, `RequestInv` | `ServedSafely`, `HooksUndoneInReverse`, *`NarrowestRulePays`* |
| `TransactionsProofs` | `TxInv`, `StoreInv` | `EveryPutAtMostOnce`, `NoPutForgotten`, `CommitsAreWhole` |
| `StoresProofs` | `AllSound`, `AllTimed`, `DbInv`, `RedisInv`, `StorageInv` | refinement `KeyspacesImplementLru`, *`ExpiredGoFirst`*, `OnlyCommitsWrite`, `OpsApplyInOrder`, *`NothingRevives`*, `LiveKeysAreServed`, `ObjectsKeepTheirBuckets`, *`VisibilityStays`* |

**PubSub**. The inductive invariant is `TypeOK`, `SubscribersDistinct`,
`QueuedArePublished`, `NoDoubleDelivery`, `InFlightIsDelivered` and
`DeadLettersAreFiled` together. None of the last three is inductive alone: a queue has
one copy of a message because a topic lists a subscriber once and ids in queues are
older than the next; an in-flight id stands for a delivered copy only while there is
one copy; and a dead-letter list matches the queue because an ack removes a delivered
copy, never a dead one. `NothingLost` and `FifoWhenOrdered` follow from it step by
step; `FanOutBound` uses that subscriptions only grow.

`QueuesRefine` is the refinement of `SubscriptionQueue`. Under the invariant the
abstract status and attempts of an id are those of the one entry that has it (`Mapped`),
so each broker step is looked at for one subscription at a time: a publish offers, a
pull delivers the oldest pending entry and, if ordered, only with nothing delivered, an
ack settles, a nack retries or buries according to the attempts. Everything that happens
to other subscriptions stutters (`NothingQueued`), except that a subscriber's settings
are common to all its subscriptions: that is the abstract `Reconfigure`.

**Deploy**. A promotion and a rollback are one kind of step, `GoesLive`: one
deployment comes up and its target's live one is demoted in its favour; every other
step is `Quiet`. The invariant is `TypeOK`, `AtMostOneLive`, `SuccessionLeadsToLive`
and `PromotionDisplacedOne` (after a promotion only what it displaced points at the
live one), which is what makes a rollback after a promotion exact. That
`superseded_by` ends at the live deployment is stated by a set with no way out rather
than by following the chain, so that no induction is needed.

**Watcher**. `ShownCurrently`: the invariant orders the texts of a file by their writes
and says that the clock never goes against that order (`DiskInv`); what the thread
carries between two looks is not newer than the disk (`ThreadInv`), and what is
recorded not newer than what the thread saw (`FilesInv`). `NoGaps`: a client's channel
continues what it has seen without a hole (`Run`), up to the last event if it is
registered (`StreamInv`).

**Pipeline**. `TokenInv`: a thread at a stage behind the token check either serves a
public path or was let in by a token that was in force, or by none being set, at some
moment since its request arrived (`in_force`, a history variable, only grows during a
request). `RequestInv` says what a request carries at every stage: while it is calm,
the before hooks it ran are those of the present registry that match its route, none of
which rejects unless it is the last. `HooksUndoneInReverse` then needs that filtering a
vector and reversing it commute, and that two filters in a row are one (`KeptReverse`,
`KeptTwice`): these are inductions over vectors, made possible by writing the chain's
filter as a recursive function (`Kept`). `NarrowestRulePays` follows from the order
of the four tries being that of the sets of routes they cover (`NarrowestFirst`), which
is where the assumption comes in that there is always another path.

**Transactions**. `TxInv`: only the holder of the lock is in a commit, a transaction
that is not active queues nothing (`OneCommit`), and every accepted put is in exactly
one place: an active transaction, a commit, a finished unit or the dropped ones
(`Placed`). "At most one" is the first theorem, "at least one" the second.
`CommitsAreWhole` needs what the store is while a commit is under way (`HalfWay`): what
the finished units left, with the operations already done replayed on it, where a
`del_matching` that has collected its keys and not yet deleted them all counts as done
once they are taken out. Replaying is a fold, and replaying one sequence after another
is replaying both (`ReplayConcat`). Without the lock, or with the guard of `tx_commit`
dropped early, `HalfWay` could not be carried past another handler's step: that is the
mutant of this property.

**Cache**. `ExpiredGoFirst`: what `Victims` allows contains either every expired entry
or only expired ones, for a set; an mset is a fold over its pairs, so the step of one
set carries a relation (nothing live given up while something expired is kept) that is
kept along the fold. The entries of a keyspace are finitely many (`AllSound`), which is
what makes the count of victims mean anything. `KeyspacesImplementLru` is the refinement
of `LruSpace`: the stamps of a keyspace belong to different operations, none later than
the counter (`AllTimed`), so sorting by them is a list, and each step of the code is a
step of the list: a use moves a key to its end, an eviction takes a prefix of it, once
the expired are gone. Positions are counted by cardinality, and an mset is
again a fold whose steps are the list's.

**Db**. `DbInv`: values are numbered by the puts that queued them, and no two operations,
open, committing or discarded, have one in common (`Numbered`); what is open or not yet
applied is not in the store (`Unwritten`); what is applied is in the order it was queued
(`Overwritten`), which other threads can only help by overwriting. `OnlyCommitsWrite`
and `OpsApplyInOrder` are parts of it. `NothingRevives` looks at one step: an entry that
is visible after it is there with a new value, with the value of the operation a commit
applies, or was not past its deadline before (`Moves`).

**Mini Redis** (`LiveKeysAreServed`). The invariant is only that the data is a map of
typed values and deadlines: what makes the theorem is one lemma per command, each saying
that for *any* such map, with expired keys anywhere in it, answer and effect are those
of `Promised` on the map without them (`Served`). They rest on how `Live`, `With` and
`Without` commute with hiding what has expired (`SeenLive`, `SeenWith`,
`SeenWithout`). For `LRANGE` and `LINDEX` the code's clamped indexes are shown to be the
positions the promise counts, which it counts by cardinality. The commands that panic
leave no answer to compare, and pushes onto an expired list are excluded, as in the
property itself.

**Storage**. `ObjectsKeepTheirBuckets` is the property itself with the type of the
request between its locks: an upload authorised under one lock checks the bucket again
under the second. `VisibilityStays` adds what an unsigned request was let in with
(`LetInInv`).

**Registries**. Each registry has an invariant of its own; a step of `RegistriesNext` is
a step of one of them and a stutter of the others (`OneMoves`), so they hold together
(`RegistriesOK`), and `TheyKeepTheirWord` is one theorem for all of them.
* *Secrets* (`EveryAnswerWasRight`). `FitsNow`: the history variable `fitting` holds the
  answer of the present moment, and of every moment since the request's first lock.
* *Metrics*. Counters are cardinalities of the positions in what was served that belong
  to a key (`Counts`), the average lies between the fastest and the slowest, and the two
  views add up alike because a sum over endpoints can be taken endpoint by endpoint
  (`SumOfCounts`).
* *Traces*. What a ring holds are the last of all that were recorded, in order.
* *Cluster*. `CrcIsTheRemainder`: the table-free CRC loop over bytes and bits and the long
  division of the whole message by x^16 + x^12 + x^5 + 1 agree in the bits they have in
  common after every turn (`AgreeTurn`, `AgreeByte`); numbers are sets of exponents. Every
  slot a key can have lies below 16384 by it. `ClusterCounts`: the slots without a node and
  the numbers in the table are together as many as the slots and the numbers in the table
  that are none, so a cluster that counts as healthy misses at most as many slots as it
  has numbers that are none.
* *Hub*. Each member of a room is in it once, and every room on the list has a member.
* *Static files*. `MountsOK`: mounts stand in the order of their prefixes' lengths, longest
  first, and each prefix stands once, so the first that covers a path is the most
  specific. `CopiesOK`: a copy's ETag is that of its content, and a request that
  names an ETag names that of the copy, whatever the disk does between stat and read.
* *Manifests* (`LocksTellContents`). The maps of every manifest are in the order of their
  keys (`ManifestOK`), kept by every insertion (`InsertedByName`), and a set has only one
  ordering (`SameOrder`): so what was declared tells the maps. In the other direction
  the printed object tells them, as it can be taken apart by its labels
  (`ServiceObjectTells`, `ResourceObjectTells`, `ObjectTells`), of which a missing field
  leaves its own out.

**Iteration**. The installed provers cannot instantiate the library's induction
theorems, whose hypothesis is an operator. `SmallestNat` and `ShortestSeq` state
induction of a *set*, the set of the numbers or vectors that fail, and `IterationExists`
and `LoopExists` that the function a loop defines exists and satisfies its equations;
with these, what a recursive *function* or a fold computes can be proved after all. The
rest is about vectors: what filtering keeps (`KeptContains`), in which order
(`KeptInOrder`), and how an element is put in its place (`BetweenInOrder`).

**Only model-checked.** Liveness (`EveryMessageSettles`, `ChangesAreCompiled`,
`EveryRequestIsAnswered`, `GoneClientsAreDropped`): fairness and ENABLED are out of the
prover's reach. The properties of the parts that read and write text
(`CommandsArriveAsMeant`, `RulesKeepTheirMeaning`, `PathsLeadWhereTheySay`,
`DeclarationsAreKept`, `ReadAsWritten`): their parsers recurse over their data, that of
patterns by RECURSIVE operators the prover does not take, and several are about the
particular texts of an instance, or about a table the code spells out.

## Not modelled, and why

* Docker Postgres and its migrations shell out to docker; introspection of schemas reads
  what it answers. The state is docker's.
* The scaffolding modules (`cron.rs`, `shutdown.rs`, `transport.rs`, `services.rs`,
  `registry.rs`, `context.rs`, `autocomplete.rs`, ...) are called by nothing in the
  running daemon, and `perf_profiler.rs` and `security_audit.rs` are not even declared in
  `main.rs`: there is no behaviour to check. The same holds of the legacy
  `TransactionManager`, `tracing.rs`, `metrics_exporters.rs` and `config_schema.rs`.
* Handlers that only show state, the dashboard, the interactive shell and `dev.rs`,
  the Go and TypeScript clients, and the layout of generated code and of messages.
* SHA-256, HMAC, base64 and SHA-1 stand for their inputs; MIME types, byte ranges and the
  contents of objects are left out.
* Poisoning of the State lock by a panicking handler: no handler modelled here is known to
  panic on input it accepts, so there is no such step; the mini Redis, whose commands do
  panic, has it.
