------------------------------- MODULE Registries -------------------------------
(***************************************************************************)
(* The registries of the daemon's State that do not meet each other, and   *)
(* the SDK's manifest builders, side by side.  A behaviour exercises one   *)
(* of them, the one in focus, and leaves the others in their initial       *)
(* states.                                                                 *)
(***************************************************************************)
EXTENDS Deploy, Integers

CONSTANTS
  Focus,    \* the registries a run exercises
  Clients, Names, Values,
  Topics, Subscriber,                                                        \* PubSub
  MaxTraces, MaxLogs, Burst, MaxCounter, MaxSessions,                        \* Traces
  Opaque, ApiKeys, Subjects, Customs, Ttls, MaxNow,                          \* AuthSessions
  Places,                                                                    \* Secrets
  Addrs, BadAddrs, Engines,                                                  \* InfraConfig
  Principals, Services, Levels, MaxSeq,                                      \* TestRegistry
  Rooms, Conns, MaxMembers,                                                  \* WsHub
  Endpoints, Label, Successes, Failures, Durations, MaxServed,               \* Metrics
  Nodes, NumSlots, NumNumbers, Word, Keys, MaxReplicas,                      \* RedisCluster
  MountPrefixes, Dirs, Fallbacks, Paths, Contents,                           \* StaticFiles
  Builders, Apps, Languages, ItemNames, Images, Resources, SpecCalls, BridgeFiles   \* Manifest

VARIABLES
  focus,
  subscriptions, queues, in_flight, configs, dlq, publish_count, replying,   \* PubSub
  traces, trace_counter, logs, rate, active, counter, thread,                \* Traces
  tokens, api_keys, now,                                                     \* AuthSessions
  secrets, outside, get, fitting, answer,                                    \* Secrets
  env_vars, services, databases, tls, status,                                \* InfraConfig
  test_databases, next_seq, mocks, mode, promised,                           \* TestRegistry
  rooms, joined,                                                             \* WsHub
  request_counts, error_counts, duration_totals, total_requests, total_errors, seen,   \* Metrics
  nodes, slot_map, replicas,                                                 \* RedisCluster
  mounts, files, wall, request, copies, page,                                \* StaticFiles
  builders                                                                   \* Manifest

---------------------------------------------------------------------------------

\* One subscriber of two topics, which retries once.
OrderedOneRetry == [max_retries |-> 1, message_ordering |-> TRUE]
UnorderedOneRetry == [max_retries |-> 1, message_ordering |-> FALSE]
Broker == INSTANCE PubSub WITH
  Subscribers <- {Subscriber}, Publishers <- {}, MaxPublish <- 2,
  Configs <- {OrderedOneRetry, UnorderedOneRetry}, DefaultConfig <- UnorderedOneRetry
Streams == INSTANCE Traces
Auth == INSTANCE AuthSessions
Sec == INSTANCE Secrets
Infra == INSTANCE InfraConfig
Tests == INSTANCE TestRegistry WITH databases <- test_databases
Hub == INSTANCE WsHub
Counters == INSTANCE Metrics
Cluster == INSTANCE RedisCluster
Static == INSTANCE StaticFiles WITH MaxNow <- 1, now <- wall, answer <- page
Manifests == INSTANCE Manifest WITH Names <- ItemNames, Sources <- BridgeFiles

\* The rings have a size; a secret's value is none of the answers that stand for something
\* else; a status below 400 is no error; a node is not the absence of one; a
\* slot fits a u16 and the u16s can be counted in a usize; a key is bytes; a mount's prefix
\* is a list of segments, and declarations are what the builder's types let through.
ASSUME RingsAssumption == MaxTraces \in Nat /\ MaxLogs \in Nat
ASSUME ValuesAssumption == Values \cap {Sec!Unset, Sec!Missing, Sec!Unresolved, Sec!Redacted} = {}
ASSUME StatusesAssumption ==
  (\A s \in Successes : s \in Nat /\ s < 400) /\ (\A s \in Failures : s \in Nat /\ s >= 400)
ASSUME DurationsAssumption == Durations \subseteq Nat
ASSUME NodesAssumption == Cluster!Absent \notin Nodes
ASSUME SlotsAssumption ==
  NumSlots \in Nat \ {0} /\ NumNumbers \in Nat /\ Word \in Nat /\ NumSlots <= NumNumbers /\ NumNumbers < Word
ASSUME KeysAssumption == Keys \subseteq Seq(0 .. 255)
ASSUME PrefixesAssumption == MountPrefixes \subseteq Seq(STRING)
ASSUME DeclarationsAssumption ==
  /\ Apps \cup Languages \cup ItemNames \cup Images \subseteq Manifests!Texts
  /\ Resources \subseteq Manifests!Resource
  /\ SpecCalls \subseteq Seq(Manifests!Call)
  /\ BridgeFiles \subseteq Seq(Manifests!Texts)

brokerVars == <<subscriptions, queues, in_flight, configs, dlq, publish_count, replying>>
streamsVars == <<traces, trace_counter, logs, rate, active, counter, thread>>
authVars == <<tokens, api_keys, now>>
secretsVars == <<secrets, outside, get, fitting, answer>>
infraVars == <<env_vars, services, databases, tls, status>>
testsVars == <<test_databases, next_seq, mocks, mode, promised>>
hubVars == <<rooms, joined>>
metricsVars == <<request_counts, error_counts, duration_totals, total_requests, total_errors, seen>>
clusterVars == <<nodes, slot_map, replicas>>
staticVars == <<mounts, files, wall, request, copies, page>>
registryVars == <<focus, vars, brokerVars, streamsVars, authVars, secretsVars, infraVars, testsVars,
             hubVars, metricsVars, clusterVars, staticVars, builders>>

\* The registry in focus moves; the others stay as they are.
In(component) ==
  /\ focus = component /\ UNCHANGED focus
  /\ IF component = "deploy" THEN TRUE ELSE UNCHANGED vars
  /\ IF component = "broker" THEN TRUE ELSE UNCHANGED brokerVars
  /\ IF component = "streams" THEN TRUE ELSE UNCHANGED streamsVars
  /\ IF component = "auth" THEN TRUE ELSE UNCHANGED authVars
  /\ IF component = "secrets" THEN TRUE ELSE UNCHANGED secretsVars
  /\ IF component = "infra" THEN TRUE ELSE UNCHANGED infraVars
  /\ IF component = "tests" THEN TRUE ELSE UNCHANGED testsVars
  /\ IF component = "hub" THEN TRUE ELSE UNCHANGED hubVars
  /\ IF component = "metrics" THEN TRUE ELSE UNCHANGED metricsVars
  /\ IF component = "cluster" THEN TRUE ELSE UNCHANGED clusterVars
  /\ IF component = "static" THEN TRUE ELSE UNCHANGED staticVars
  /\ IF component = "manifest" THEN TRUE ELSE UNCHANGED builders

RegistriesInit ==
  /\ focus \in Focus
  /\ Init /\ Broker!Init /\ Streams!Init /\ Auth!Init /\ Sec!Init /\ Infra!Init
  /\ Tests!Init /\ Hub!Init /\ Counters!Init /\ Cluster!Init /\ Static!Init /\ Manifests!Init

RegistriesNext ==
  \/ In("deploy") /\ Next
  \/ In("broker") /\ Broker!Next
  \/ In("streams") /\ Streams!Next
  \/ In("auth") /\ Auth!Next
  \/ In("secrets") /\ Sec!Next
  \/ In("infra") /\ Infra!Next
  \/ In("tests") /\ Tests!Next
  \/ In("hub") /\ Hub!Next
  \/ In("metrics") /\ Counters!Next
  \/ In("cluster") /\ Cluster!Next
  \/ In("static") /\ Static!Next
  \/ In("manifest") /\ Manifests!Next

RegistriesSpec == RegistriesInit /\ [][RegistriesNext]_registryVars /\ Broker!Consuming /\ Streams!Fairness

---------------------------------------------------------------------------------
\* The properties of the registries, each looked at where its registry moves.

EveryMessageSettles == Broker!EveryMessageSettles
GoneClientsAreDropped == Streams!GoneClientsAreDropped
AnswersFitAMoment == Sec!AnswersFitAMoment
NamespacesAreFresh == Tests!NamespacesAreFresh

\* What the smaller registries promise: the two ways of reading a session or key agree,
\* the trace ring keeps the newest traces, what infrastructure is stored can be used, room
\* broadcasts reach who joined, both views of the metrics tell what was served, the
\* checks of secrets agree with reading them, a cluster to which only slots were assigned
\* serves every key from the slot its CRC gives once it counts as healthy, the most specific mount serves a path and
\* confirms no copy that is not what was on disk, and a manifest's lock tells what was
\* declared and nothing else.
RegistriesKeepTheirWord ==
  CASE focus = "auth"    -> Auth!TheTwoChecksAgree
    [] focus = "streams" -> Streams!TracesAreTheNewest
    [] focus = "infra"   -> Infra!StoredIsUsable
    [] focus = "hub"     -> Hub!BroadcastsReachTheRoom
    [] focus = "metrics" -> Counters!MetricsTellWhatWasServed
    [] focus = "secrets" -> Sec!ChecksAgreeWithReads
    [] focus = "cluster" -> Cluster!HealthyClustersServeEveryKey /\ Cluster!SlotsAreRemainders
    [] focus = "static"  -> Static!MostSpecificMountServes /\ Static!CopiesAreConfirmed
    [] focus = "manifest" -> Manifests!LocksTellContents
    [] OTHER             -> TRUE
=================================================================================
