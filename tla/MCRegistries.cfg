SPECIFICATION MCSpec
CONSTANTS
  Focus = {"deploy", "broker", "streams", "auth", "secrets", "infra", "tests", "hub", "metrics", "cluster",
           "wire", "compiler", "rules", "surface", "static", "manifest", "config", "jwt", "json", "frames",
           "http"}
  Targets = {prod, staging}
  MaxDeployments = 4
  None = None
  Clients = {c1}
  Names = {n1, n2}
  Values = {v1, v2}
  Rooms = {r1, r2}
  Conns = {w1, w2, w3}
  Opaque = {o1}
  ApiKeys = {a1}
  Topics = {t1, t2}
  Subscriber = s1
  MaxTraces = 2
  MaxLogs = 1
  Burst = 1
  MaxCounter = 3
  MaxSessions = 2
  Subjects = {"u1"}
  Customs = {"role", "scopes"}
  Ttls <- MCTtls
  MaxNow = 2
  Places = {"env"}
  Addrs = {"h:1", "h:2"}
  BadAddrs = {"h"}
  Engines = {"postgres", "oracle"}
  Principals = {"u1"}
  Services = {"auth"}
  Levels = {"warn", "loud"}
  MaxSeq = 3
  MaxMembers = 3
  Endpoints = {"GET /a-b", "GET /a/b"}
  Label <- MCLabel
  Successes = {200}
  Failures = {400, 500}
  Durations = {0, 3}
  MaxServed = 3
  Nodes = {"n1", "n2"}
  NumSlots = 2
  NumNumbers = 3
  Word = 16
  Keys <- MCKeys
  MaxReplicas = 1
  MountPrefixes <- MCMountPrefixes
  Builders = {1, 2}
  Apps <- MCApps
  Languages <- MCLanguages
  ItemNames <- MCItemNames
  Images <- MCImages
  Resources <- MCResources
  SpecCalls <- MCSpecCalls
  BridgeFiles <- MCBridgeFiles
  Dirs <- MCDirs
  Fallbacks <- MCFallbacks
  Paths <- MCPaths
  Contents <- MCContents
INVARIANTS
  AtMostOneLive
  SuccessionLeadsToLive
  RegistriesKeepTheirWord
  CommandsArriveAsMeant
  RulesKeepTheirMeaning
  PathsLeadWhereTheySay
  DeclarationsAreKept
  ReadAsWritten
PROPERTIES
  NeverGoesDark
  FailedBuildsStayDown
  RollbackUndoesDeploy
  EveryMessageSettles
  GoneClientsAreDropped
  AnswersFitAMoment
  NamespacesAreFresh
CHECK_DEADLOCK FALSE
