SPECIFICATION MCSpec
CONSTANTS
  Focus = {"cache", "db", "redis", "objects"}
  Keyspaces = {s}
  Keys = {c1, c2, c3}
  Limits = {1, 2}
  DefaultLimit = 2
  MaxSeq = 7
  Threads = {a, b}
  DbNamespaces = {"n1"}
  DbKeys = {d1, d2}
  MaxPuts = 2
  MaxOps = 2
  k1 = k1
  k2 = k2
  Commands <- RedisCommands
  Text = 99
  Numbers <- SmallNumbers
  ListLength = 2
  Buckets = {"b"}
  ObjectKeys = {"a", "a/b"}
  Folder <- OneFolder
SYMMETRY Symmetry
INVARIANTS
  NoDirtyWrites
  LaterOpWins
  ServesTheLiveKeys
  EveryObjectHasItsBucket
PROPERTIES
  LiveOutlivesExpired
  KeyspacesAreLru
  ExpiredStaysExpired
  VisibilityIsFixed
CHECK_DEADLOCK FALSE
