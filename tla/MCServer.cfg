\* Two watchers on one directory; and every kind of request.
CONSTANTS
  Parts = {"storage", "stdio", "http"}
  Repos <- MCRepos
  DBs = {"d1"}
  DBOf <- SameDir
  Loaders = {"l1"}
  Shared <- NoShared
  Timeout = 3
  Delay = 2
  MaxUpdates = 2
  Clients = {c1, c2}
  HasImpactRepos = TRUE
  MaxLimit = 2
  DefaultLimit = 1
  Lines <- MCLines
  MaxSent = 2
  Bodies <- MCBodies
  Posts <- MCPosts
  None = None
SPECIFICATION ServerSpec
INVARIANTS
  UpdateOwnsStore
  SessionIsOrderly
  SameOverHttp
PROPERTIES
  DroppedOnlyIfLocked
  HandedBack
  NobodyWaitsForever
\* Clients and users may stop, and the server ends.
CHECK_DEADLOCK FALSE
