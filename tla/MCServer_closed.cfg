\* Two watchers with a database each, and a node both repositories know.
CONSTANTS
  Parts = {"storage"}
  Repos <- MCRepos
  DBs = {"d1", "d2"}
  DBOf <- OneEach
  Loaders = {"l1"}
  Shared <- StubOfR1
  Timeout = 3
  Delay = 2
  MaxUpdates = 1
  Clients = {c1, c2}
  HasImpactRepos = TRUE
  MaxLimit = 2
  DefaultLimit = 1
  Lines <- MCLines
  MaxSent = 2
  Bodies <- MCBodies
  Posts <- MCPosts
  None = None
SPECIFICATION ServerSpec
INVARIANT NoUseOfClosedStore
CHECK_DEADLOCK FALSE
