\* All parts; workspace commands two at a time.
CONSTANTS
  Parts = {"alone", "together", "analyze", "reports", "served"}
  Procs = {p1, p2}
  Repos <- MCRepos
  Paths = {"a_b.db", "c.db"}
  DBPath <- MCDBPath
  MaxCommands = 5
  AnalyzedRepos = {r1, r2}
  FoundDirs <- MCFoundDirs
  MaxRuns = 2
  Files = {f1, f2}
  Ignored = {}
  ServedFiles = {g1, g2}
  ServedIgnored = {g2}
  Versions = {v1, v2}
  Gone = Gone
  MaxCommits = 2
  MaxChanges = 3
  None = None
SYMMETRY Symmetry
SPECIFICATION CommandsSpec
INVARIANTS
  NoCollision
  ConfigurationIsKept
  AnalysesAreWhole
PROPERTY FreshnessIsHonest
\* Commands are bounded in number.
CHECK_DEADLOCK FALSE
