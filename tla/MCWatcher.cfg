\* A chain of directories and a file; parses and stores fail.
CONSTANTS
  Dirs <- ChainDirs
  Root = "root"
  Parent <- ChainParent
  Subtree <- ChainSubtree
  Files = {"note"}
  StartDisks <- ChainDisks
  Failures = {"parse", "store"}
  MaxEdits = 3
  MaxTimers = 3
  Absent = Absent
  NoDir = NoDir
SPECIFICATION FairSpec
INVARIANTS
  TypeOK
  NoLostChange
  SnapshotKept
  NoLostPath
  NoBlindDir
PROPERTY Converges
\* The user may stop.
CHECK_DEADLOCK FALSE
