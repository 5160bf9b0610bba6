\* A directory with two below it, moved in as one tree; nothing fails.
CONSTANTS
  Dirs <- DeepDirs
  Root = "root"
  Parent <- DeepParent
  Subtree <- DeepSubtree
  Files = {}
  StartDisks <- DeepDisks
  Failures = {}
  MaxEdits = 3
  MaxTimers = 3
  Absent = Absent
  NoDir = NoDir
SPECIFICATION Spec
INVARIANT WrittenCodeIsPending
\* The user may stop.
CHECK_DEADLOCK FALSE
