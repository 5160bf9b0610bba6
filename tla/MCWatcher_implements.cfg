\* The root and a directory; nothing fails.
CONSTANTS
  Dirs <- FlatDirs
  Root = "root"
  Parent <- FlatParent
  Subtree <- FlatSubtree
  Files = {}
  StartDisks <- FlatDisks
  Failures = {}
  MaxEdits = 3
  MaxTimers = 3
  Absent = Absent
  NoDir = NoDir
SPECIFICATION Spec
INVARIANT ImplementsRemain
\* The user may stop.
CHECK_DEADLOCK FALSE
