------------------------------- MODULE Watcher -------------------------------
(***************************************************************************)
(* The file watcher of one repository (internal/watcher/watcher.go): how   *)
(* file-system events become debounced, serialised updates of the graph.   *)
(*                                                                         *)
(* Three kinds of goroutine run beside each other: the event loop, the     *)
(* time.AfterFunc callbacks, and whoever holds updateMu (the job).  A job  *)
(* reads the disk several times between its steps while files keep         *)
(* changing.  A directory holds at most one package; its Go files are      *)
(* abstracted to a version number that grows with every edit, 0 when there *)
(* are none.  The graph is the version each package snapshot was parsed    *)
(* from, and the paths and packages its folder tree shows.  What           *)
(* RemovePackage, BuildFromParseResult and ReplaceRepositoryStructure do   *)
(* to the graph itself is modelled in KnowledgeGraph.  The walks over the  *)
(* disk visit siblings by name; names are abstract here, so any order may  *)
(* be the order of the names.                                              *)
(***************************************************************************)
EXTENDS Integers, Sequences

CONSTANTS
  Dirs,          \* the directories that may exist: the root and some below it
  Root,          \* the watched root directory
  Parent,        \* the directory each directory other than the root is in
  Subtree,       \* each directory with all that may be below it
  Files,         \* files other than Go files, all of them in the root
  StartDisks,    \* what the directories may hold when the watcher starts
  Failures,      \* which steps may fail: "parse", "store"
  MaxEdits,      \* bound on the number of changes the user makes
  MaxTimers,     \* bound on the timers of one directory alive at a time
  Absent,        \* a directory that does not exist
  NoDir          \* no directory

Children(d) == {x \in Dirs \ {Root} : Parent[x] = d}

WatcherAssumption ==
  /\ Root \in Dirs
  /\ NoDir \notin Dirs
  /\ Dirs \cap Files = {}
  /\ "structure" \notin Dirs
  /\ MaxEdits \in Nat /\ MaxTimers \in Nat
  /\ Absent \notin Nat
  /\ Parent \in [Dirs \ {Root} -> Dirs]
  /\ Subtree \in [Dirs -> SUBSET Dirs]
  /\ Subtree[Root] = Dirs
  /\ \A d \in Dirs : Subtree[d] = {d} \cup UNION {Subtree[x] : x \in Children(d)}
  /\ \A d \in Dirs \ {Root} : Parent[d] \notin Subtree[d]
  /\ \A d \in Dirs : \A x \in Subtree[d] \ {d} : x # Root /\ Parent[x] \in Subtree[d]
  /\ \A d \in Dirs : \A x \in Subtree[d] : Subtree[x] \subseteq Subtree[d]
  /\ \A c, d \in Dirs : c \in Subtree[d] \/ d \in Subtree[c] \/ Subtree[c] \cap Subtree[d] = {}
  /\ StartDisks \subseteq [Dirs -> {Absent, 0, 1}]
  /\ \A s \in StartDisks :
       /\ s[Root] # Absent
       /\ \A d \in Dirs : \A x \in Subtree[d] : s[x] # Absent => s[d] # Absent
  /\ Failures \subseteq {"parse", "store"}

Versions == 0..(MaxEdits + 1)
Paths == Dirs \cup Files
Slots == Dirs \cup {"structure"}   \* w.timers, and w.structureTimer
TimerIDs == 1..MaxTimers
Timer == Slots \X TimerIDs
Event == [kind: {"go", "create", "remove"}, path: Paths]
LoopStages == {"idle", "watch", "lock", "job"}
JobKinds == {"none", "package", "structure", "tree", "path"}
JobStages == {"idle", "clear", "scan", "next", "begin", "parse", "recheck", "drop",
              "apply", "build", "structure", "walk", "replace"}
Tree == [paths: SUBSET Paths, packages: SUBSET Dirs]

VARIABLES
  disk,     \* the Go files of each directory: a version, 0, or Absent
  others,   \* the files other than Go files
  edits,    \* how many changes the user has made
  watches,  \* the directories fsnotify watches
  events,   \* events not yet received from w.watcher.Events
  loop,     \* the event loop: the event it handles and how far it is
  timers,   \* w.timers and w.structureTimer: the timer in each slot, 0 when none
  armed,    \* timers that have not fired
  started,  \* structure callbacks that have not yet looked at w.structureTimer
  waiting,  \* callbacks waiting for updateMu
  job,      \* the holder of updateMu and how far it is
  graph,    \* the version each package snapshot in the graph was parsed from
  tree,     \* the folder tree in the graph
  missed,   \* history: directories an aborted walk left without a watch
  dropped,  \* history: directories whose last update ended with a logged error
  treeLost, \* history: the last replacement of the folder tree failed
  unseen,   \* history: directories whose Go files were removed while not watched
  steady,   \* history: directories with Go files, and no build that failed, all the time
  unshown,  \* history: packages that changed in an update that ended without a refresh
  crossPkg  \* packages whose cross-package IMPLEMENTS edges are in the graph

user == <<disk, others, edits>>
timing == <<timers, armed, started, waiting>>
lost == <<missed, dropped, treeLost, unshown>>
seen == <<unseen, steady>>
vars == <<user, watches, events, loop, timing, job, graph, crossPkg, tree, lost, seen>>

-----------------------------------------------------------------------------
NoEvent == [kind |-> "go", path |-> Root]
IdleLoop == [at |-> "idle", event |-> NoEvent, todo |-> {}]
IdleJob == [kind |-> "none", stage |-> "idle", todo |-> {}, found |-> {}, cur |-> NoDir,
            known |-> FALSE, res |-> 0, seen |-> [paths |-> {}, packages |-> {}]]

Exists(d) == disk[d] # Absent
GoFiles(d) == IF Exists(d) THEN disk[d] ELSE 0
HasGo(d) == GoFiles(d) # 0
OnDisk == {d \in Dirs : Exists(d)} \cup others
Packages == {d \in Dirs : graph[d] # 0}
Under(p) == IF p \in Dirs THEN Subtree[p] ELSE {}

\* Below a directory without a watch nothing is reported.
Blind == UNION {Subtree[d] : d \in missed}

-----------------------------------------------------------------------------
(* The user.  A change is reported when the directory it happens in is     *)
(* watched at that moment.                                                 *)

Report(dir, kind, path) ==
  events' = IF dir \in watches THEN Append(events, [kind |-> kind, path |-> path])
                               ELSE events

Edit ==
  /\ edits < MaxEdits
  /\ edits' = edits + 1
  /\ UNCHANGED <<loop, timing, job, graph, crossPkg, tree, lost>>

NewVersion == edits + 2

WriteGo(d) ==
  /\ Edit
  /\ Exists(d)
  /\ disk' = [disk EXCEPT ![d] = NewVersion]
  /\ Report(d, "go", d)
  /\ UNCHANGED <<others, watches, seen>>

RemoveGo(d) ==
  /\ Edit
  /\ HasGo(d)
  /\ disk' = [disk EXCEPT ![d] = 0]
  /\ Report(d, "go", d)
  /\ unseen' = IF d \in watches THEN unseen \ {d} ELSE unseen \cup {d}
  /\ steady' = steady \ {d}
  /\ UNCHANGED <<others, watches>>

\* A directory is made, or a tree is moved into place, with one event for its top.
MakeDir(d) ==
  /\ Edit
  /\ d # Root /\ ~Exists(d) /\ Exists(Parent[d])
  /\ \E new \in SUBSET Subtree[d] :
       \E go \in SUBSET new :
         /\ d \in new
         /\ \A x \in new, y \in Subtree[d] : x \in Subtree[y] => y \in new
         /\ disk' = [x \in Dirs |-> IF x \in go THEN NewVersion
                                    ELSE IF x \in new THEN 0 ELSE disk[x]]
  /\ Report(Parent[d], "create", d)
  /\ UNCHANGED <<others, watches, seen>>

\* A tree disappears; the kernel drops its watches.
RemoveDir(d) ==
  /\ Edit
  /\ d # Root /\ Exists(d)
  /\ disk' = [x \in Dirs |-> IF x \in Subtree[d] THEN Absent ELSE disk[x]]
  /\ watches' = watches \ Subtree[d]
  /\ Report(Parent[d], "remove", d)
  /\ unseen' = IF Parent[d] \in watches THEN unseen \ Subtree[d] ELSE unseen \cup Subtree[d]
  /\ steady' = steady \ Subtree[d]
  /\ UNCHANGED others

ToggleFile(f) ==
  /\ Edit
  /\ others' = IF f \in others THEN others \ {f} ELSE others \cup {f}
  /\ Report(Root, IF f \in others THEN "remove" ELSE "create", f)
  /\ UNCHANGED <<disk, watches, seen>>

User == \/ \E d \in Dirs : WriteGo(d) \/ RemoveGo(d) \/ MakeDir(d) \/ RemoveDir(d)
        \/ \E f \in Files : ToggleFile(f)

-----------------------------------------------------------------------------
(* Debouncing.                                                             *)

\* debounce, debounceRepositoryStructure: stop the timer in the slot, start another.
Debounce(s) ==
  \E k \in TimerIDs :
    /\ <<s, k>> \notin armed \cup started \cup waiting
    /\ \A j \in 1..(k - 1) : <<s, j>> \in armed \cup started \cup waiting
    /\ armed' = (armed \ {<<s, timers[s]>>}) \cup {<<s, k>>}
    /\ timers' = [timers EXCEPT ![s] = k]
    /\ UNCHANGED <<started, waiting>>

\* A timer fires: its callback runs in a goroutine of its own.
Fire(t) ==
  /\ t \in armed
  /\ armed' = armed \ {t}
  /\ IF t[1] = "structure" THEN started' = started \cup {t} /\ UNCHANGED waiting
                           ELSE waiting' = waiting \cup {t} /\ UNCHANGED started
  /\ UNCHANGED <<user, watches, events, loop, timers, job, graph, crossPkg, tree, lost, seen>>

\* The structure callback gives up when another timer has taken the slot.
\* Faulty variant: also when an update is running.
CheckSupersededOrBusy(t) ==
  /\ t \in started
  /\ started' = started \ {t}
  /\ IF timers[t[1]] = t[2] /\ job = IdleJob
     THEN /\ timers' = [timers EXCEPT ![t[1]] = 0]
          /\ waiting' = waiting \cup {t}
     ELSE UNCHANGED <<timers, waiting>>
  /\ UNCHANGED <<user, watches, events, loop, armed, job, graph, crossPkg, tree, lost, seen>>
CheckSuperseded(t) ==
  /\ t \in started
  /\ started' = started \ {t}
  /\ IF timers[t[1]] = t[2]
     THEN /\ timers' = [timers EXCEPT ![t[1]] = 0]
          /\ waiting' = waiting \cup {t}
     ELSE UNCHANGED <<timers, waiting>>
  /\ UNCHANGED <<user, watches, events, loop, armed, job, graph, crossPkg, tree, lost, seen>>

-----------------------------------------------------------------------------
(* The event loop (handleEvent).                                           *)

Receive(kind) ==
  /\ loop.at = "idle"
  /\ events # <<>>
  /\ Head(events).kind = kind
  /\ events' = Tail(events)
  /\ UNCHANGED <<user, watches, job, graph, crossPkg, tree, lost, seen>>

HandleGo ==
  /\ Receive("go")
  /\ Debounce(Head(events).path)
  /\ UNCHANGED loop

\* The path is looked up when the event is handled: it may be gone by then.
HandleCreate ==
  LET e == Head(events)
  IN  /\ Receive("create")
      /\ IF e.path \in Files
         THEN /\ UNCHANGED loop
              /\ IF e.path \in others THEN Debounce("structure") ELSE UNCHANGED timing
         ELSE /\ UNCHANGED timing
              /\ loop' = IF Exists(e.path)
                         THEN [at |-> "watch", event |-> e, todo |-> {e.path}] ELSE loop

HandleRemove ==
  /\ Receive("remove")
  /\ loop' = [at |-> "lock", event |-> Head(events), todo |-> {}]
  /\ UNCHANGED timing

\* addWatchDirRecursive, one directory: a directory that vanished ends the walk.
\* Faulty variant: the top directory only.
WatchTop ==
  /\ loop.at = "watch"
  /\ watches' = watches \cup {x \in loop.todo : Exists(x)}
  /\ loop' = [loop EXCEPT !.todo = {}, !.at = "lock"]
  /\ UNCHANGED <<user, events, timing, job, graph, crossPkg, tree, lost, seen>>
WatchDir ==
  /\ loop.at = "watch"
  /\ \E x \in loop.todo :
       LET todo == (loop.todo \ {x}) \cup {c \in Children(x) : Exists(c)}
       IN  IF Exists(x)
           THEN /\ watches' = watches \cup {x}
                /\ missed' = missed \ {x}
                /\ loop' = [loop EXCEPT !.todo = todo,
                                        !.at = IF todo = {} THEN "lock" ELSE "watch"]
           ELSE /\ missed' = missed \cup UNION {Subtree[y] : y \in loop.todo \ {x}}
                /\ loop' = [loop EXCEPT !.todo = {}, !.at = "lock"]
                /\ UNCHANGED watches
  /\ UNCHANGED <<user, events, timing, job, graph, crossPkg, tree, dropped, treeLost, unshown, seen>>

-----------------------------------------------------------------------------
(* Taking updateMu.                                                        *)

LockForTimer(t) ==
  /\ job = IdleJob
  /\ t \in waiting
  /\ waiting' = waiting \ {t}
  /\ job' = IF t[1] = "structure"
            THEN [IdleJob EXCEPT !.kind = "structure", !.stage = "structure"]
            ELSE [IdleJob EXCEPT !.kind = "package", !.stage = "begin", !.cur = t[1]]
  /\ UNCHANGED <<user, watches, events, loop, timers, armed, started, graph, crossPkg, tree, lost, seen>>

\* updateTree scans the new tree; removePathAndRefreshStructure removes the packages
\* known under the path first, or only refreshes the folder tree when there are none.
\* Faulty variant: a new tree is shown, not scanned.
LockForRefresh ==
  /\ job = IdleJob
  /\ loop.at = "lock"
  /\ loop' = [loop EXCEPT !.at = "job"]
  /\ job' = [IdleJob EXCEPT !.kind = "path", !.stage = "structure"]
  /\ UNCHANGED <<user, watches, events, timing, graph, crossPkg, tree, lost, seen>>
LockForLoop ==
  LET known == Under(loop.event.path) \cap Packages
  IN  /\ job = IdleJob
      /\ loop.at = "lock"
      /\ loop' = [loop EXCEPT !.at = "job"]
      /\ job' = CASE loop.event.kind = "create" ->
                       [IdleJob EXCEPT !.kind = "tree", !.stage = "scan",
                                       !.todo = {loop.event.path}]
                  [] loop.event.kind = "remove" /\ known = {} ->
                       [IdleJob EXCEPT !.kind = "path", !.stage = "structure"]
                  [] OTHER ->
                       [IdleJob EXCEPT !.kind = "tree", !.stage = "clear", !.todo = known]
      /\ UNCHANGED <<user, watches, events, timing, graph, crossPkg, tree, lost, seen>>

-----------------------------------------------------------------------------
(* The job under updateMu.                                                 *)

Unlock ==
  /\ job' = IdleJob
  /\ loop' = IF job.kind \in {"tree", "path"} THEN IdleLoop ELSE loop

Goto(stage) == job' = [job EXCEPT !.stage = stage] /\ UNCHANGED loop

\* What follows updatePackageLocked: the next directory of the tree, or the refresh
\* of the folder tree unless the update ended with an error.  Faulty variant: the lock
\* is kept after an error.
PackageDoneKeepingLock(ok) ==
  CASE job.kind = "tree" -> Goto("next")
    [] job.kind # "tree" /\ ok -> Goto("structure")
    [] OTHER -> UNCHANGED <<job, loop>>
PackageDone(ok) ==
  CASE job.kind = "tree" -> Goto("next")
    [] job.kind # "tree" /\ ok -> Goto("structure")
    [] OTHER -> Unlock

\* RemovePackage takes the outgoing edges of a package with it, the IMPLEMENTS edges
\* of the last full analysis included; an incremental parse does not find those again.
RemovePackages(S) ==
  /\ graph' = [d \in Dirs |-> IF d \in S THEN 0 ELSE graph[d]]
  /\ crossPkg' = crossPkg \ S

\* runUpdate around RemovePackage for every package of a removed path.
Clear ==
  /\ job.stage = "clear"
  /\ \E gone \in SUBSET job.todo :
       /\ gone = job.todo \/ "store" \in Failures
       /\ RemovePackages(gone)
       /\ dropped' = (dropped \ gone) \cup (job.todo \ gone)
  /\ job' = [job EXCEPT !.stage = "scan", !.todo = {Root}]
  /\ UNCHANGED <<user, watches, events, loop, timing, tree, missed, treeLost, unshown, seen>>

\* goPackageDirs, one directory: a directory that vanished ends the walk.
Scan ==
  /\ job.stage = "scan"
  /\ \E x \in job.todo :
       LET todo == (job.todo \ {x}) \cup {c \in Children(x) : Exists(c)}
       IN  IF Exists(x)
           THEN /\ job' = [job EXCEPT !.todo = todo,
                                      !.found = IF HasGo(x) THEN @ \cup {x} ELSE @,
                                      !.stage = IF todo = {} THEN "next" ELSE "scan"]
                /\ UNCHANGED dropped
           ELSE /\ job' = [job EXCEPT !.todo = {}, !.stage = "next"]
                /\ dropped' = dropped \cup UNION {Subtree[y] : y \in job.todo \ {x}}
  /\ UNCHANGED <<user, watches, events, loop, timing, graph, crossPkg, tree, missed, treeLost, unshown, seen>>

NextDir ==
  /\ job.stage = "next"
  /\ IF job.found = {}
     THEN job' = [job EXCEPT !.stage = "structure", !.cur = NoDir]
     ELSE \E d \in job.found : job' = [job EXCEPT !.stage = "begin", !.cur = d,
                                                  !.found = @ \ {d}]
  /\ UNCHANGED <<user, watches, events, loop, timing, graph, crossPkg, tree, lost, seen>>

\* updatePackageLocked clears the slot of the directory, even when a later timer is
\* in it, and looks for a package whose Go files are gone.
Begin ==
  /\ job.stage = "begin"
  /\ timers' = [timers EXCEPT ![job.cur] = 0]
  /\ LET known == job.cur \in Packages
     IN  job' = [job EXCEPT !.known = known,
                            !.stage = IF known /\ ~HasGo(job.cur) THEN "drop" ELSE "parse"]
  /\ UNCHANGED <<user, watches, events, loop, armed, started, waiting, graph, crossPkg, tree, lost, seen>>

\* packages.Load and ParsePackageIncremental, before the graph is touched.
\* Faulty variant: the directory is read without a check that it is there.
ParseUnchecked ==
  /\ job.stage = "parse"
  /\ job' = [job EXCEPT !.stage = "apply", !.res = disk[job.cur]]
  /\ UNCHANGED <<user, watches, events, loop, timing, graph, crossPkg, tree, lost, seen>>
Parse ==
  /\ job.stage = "parse"
  /\ \/ /\ HasGo(job.cur)
        /\ job' = [job EXCEPT !.stage = "apply", !.res = disk[job.cur]]
        /\ UNCHANGED dropped
     \/ /\ ~HasGo(job.cur)
        /\ job' = [job EXCEPT !.stage = "recheck"]
        /\ UNCHANGED dropped
     \/ /\ HasGo(job.cur) /\ "parse" \in Failures
        /\ job' = [job EXCEPT !.stage = "recheck"]
        /\ dropped' = dropped \cup {job.cur}
  /\ UNCHANGED <<user, watches, events, loop, timing, graph, crossPkg, tree, missed, treeLost, unshown, seen>>

\* removePackagesIfNoGoFiles once more, after an error.
\* Faulty variant: any error removes the package.
RecheckNothing ==
  /\ job.stage = "recheck"
  /\ IF job.known THEN Goto("drop") ELSE PackageDone(FALSE)
  /\ UNCHANGED <<user, watches, events, timing, graph, crossPkg, tree, lost, seen>>
Recheck ==
  /\ job.stage = "recheck"
  /\ IF job.known /\ ~HasGo(job.cur) THEN Goto("drop") ELSE PackageDone(FALSE)
  /\ UNCHANGED <<user, watches, events, timing, graph, crossPkg, tree, lost, seen>>

\* The outcomes of runUpdate once the graph is changed: saving the metadata may fail.
Saved == {TRUE} \cup (IF "store" \in Failures THEN {FALSE} ELSE {})

\* runUpdate ends after the graph was changed.
PackageChanged(ok) ==
  /\ PackageDone(ok)
  /\ unshown' = IF ok \/ job.kind = "tree" THEN unshown ELSE unshown \cup {job.cur}

\* runUpdate around RemovePackage for a directory without Go files.
Drop ==
  /\ job.stage = "drop"
  /\ \/ /\ RemovePackages({job.cur})
        /\ dropped' = dropped \ {job.cur}
        /\ \E ok \in Saved : PackageChanged(ok)
     \/ /\ "store" \in Failures
        /\ dropped' = dropped \cup {job.cur}
        /\ PackageDone(FALSE)
        /\ UNCHANGED <<graph, crossPkg, unshown>>
  /\ UNCHANGED <<user, watches, events, timing, tree, missed, treeLost, seen>>

\* runUpdate: RemovePackage, then (Build) BuildFromParseResult; readers run between.
Apply ==
  /\ job.stage = "apply"
  /\ \/ /\ RemovePackages({job.cur})
        /\ Goto("build")
        /\ UNCHANGED dropped
     \/ /\ "store" \in Failures
        /\ dropped' = dropped \cup {job.cur}
        /\ PackageDone(FALSE)
        /\ UNCHANGED <<graph, crossPkg>>
  /\ UNCHANGED <<user, watches, events, timing, tree, missed, treeLost, unshown, seen>>

Build ==
  /\ job.stage = "build"
  /\ \/ /\ graph' = [graph EXCEPT ![job.cur] = job.res]
        /\ dropped' = dropped \ {job.cur}
        /\ \E ok \in Saved : PackageChanged(ok)
        /\ UNCHANGED steady
     \/ /\ "store" \in Failures
        /\ dropped' = dropped \cup {job.cur} /\ steady' = steady \ {job.cur}
        /\ PackageChanged(FALSE)
        /\ UNCHANGED graph
  /\ UNCHANGED <<user, watches, events, timing, crossPkg, tree, missed, treeLost, unseen>>

\* refreshRepositoryStructureLocked reads the packages from the graph, ...
ReadPackages ==
  /\ job.stage = "structure"
  /\ job' = [job EXCEPT !.stage = "walk", !.todo = {Root},
                        !.seen = [paths |-> {}, packages |-> Packages]]
  /\ UNCHANGED <<user, watches, events, loop, timing, graph, crossPkg, tree, lost, seen>>

\* ... then the folders and files from the disk, one directory after the other; a
\* directory that vanished ends the walk and the refresh with it, ...
Walk ==
  /\ job.stage = "walk"
  /\ \E x \in job.todo :
       LET todo == (job.todo \ {x}) \cup {c \in Children(x) : Exists(c)}
       IN  IF Exists(x)
           THEN /\ job' = [job EXCEPT !.todo = todo,
                                      !.seen.paths = @ \cup {x} \cup
                                        (IF x = Root THEN others ELSE {}),
                                      !.stage = IF todo = {} THEN "replace" ELSE "walk"]
                /\ UNCHANGED loop
           ELSE Unlock
  /\ UNCHANGED <<user, watches, events, timing, graph, crossPkg, tree, lost, seen>>

\* ... and replaces the folder tree; a package whose folder is not there gets no edge.
\* A failure comes before the old tree is removed or after it.
ReplaceStructure ==
  /\ job.stage = "replace"
  /\ \/ /\ tree' = [job.seen EXCEPT !.packages = @ \cap job.seen.paths]
        /\ treeLost' = FALSE /\ unshown' = {}
     \/ /\ "store" \in Failures
        /\ treeLost' = TRUE
        /\ tree' \in {tree, [paths |-> {}, packages |-> {}]}
        /\ UNCHANGED unshown
  /\ Unlock
  /\ UNCHANGED <<user, watches, events, timing, graph, crossPkg, missed, dropped, seen>>

-----------------------------------------------------------------------------
\* The process starts on a database that agrees with the disk and with a watch on
\* every directory (Start).
Init ==
  /\ disk \in StartDisks
  /\ others = {}
  /\ edits = 0
  /\ watches = {d \in Dirs : Exists(d)}
  /\ events = <<>>
  /\ loop = IdleLoop
  /\ timers = [s \in Slots |-> 0]
  /\ armed = {} /\ started = {} /\ waiting = {}
  /\ job = IdleJob
  /\ graph = [d \in Dirs |-> GoFiles(d)]
  /\ tree = [paths |-> OnDisk, packages |-> Packages]
  /\ crossPkg = Packages
  /\ missed = {} /\ dropped = {} /\ treeLost = FALSE
  /\ unseen = {} /\ steady = Packages /\ unshown = {}

\* Goroutines that can run do run, time passes, and a free mutex is taken: weak fairness
\* of each of these four is assumed where something must happen in the end.
EventLoop == HandleGo \/ HandleCreate \/ HandleRemove \/ WatchDir
Timers == \E t \in Timer : Fire(t) \/ CheckSuperseded(t)
Lock == LockForLoop \/ \E t \in Timer : LockForTimer(t)
Job == \/ Clear \/ Scan \/ NextDir \/ Begin \/ Parse \/ Recheck \/ Drop \/ Apply \/ Build
       \/ ReadPackages \/ Walk \/ ReplaceStructure

Next == User \/ EventLoop \/ Timers \/ Lock \/ Job

Spec == Init /\ [][Next]_vars
FairSpec == Spec /\ WF_vars(EventLoop) /\ WF_vars(Timers) /\ WF_vars(Lock) /\ WF_vars(Job)

-----------------------------------------------------------------------------
(* Properties.                                                             *)

\* The types of the variables; a parse result is a version that was on disk and never
\* the mark of a directory that is gone.
TypeOK ==
  /\ disk \in [Dirs -> Versions \cup {Absent}]
  /\ others \subseteq Files
  /\ edits \in 0..MaxEdits
  /\ watches \subseteq Dirs
  /\ events \in Seq(Event)
  /\ loop \in [at: LoopStages, event: Event, todo: SUBSET Dirs]
  /\ timers \in [Slots -> 0..MaxTimers]
  /\ armed \subseteq Timer /\ started \subseteq Timer /\ waiting \subseteq Timer
  /\ job \in [kind: JobKinds, stage: JobStages, todo: SUBSET Dirs, found: SUBSET Dirs,
              cur: Dirs \cup {NoDir}, known: BOOLEAN, res: Versions, seen: Tree]
  /\ graph \in [Dirs -> Versions]
  /\ tree \in Tree
  /\ crossPkg \subseteq Dirs
  /\ missed \subseteq Dirs /\ dropped \subseteq Dirs /\ treeLost \in BOOLEAN
  /\ unseen \subseteq Dirs /\ steady \subseteq Dirs /\ unshown \subseteq Dirs

Queued == {events[i] : i \in 1..Len(events)}
               \cup (IF loop.at \in {"watch", "lock"} THEN {loop.event} ELSE {})

\* The job has yet to read the Go files of d, or what it read is what d holds.
JobCovers(d) ==
  \/ job.stage = "clear"
  \/ job.stage = "scan" /\ \E x \in job.todo : d \in Subtree[x]
  \/ d \in job.found
  \/ job.cur = d /\ job.stage \in {"begin", "parse", "recheck"}
  \/ job.cur = d /\ job.stage \in {"apply", "build"} /\ job.res = GoFiles(d)
  \/ job.cur = d /\ job.stage = "drop" /\ GoFiles(d) = 0

ChangePending(d) ==
  \/ \E e \in Queued : IF e.kind = "go" THEN e.path = d ELSE d \in Under(e.path)
  \/ \E t \in armed \cup waiting : t[1] = d
  \/ JobCovers(d)

\* No change to Go files gets lost between an event, the debouncing, a stopped timer,
\* the slot cleared under a later timer, the wait for updateMu and the reads of a job:
\* while the graph and the disk disagree about a directory, some step that will read it
\* again is on its way, unless an error was logged for it, an aborted walk left it or a
\* directory above it without a watch, or its Go files were removed while it had none.
NoLostChange ==
  \A d \in Dirs \ (Blind \cup dropped) :
    \/ graph[d] = GoFiles(d)
    \/ ChangePending(d)
    \/ d \in unseen /\ ~HasGo(d)

JobWillShow(p) ==
  \/ job.kind \in {"tree", "path", "structure"} /\ job.stage \notin {"walk", "replace"}
  \/ job.stage = "walk" /\ \E x \in job.todo : p \in Under(x) \/ (x = Root /\ p \in Files)
  \/ job.stage \in {"walk", "replace"} /\ (p \in job.seen.paths <=> p \in OnDisk)

\* The same for the folder tree: while it disagrees with the disk about a path, a
\* refresh that will see the path is on its way, although refreshes are debounced in a
\* single slot, callbacks give up when they are superseded, and a refresh is abandoned
\* when a directory vanishes under its walk.  Every directory must have its watch: one
\* that vanishes unnoticed ends a refresh and nothing starts another.
NoLostPath ==
  \A p \in Paths :
    \/ treeLost \/ missed # {}
    \/ p \in tree.paths <=> p \in OnDisk
    \/ \E e \in Queued : e.kind = "remove" \/ (e.kind = "create" /\ e.path \in OnDisk)
    \/ loop.at \in {"watch", "lock"}
    \/ \E t \in armed \cup started \cup waiting : t[1] = "structure"
    \/ JobWillShow(p)

\* No directory stays without a watch: it has one, or the event that will give it one
\* is on its way, however directories are moved in, removed and made again while the
\* event loop walks them; but for those below one that an aborted walk left out.
NoBlindDir ==
  \A d \in Dirs \ Blind :
    \/ Exists(d) => d \in watches
    \/ \E i \in 1..Len(events) : events[i].kind = "create" /\ d \in Under(events[i].path)
    \/ loop.at = "watch" /\ \E x \in loop.todo : d \in Subtree[x]

\* "Reparse before mutating the graph so a transient parse failure does not erase the
\* previous package snapshot": a package that was never without Go files is missing
\* from the graph only between RemovePackage and BuildFromParseResult, or when the latter
\* has failed.
SnapshotKept ==
  \A d \in steady : graph[d] # 0 \/ (job.stage = "build" /\ job.cur = d)

\* The graph and the folder tree agree with the disk.
Agrees ==
  /\ \A d \in Dirs \ (Blind \cup dropped) :
       graph[d] = GoFiles(d) \/ (d \in unseen /\ ~HasGo(d))
  /\ \/ treeLost \/ missed # {}
     \/ \A p \in Paths : p \in tree.paths <=> p \in OnDisk
  /\ treeLost \/ \A d \in Dirs \ unshown : d \in tree.packages <=> d \in Packages \cap tree.paths

\* Once the user stops, the graph and the folder tree come to agree with the disk; but
\* where an error was logged (dropped, treeLost, unshown) or nothing was reported.
Converges == <>[]Agrees

-----------------------------------------------------------------------------
(* What the repository says of the watcher, and the code does not keep.     *)

\* README.md: the "file watcher reparses changed packages".  Without any error, a
\* directory whose Go files differ from the graph is going to be parsed again.
WrittenCodeIsPending ==
  \A d \in Dirs : HasGo(d) => graph[d] = GoFiles(d) \/ ChangePending(d)

\* The comment on ParsePackageIncremental: cross-package IMPLEMENTS edges "remain from
\* the last full analysis run".
ImplementsRemain ==
  \A d \in steady : d \in crossPkg
=============================================================================
