------------------------------ MODULE Freshness ------------------------------
(***************************************************************************)
(* How the freshness report of `gokg impact` relates the stored graph to   *)
(* the working tree (internal/impact/freshness.go, internal/gitstate).     *)
(* `gokg analyze` and the updates of a watcher write graph and metadata    *)
(* into one database, step by step, while the user edits, commits and      *)
(* checks out; each of them, and the report, reads Git in two commands.    *)
(*                                                                         *)
(* A version of a file stands for its declarations, so the graph holds a   *)
(* set of versions per file.  Metadata keep HEAD and the fingerprint of    *)
(* `git status --porcelain`: which files differ from the index, and the    *)
(* index from HEAD, and how, but not their contents; files that Git        *)
(* ignores are not in it.  The database is outside the working tree, or    *)
(* ignored.                                                                *)
(***************************************************************************)
EXTENDS Integers, Sequences, FiniteSets

CONSTANTS
  Files, Versions,
  Gone,          \* the file does not exist
  Ignored,       \* files that Git neither tracks nor lists, but the Go tool reads
  Modes,         \* ways the database is written: "rebuild", "plain", "watch"
  Server,        \* the reports are those of one MCP server, not of gokg impact
  MaxCommits,    \* bound: commits
  MaxChanges     \* bound: edits, analyses and updates together

FreshnessAssumption ==
  /\ Gone \notin Versions /\ Ignored \subseteq Files
  /\ Modes \subseteq {"rebuild", "plain", "watch"}
  /\ Server \in BOOLEAN
  /\ MaxCommits \in Nat \ {0} /\ MaxChanges \in Nat

Trees == [Files -> Versions \cup {Gone}]

VARIABLES
  disk,        \* the working tree
  index,       \* what the next commit will be
  commits,     \* trees of the commits
  head,        \* HEAD
  graph,       \* declarations in the database
  served,      \* declarations in the graph in memory
  meta,        \* "meta:analysis:v1", or NoMeta
  writer,      \* the analyze or watch process that has the database open
  pending,     \* files whose events the watcher has not handled
  report,      \* the report that is being made
  changes,     \* edits, analyses and updates so far
  whole,       \* history: the graph has seen a whole merge since it was emptied
  exact,       \* history: it was filled by a rebuild nothing disturbed, and left alone since
  same         \* history: tree, index and HEAD are still what the process that wrote meta saw

vars == <<disk, index, commits, head, graph, served, meta, writer, pending, report, changes,
          whole, exact, same>>

NoMeta == [head |-> 0, status |-> {}, available |-> FALSE, saved |-> FALSE]
Idle == [pc |-> "idle", mode |-> "none", file |-> "none", source |-> {}, head |-> 0, meta |-> NoMeta, calm |-> TRUE]
NoReport == [pc |-> "idle", meta |-> NoMeta, head |-> 0, verdict |-> "none", calm |-> TRUE]

-----------------------------------------------------------------------------
(* Git.                                                                    *)

\* What Git can keep of a tree.
Tracked(tree) == [f \in Files |-> IF f \in Ignored THEN Gone ELSE tree[f]]

\* git status --porcelain: the files that are not what HEAD and the index say, with the
\* letters of both differences ("M ", " M", "A ", "??", ...).
Kind(from, to) ==
  IF from = to THEN "same" ELSE IF from = Gone THEN "added" ELSE IF to = Gone THEN "deleted" ELSE "modified"
Line(f) == [file |-> f, staged |-> Kind(commits[head][f], index[f]), unstaged |-> Kind(index[f], disk[f])]
Changed == {f \in Files \ Ignored : ~(commits[head][f] = index[f] /\ index[f] = disk[f])}
Status == {Line(f) : f \in Changed}

\* gitstate.Capture reads HEAD, then the status.  A capture may fail.
Captured(h, st) == [head |-> h, status |-> st, available |-> TRUE, saved |-> TRUE]
CaptureFailed == [NoMeta EXCEPT !.saved = TRUE]

Init ==
  /\ disk \in Trees /\ index = Tracked(disk) /\ commits = <<index>> /\ head = 1
  /\ graph = [f \in Files |-> {}] /\ served = graph /\ meta = NoMeta
  /\ writer = Idle /\ pending = {} /\ report = NoReport
  /\ changes = 0
  /\ whole = FALSE /\ exact = FALSE /\ same = FALSE

\* Tree, index or HEAD changed: no capture and no parse that is under way saw one state.
Disturb ==
  /\ same' = FALSE
  /\ writer' = IF writer.pc \in {"head", "captured", "merged"} THEN [writer EXCEPT !.calm = FALSE]
               ELSE writer
  /\ report' = IF report.pc = "idle" THEN report ELSE [report EXCEPT !.calm = FALSE]

Edit(f) ==
  /\ changes < MaxChanges
  /\ \E v \in (Versions \cup {Gone}) \ {disk[f]} : disk' = [disk EXCEPT ![f] = v]
  /\ changes' = changes + 1 /\ pending' = pending \cup {f}
  /\ Disturb
  /\ UNCHANGED <<index, commits, head, graph, served, meta, whole, exact>>

\* git add, git restore --staged.
Stage(f) ==
  /\ f \notin Ignored
  /\ \E v \in {disk[f], commits[head][f]} \ {index[f]} : index' = [index EXCEPT ![f] = v]
  /\ Disturb
  /\ UNCHANGED <<disk, commits, head, graph, served, meta, pending, changes, whole, exact>>

Commit ==
  /\ index # commits[head] /\ Len(commits) < MaxCommits
  /\ commits' = Append(commits, index) /\ head' = Len(commits) + 1
  /\ Disturb
  /\ UNCHANGED <<disk, index, graph, served, meta, pending, changes, whole, exact>>

\* git checkout of another commit from a clean tree, or git stash -u; what is ignored stays.
Checkout ==
  \E c \in 1..Len(commits) :
    /\ IF c = head THEN Status # {} ELSE Status = {}
    /\ index' = commits[c] /\ head' = c
    /\ disk' = [f \in Files |-> IF f \in Ignored THEN disk[f] ELSE commits[c][f]]
    /\ pending' = pending \cup {f \in Files : disk[f] # disk'[f]}
    /\ Disturb
    /\ UNCHANGED <<commits, graph, served, meta, changes, whole, exact>>

-----------------------------------------------------------------------------
(* gokg analyze: the Git state is captured, the database opened, the       *)
(* sources parsed, the result merged, the metadata saved.  A merge adds    *)
(* declarations and takes none away.                                       *)

Starts(mode) ==
  /\ mode \in Modes /\ writer = Idle /\ changes < MaxChanges /\ changes' = changes + 1

\* rebuildBadgerDBPath removes the directory first, metadata included.
AnalyzeStarts ==
  \E mode \in {"rebuild", "plain"} :
    /\ Starts(mode)
    /\ writer' = [Idle EXCEPT !.pc = "head", !.mode = mode, !.head = head]
    /\ exact' = FALSE
    /\ IF mode = "rebuild"
       THEN graph' = [f \in Files |-> {}] /\ meta' = NoMeta /\ whole' = FALSE /\ same' = FALSE
       ELSE UNCHANGED <<graph, meta, whole, same>>
    /\ UNCHANGED <<disk, index, commits, head, served, pending, report>>

AnalyzeCaptures ==
  /\ writer.pc = "head" /\ writer.mode # "watch"
  /\ \E m \in {Captured(writer.head, Status), CaptureFailed} :
       writer' = [writer EXCEPT !.pc = "captured", !.meta = m]
  /\ UNCHANGED <<disk, index, commits, head, graph, served, meta, pending, report, changes, whole, exact, same>>

\* ParseWorkspace and BuildFromParseResult: what is on disk when it is read.  A merge that
\* fails has written a part.
Merged(some) == [f \in Files |-> graph[f] \cup (IF f \in some THEN {disk[f]} \ {Gone} ELSE {})]

AnalyzeMerges ==
  /\ writer.pc = "captured"
  /\ graph' = Merged(Files) /\ whole' = TRUE
  /\ writer' = [writer EXCEPT !.pc = "merged"]
  /\ exact' = (writer.mode = "rebuild" /\ writer.calm)
  /\ UNCHANGED <<disk, index, commits, head, served, meta, pending, report, changes, same>>

AnalyzeFails ==
  /\ writer.pc \in {"head", "captured", "merged"} /\ writer.mode # "watch"
  /\ \E some \in SUBSET Files :
       /\ writer.pc # "captured" => some = {}
       /\ graph' = Merged(some)
  /\ writer' = Idle /\ exact' = (exact /\ writer.pc = "merged")
  /\ UNCHANGED <<disk, index, commits, head, served, meta, pending, report, changes, whole, same>>

\* SaveAnalysisMetadata overwrites the old ones.
Save(m) == meta' = m /\ writer' = Idle

AnalyzeSaves ==
  /\ writer.pc = "merged"
  /\ Save(writer.meta) /\ same' = (writer.calm /\ writer.meta.available)
  /\ UNCHANGED <<disk, index, commits, head, graph, served, pending, report, changes, whole, exact>>

-----------------------------------------------------------------------------
(* The update of a watcher: the package of a file is removed and built     *)
(* again from what is on disk, then the Git state is captured and saved.   *)

\* The sources are parsed before the database is opened; an edit after that is pending
\* again.  RemovePackage comes first.
WatchStarts ==
  \E f \in pending :
    /\ Server /\ Starts("watch")
    /\ pending' = pending \ {f}
    /\ graph' = [graph EXCEPT ![f] = {}] /\ served' = [served EXCEPT ![f] = {}]
    /\ writer' = [Idle EXCEPT !.pc = "removed", !.mode = "watch", !.file = f, !.source = {disk[f]} \ {Gone}]
    /\ exact' = FALSE
    /\ UNCHANGED <<disk, index, commits, head, meta, report, whole, same>>

WatchBuilds ==
  /\ writer.pc = "removed"
  /\ graph' = [graph EXCEPT ![writer.file] = @ \cup writer.source]
  /\ served' = [served EXCEPT ![writer.file] = @ \cup writer.source]
  /\ writer' = [writer EXCEPT !.pc = "built"]
  /\ UNCHANGED <<disk, index, commits, head, meta, pending, report, changes, whole, exact, same>>

WatchReadsHead ==
  /\ writer.pc = "built"
  /\ writer' = [writer EXCEPT !.pc = "head", !.head = head]
  /\ UNCHANGED <<disk, index, commits, head, graph, served, meta, pending, report, changes, whole, exact, same>>

WatchSaves ==
  /\ writer.pc = "head" /\ writer.mode = "watch"
  /\ \E m \in {Captured(writer.head, Status), CaptureFailed} :
       Save(m) /\ same' = (writer.calm /\ m.available)
  /\ UNCHANGED <<disk, index, commits, head, graph, served, pending, report, changes, whole, exact>>

WatchFails ==
  /\ writer.pc \in {"removed", "built", "head"} /\ writer.mode = "watch"
  /\ writer' = Idle
  /\ UNCHANGED <<disk, index, commits, head, graph, served, meta, pending, report, changes, whole, exact, same>>

-----------------------------------------------------------------------------
(* The report.                                                             *)

\* gokg mcp loads the graph once; from then on its watcher alone keeps it.
ServerStarts ==
  /\ Server /\ writer = Idle /\ report.pc = "idle"
  /\ served' = graph /\ pending' = {}
  /\ UNCHANGED <<disk, index, commits, head, graph, meta, writer, report, changes, whole, exact, same>>

\* The metadata are read from the database each time (AnalysisMetadataLoader), which
\* fails while somebody writes it; gokg impact loads the graph along with them.
MayBeLocked == writer.pc \in {"captured", "merged"} \/ writer.mode = "watch"
MayBeOpened == writer.pc # "merged" /\ writer.mode # "watch"

ReportStarts ==
  /\ report.pc = "idle"
  /\ \/ /\ MayBeLocked /\ report' = [NoReport EXCEPT !.verdict = "unknown"]
        /\ UNCHANGED served
     \/ /\ MayBeOpened /\ report' = [NoReport EXCEPT !.pc = "loaded", !.meta = meta]
        /\ served' = IF Server THEN served ELSE graph
  /\ UNCHANGED <<disk, index, commits, head, graph, meta, writer, pending, changes, whole, exact, same>>

ReportReadsHead ==
  /\ report.pc = "loaded"
  /\ report' = [report EXCEPT !.pc = "head", !.head = head]
  /\ UNCHANGED <<disk, index, commits, head, graph, served, meta, writer, pending, changes, whole, exact, same>>

\* The comparisons of evaluateFreshness.  Faulty variant: HEAD is not compared.
StaleByStatus(m, h, st) == m.available /\ m.status # st
Stale(m, h, st) ==
  \/ m.head # 0 /\ m.head # h
  \/ m.available /\ (m.status # {}) # (st # {})
  \/ m.available /\ m.status # st

\* finishFreshness: stale before unknown before fresh.
Verdict(m, h, st) ==
  IF ~m.saved THEN "unknown"
  ELSE IF Stale(m, h, st) THEN "stale"
  ELSE IF ~m.available THEN "unknown" ELSE "fresh"

ReportEnds ==
  /\ report.pc = "head"
  /\ report' = [NoReport EXCEPT !.verdict = Verdict(report.meta, report.head, Status)]
  /\ UNCHANGED <<disk, index, commits, head, graph, served, meta, writer, pending, changes, whole, exact, same>>

ReportCaptureFails ==
  /\ report.pc \in {"loaded", "head"}
  /\ report' = [NoReport EXCEPT !.verdict = "unknown"]
  /\ UNCHANGED <<disk, index, commits, head, graph, served, meta, writer, pending, changes, whole, exact, same>>

Next ==
  \/ \E f \in Files : Edit(f) \/ Stage(f)
  \/ Commit \/ Checkout
  \/ AnalyzeStarts \/ AnalyzeCaptures \/ AnalyzeMerges \/ AnalyzeFails \/ AnalyzeSaves
  \/ WatchStarts \/ WatchBuilds \/ WatchReadsHead \/ WatchSaves \/ WatchFails
  \/ ServerStarts
  \/ ReportStarts \/ ReportReadsHead \/ ReportEnds \/ ReportCaptureFails

Spec == Init /\ [][Next]_vars

-----------------------------------------------------------------------------
Declarations(f) == {disk[f]} \ {Gone}

Kinds == {"same", "added", "deleted", "modified"}
Lines == [file : Files, staged : Kinds, unstaged : Kinds]

TypeOK ==
  /\ disk \in Trees /\ index \in Trees /\ commits \in Seq(Trees) /\ head \in 1..Len(commits)
  /\ graph \in [Files -> SUBSET Versions] /\ served \in [Files -> SUBSET Versions]
  /\ meta.head \in 0..Len(commits) /\ meta.status \subseteq Lines
  /\ meta.available => meta.saved /\ meta.head > 0
  /\ writer.pc \in {"idle", "head", "captured", "merged", "removed", "built"}
  /\ writer.mode = "none" <=> writer.pc = "idle"
  /\ pending \subseteq Files
  /\ report.pc \in {"idle", "loaded", "head"}
  /\ report.verdict \in {"none", "fresh", "stale", "unknown"}
  /\ changes \in 0..MaxChanges
  /\ whole \in BOOLEAN /\ exact \in BOOLEAN /\ same \in BOOLEAN

\* A report ends with a verdict, and nothing changed while it was made.
Ends(verdict) == ReportEnds /\ report'.verdict = verdict /\ report.calm

\* The case the report is reliable in: a graph rebuilt from a clean tree that nobody
\* edited meanwhile, loaded since.  Fresh then means that memory, database and tree
\* agree on every file Git does not ignore, whatever was edited, staged, committed and
\* checked out in between.  (Ignored files are analysed, and no report looks at them.)
CleanFreshMatches ==
  Ends("fresh") /\ exact /\ served = graph /\ report.meta = meta /\ meta.status = {} =>
    \A f \in Files \ Ignored : served[f] = Declarations(f)

\* No false alarm: while tree, index and HEAD are what the writer of the metadata saw,
\* dirty or not, the report does not call the graph stale.  (git add alone makes it stale.)
NoFalseAlarm == same /\ report.meta = meta => ~Ends("stale")

\* An analysis that failed leaves no metadata that could make the remains of a rebuild
\* look fresh: metadata are those of a graph that has seen a whole merge.
MetadataOfWhole == meta.saved => whole

=============================================================================
