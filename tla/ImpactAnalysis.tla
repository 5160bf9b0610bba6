--------------------------- MODULE ImpactAnalysis ---------------------------
(***************************************************************************)
(* AnalyzeWithRunner (internal/impact/impact.go): one change impact        *)
(* analysis of several repositories.  A bounded pool of workers asks Git   *)
(* of every repository, each with one goroutine for the freshness of the   *)
(* graph and one for the diff; the caller joins them, sorts and truncates  *)
(* the changed files and asks the graph twice, each time under a read lock *)
(* of its own.  A watcher replaces packages in that graph meanwhile.       *)
(*                                                                         *)
(* Repositories and paths are numbers because the code sorts by them.      *)
(***************************************************************************)
EXTENDS Integers, Sequences, FiniteSets, SequencesExt

CONSTANTS
  Repos,        \* the repositories of the call, after normalizeRepos
  Requests,     \* baseRef, maxDepth, maxNodes, maxFiles, untracked
  Trees,        \* what Git may report: for each repository its changed files
  Nodes,        \* graph nodes: id, repo (0: none), path, first and last line
  Deps,         \* dependency edges <<from, to>> between ids
  MaxDepthLimit, MaxNodesLimit, MaxFilesLimit,
  WorkerLimit,  \* maxImpactRepoWorkers
  MaxUpdates    \* bound: updates of the watcher

ImpactAssumption ==
  /\ Repos \subseteq Nat \ {0} /\ IsFiniteSet(Repos)
  /\ \A n \in Nodes : n.repo \in Nat /\ n.first \in Nat /\ n.last \in Nat
  /\ \A m, n \in Nodes : m.id = n.id => m = n
  /\ \A t \in Trees : \A r \in Repos : \A f \in t[r] : f.repo = r
  /\ WorkerLimit \in Nat \ {0} /\ MaxUpdates \in Nat

VARIABLES
  request, tree, tests,   \* the arguments, what Git sees, repositories analyzed with tests
  pc,        \* where the caller is
  worker,    \* per repository: "waiting", "running", "ended"
  freshness, \* per repository: what evaluateFreshness said, or "none"
  diff,      \* per repository: the step of changedFilesForRepo, "ok" or "failed"
  files,     \* per repository: the changed files found
  report,    \* the Report of the call
  ids,       \* changedNodeIDs
  cancelled, \* the context of the call
  live, gap, updates,     \* the graph, the package the watcher has removed, its updates
  moved      \* history: the graph has changed since the caller looked nodes up

vars == <<request, tree, tests, pc, worker, freshness, diff, files, report, ids, cancelled,
          live, gap, updates, moved>>
inputs == <<request, tree, tests>>
graph == <<live, gap, updates, moved>>

NoReport == [scanned |-> {}, errors |-> {}, status |-> [r \in Repos |-> "none"],
             files |-> <<>>, nodes |-> {}, impacted |-> {}, warnings |-> {}]

-----------------------------------------------------------------------------
\* NormalizeOptions: zero stands for the default, which is within the limits.
Normalized(q) ==
  [q EXCEPT !.baseRef = IF @ = "" THEN "HEAD" ELSE @,
            !.maxDepth = IF @ = 0 THEN 1 ELSE @,
            !.maxNodes = IF @ = 0 THEN MaxNodesLimit ELSE @,
            !.maxFiles = IF @ = 0 THEN MaxFilesLimit ELSE @]

\* validateBaseRef: an option, a negated revision, a range, other characters.
ValidBaseRef(ref) == ref \notin {"", "-o", "^HEAD", "a..b", "a b"}
ValidOptions(q) ==
  /\ ValidBaseRef(q.baseRef)
  /\ q.maxDepth \in 1..MaxDepthLimit /\ q.maxNodes \in 1..MaxNodesLimit /\ q.maxFiles \in 1..MaxFilesLimit

\* impactRepoWorkerLimit
Workers == IF Cardinality(Repos) < 1 THEN 1
           ELSE IF Cardinality(Repos) < WorkerLimit THEN Cardinality(Repos) ELSE WorkerLimit

\* sortChangedFiles
Before(f, g) == f.repo < g.repo \/ (f.repo = g.repo /\ f.path < g.path)
Sorted(fs) == SetToSortSeq(fs, Before)

-----------------------------------------------------------------------------
Init ==
  /\ request \in Requests /\ tree \in Trees /\ tests \in {{}, Repos}
  /\ pc = "validate" /\ cancelled = FALSE
  /\ worker = [r \in Repos |-> "waiting"] /\ freshness = [r \in Repos |-> "none"]
  /\ diff = [r \in Repos |-> "resolve"] /\ files = [r \in Repos |-> {}]
  /\ report = NoReport /\ ids = {}
  /\ live \in {Nodes, {}} /\ gap = {} /\ updates = 0 /\ moved = FALSE

Validate ==
  /\ pc = "validate"
  /\ request' = Normalized(request)
  /\ pc' = IF ValidOptions(Normalized(request)) /\ Repos # {} THEN "scan" ELSE "rejected"
  /\ UNCHANGED <<tree, tests, worker, freshness, diff, files, report, ids, cancelled, graph>>

\* eg.Go: repositories start in order, as long as a slot of the group is free.
Running == {r \in Repos : worker[r] = "running"}
Started == {r \in Repos : worker[r] # "waiting"}
StartRepoSlotKept(r) ==
  /\ pc = "scan" /\ worker[r] = "waiting" /\ Cardinality(Started) < Workers
  /\ \A s \in Repos : s < r => worker[s] # "waiting"
  /\ worker' = [worker EXCEPT ![r] = "running"]
  /\ UNCHANGED <<inputs, pc, freshness, diff, files, report, ids, cancelled, graph>>
StartRepo(r) ==
  /\ pc = "scan" /\ worker[r] = "waiting" /\ Cardinality(Running) < Workers
  /\ \A s \in Repos : s < r => worker[s] # "waiting"
  /\ worker' = [worker EXCEPT ![r] = "running"]
  /\ UNCHANGED <<inputs, pc, freshness, diff, files, report, ids, cancelled, graph>>

\* The goroutine of evaluateFreshness; without a context Git cannot be asked.
Evaluate(r, verdict) ==
  /\ worker[r] = "running" /\ freshness[r] = "none"
  /\ cancelled => verdict # "fresh"
  /\ freshness' = [freshness EXCEPT ![r] = verdict]
  /\ UNCHANGED <<inputs, pc, worker, diff, files, report, ids, cancelled, graph>>

\* The goroutine of changedFilesForRepo: the base commit, the diff, the untracked files.
GitAnswers(r, step, next) ==
  /\ worker[r] = "running" /\ diff[r] = step /\ ~cancelled
  /\ diff' = [diff EXCEPT ![r] = next]
  /\ UNCHANGED <<inputs, pc, worker, freshness, report, ids, cancelled, graph>>
ResolveBase(r) == GitAnswers(r, "resolve", "diff") /\ UNCHANGED files
Diff(r) ==
  /\ GitAnswers(r, "diff", IF request.untracked THEN "untracked" ELSE "ok")
  /\ files' = [files EXCEPT ![r] = {f \in tree[r] : ~f.untracked}]
ListUntracked(r) ==
  /\ GitAnswers(r, "untracked", "ok")
  /\ files' = [files EXCEPT ![r] = @ \cup {f \in tree[r] : f.untracked}]
GitFails(r) ==
  /\ worker[r] = "running" /\ diff[r] \notin {"ok", "failed"}
  /\ diff' = [diff EXCEPT ![r] = "failed"] /\ files' = [files EXCEPT ![r] = {}]
  /\ UNCHANGED <<inputs, pc, worker, freshness, report, ids, cancelled, graph>>

\* applyChangedFileFreshness.
WithTests(status, r, fs) == IF r \notin tests /\ \E f \in fs : f.test THEN "stale" ELSE status

\* repoEg.Wait and what follows it.  A failed diff is a warning.  Faulty variant: the
\* worker does not wait for the diff.
EndRepoEarly(r) ==
  /\ worker[r] = "running" /\ freshness[r] # "none"
  /\ worker' = [worker EXCEPT ![r] = "ended"]
  /\ report' = IF diff[r] = "failed"
               THEN [report EXCEPT !.status[r] = freshness[r], !.errors = @ \cup {r},
                                   !.warnings = @ \cup {<<"repo", r>>}]
               ELSE [report EXCEPT !.status[r] = WithTests(freshness[r], r, files[r]), !.scanned = @ \cup {r}]
  /\ UNCHANGED <<inputs, pc, freshness, diff, files, ids, cancelled, graph>>
EndRepo(r) ==
  /\ worker[r] = "running" /\ freshness[r] # "none" /\ diff[r] \in {"ok", "failed"}
  /\ worker' = [worker EXCEPT ![r] = "ended"]
  /\ report' = IF diff[r] = "failed"
               THEN [report EXCEPT !.status[r] = freshness[r], !.errors = @ \cup {r},
                                   !.warnings = @ \cup {<<"repo", r>>}]
               ELSE [report EXCEPT !.status[r] = WithTests(freshness[r], r, files[r]), !.scanned = @ \cup {r}]
  /\ UNCHANGED <<inputs, pc, freshness, diff, files, ids, cancelled, graph>>

\* eg.Wait, then all files in order, of which maxFiles are kept (truncateChangedFiles).
AllFiles == UNION {files[r] : r \in report.scanned}
Cut(fs, k) == IF Len(fs) <= k THEN fs ELSE SubSeq(fs, 1, k)
Listed(fs, k) == Cut(Sorted(fs), k)
Collect ==
  /\ pc = "scan" /\ \A r \in Repos : worker[r] = "ended"
  /\ IF report.scanned = {}
     THEN pc' = "all failed" /\ UNCHANGED report
     ELSE /\ pc' = "lookup"
          /\ report' = [report EXCEPT
               !.files = Listed(AllFiles, request.maxFiles),
               !.warnings = IF Cardinality(AllFiles) > request.maxFiles THEN @ \cup {<<"files truncated", 0>>} ELSE @]
  /\ UNCHANGED <<inputs, worker, freshness, diff, files, ids, cancelled, graph>>

\* NodesForFileRanges: the nodes of a file that one of its ranges touches.
RepoMatches(f, n) == n.repo = 0 \/ n.repo = f.repo
Overlaps(rg, n) == rg.start > 0 /\ n.first > 0 /\ n.first <= rg.end /\ n.last >= rg.start
Touches(f, n) == n.path = f.path /\ RepoMatches(f, n) /\ (f.whole \/ \E rg \in f.ranges : Overlaps(rg, n))
Found == {n \in live : \E f \in ToSet(report.files) : Touches(f, n)}

\* The first question to the graph; files it knows no nodes of are warned about
\* (addUnmatchedFileWarnings).
Unmatched(f, found) == ~\E n \in found : Touches(f, n)
Lookup ==
  /\ pc = "lookup" /\ ~cancelled
  /\ pc' = "blast" /\ moved' = FALSE
  /\ ids' = {n.id : n \in Found}
  /\ report' = [report EXCEPT !.nodes = Found,
       !.warnings = @ \cup {<<"no nodes", f>> : f \in {g \in ToSet(report.files) : Unmatched(g, Found)}}]
  /\ UNCHANGED <<inputs, worker, freshness, diff, files, cancelled, live, gap, updates>>

\* The second one: GetBlastRadiusDepth, by id.  What it cuts off is any of the farthest
\* nodes; an id the graph does not know is an error.
LiveIDs == {n.id : n \in live}
Within[k \in Nat] ==
  IF k = 0 THEN ids
  ELSE LET W == Within[k - 1] IN W \cup {i \in LiveIDs : \E j \in W : <<i, j>> \in Deps}
Dependents == Within[request.maxDepth] \ ids
GetDependents ==
  /\ pc = "blast" /\ ~cancelled /\ ids \subseteq LiveIDs
  /\ pc' = "done"
  /\ IF Cardinality(Dependents) <= request.maxNodes
     THEN report' = [report EXCEPT !.impacted = Dependents]
     ELSE \E kept \in SUBSET Dependents :
            /\ Cardinality(kept) = request.maxNodes
            /\ report' = [report EXCEPT !.impacted = kept, !.warnings = @ \cup {<<"nodes truncated", 0>>}]
  /\ UNCHANGED <<inputs, worker, freshness, diff, files, ids, cancelled, graph>>
BlastFails ==
  /\ pc = "blast" /\ ~cancelled /\ ~(ids \subseteq LiveIDs)
  /\ pc' = "node not found"
  /\ UNCHANGED <<inputs, worker, freshness, diff, files, report, ids, cancelled, graph>>

\* ctx.Err before each question.
Aborted ==
  /\ pc \in {"lookup", "blast"} /\ cancelled
  /\ pc' = "cancelled"
  /\ UNCHANGED <<inputs, worker, freshness, diff, files, report, ids, cancelled, graph>>

-----------------------------------------------------------------------------
(* The client and the watcher.                                             *)

Cancel ==
  /\ ~cancelled /\ cancelled' = TRUE
  /\ UNCHANGED <<inputs, pc, worker, freshness, diff, files, report, ids, graph>>

\* A package is removed, and later built again with what is in the files then.  Before
\* the first question nobody sees the graph: Init stands for what happened until then.
NodesOf(path) == {n \in Nodes : n.path = path}
WatcherRemoves(path) ==
  /\ pc \in {"lookup", "blast"} /\ gap = {} /\ updates < MaxUpdates
  /\ gap' = {path} /\ updates' = updates + 1 /\ live' = live \ NodesOf(path)
  /\ moved' = (moved \/ live' # live)
  /\ UNCHANGED <<inputs, pc, worker, freshness, diff, files, report, ids, cancelled>>
WatcherBuilds ==
  \E path \in gap : \E some \in SUBSET NodesOf(path) :
    /\ gap' = {} /\ live' = live \cup some /\ moved' = (moved \/ live' # live)
    /\ UNCHANGED <<inputs, pc, worker, freshness, diff, files, report, ids, cancelled, updates>>

RepoStep(r) ==
  \/ StartRepo(r) \/ ResolveBase(r) \/ Diff(r) \/ ListUntracked(r) \/ GitFails(r) \/ EndRepo(r)
  \/ \E v \in {"fresh", "stale", "unknown"} : Evaluate(r, v)
CallerStep == Validate \/ Collect \/ Lookup \/ GetDependents \/ BlastFails \/ Aborted
Next ==
  \/ CallerStep
  \/ \E r \in Repos : RepoStep(r)
  \/ Cancel
  \/ \E n \in Nodes : WatcherRemoves(n.path)
  \/ WatcherBuilds

\* Git commands return (they end with the context at the latest) and some goroutine that
\* can run does.
GoStep == CallerStep \/ \E r \in Repos : RepoStep(r)
Spec == Init /\ [][Next]_vars /\ WF_vars(GoStep)

-----------------------------------------------------------------------------
\* GraphFreshnessStatus.
Statuses == {report.status[r] : r \in Repos}
Overall == IF "stale" \in Statuses THEN "stale"
           ELSE IF Statuses \cap {"unknown", "none"} # {} THEN "unknown" ELSE "fresh"
Ended == {"rejected", "all failed", "node not found", "cancelled", "done"}

TypeOK ==
  /\ pc \in Ended \cup {"validate", "scan", "lookup", "blast"}
  /\ worker \in [Repos -> {"waiting", "running", "ended"}]
  /\ diff \in [Repos -> {"resolve", "diff", "untracked", "ok", "failed"}]
  /\ freshness \in [Repos -> {"none", "fresh", "stale", "unknown"}]
  /\ report.scanned \cap report.errors = {} /\ report.nodes \subseteq Nodes
  /\ live \subseteq Nodes /\ pc # "validate" => (pc = "rejected" \/ ValidOptions(request))

\* A call that was not cancelled fails for its options, because Git failed for every
\* repository, or because the graph changed between its two questions; a repository that
\* fails is reported as such and does not take the others with it.
FailsForCause ==
  /\ pc = "node not found" => moved
  /\ pc = "all failed" => \A r \in Repos : diff[r] = "failed"
  /\ pc = "cancelled" => cancelled
  /\ pc = "done" => \A r \in Repos :
       IF diff[r] = "failed" THEN r \in report.errors /\ <<"repo", r>> \in report.warnings
       ELSE r \in report.scanned

\* A report that calls the graph fresh has seen the whole diff of every repository it
\* scanned: none of them, not even one the list leaves out, is a test file the graph was
\* built without.
FreshSeesEveryTest ==
  pc = "done" /\ Overall = "fresh" =>
    \A r \in report.scanned \ tests : \A f \in tree[r] : f.test /\ (f.untracked => request.untracked) => FALSE

\* What is listed does not depend on which worker was first: it is the head of all changed
\* files in order, and if it is not all of them the report says so.
SameListInAnyOrder ==
  pc = "done" =>
    LET changed == {f \in UNION {tree[r] : r \in report.scanned} : f.untracked => request.untracked}
        listed == ToSet(report.files)
    IN  /\ listed \subseteq changed /\ Len(report.files) <= request.maxFiles
        /\ \A f \in listed, g \in changed \ listed : Before(f, g)
        /\ listed # changed => <<"files truncated", 0>> \in report.warnings

\* Every listed file has a node it touches or a warning, never both, and every node belongs
\* to a listed file.
ListedOrWarned ==
  pc = "done" =>
    /\ \A f \in ToSet(report.files) :
         (\E n \in report.nodes : Touches(f, n)) # (<<"no nodes", f>> \in report.warnings)
    /\ \A n \in report.nodes : \E f \in ToSet(report.files) : Touches(f, n)

\* If the graph stood still between the questions, a report without a truncation warning
\* names everything that reaches a changed node in maxDepth steps, and nothing it changed.
ImpactIsComplete ==
  pc = "done" =>
    /\ report.impacted \cap {n.id : n \in report.nodes} = {}
    /\ ~moved /\ <<"nodes truncated", 0>> \notin report.warnings =>
         \A n \in live \ report.nodes :
           n.id \in report.impacted
             <=> \E m \in report.nodes : \/ <<n.id, m.id>> \in Deps
                                         \/ request.maxDepth > 1 /\ \E k \in live : <<n.id, k.id>> \in Deps /\ <<k.id, m.id>> \in Deps

\* The call has ended.
Over == pc \in Ended
=============================================================================
