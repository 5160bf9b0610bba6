------------------------ MODULE ImpactAnalysisProofs -------------------------
(***************************************************************************)
(* Proofs about ImpactAnalysis, for any repositories, workers, changes and *)
(* graphs, and whatever the watcher, Git and the client do meanwhile.      *)
(***************************************************************************)
EXTENDS ImpactAnalysis, TLAPS

Stages == Ended \cup {"validate", "scan", "lookup", "blast"}
Verdicts == {"fresh", "stale", "unknown"}

\* The types that the steps below rely on.
Shapes ==
  /\ pc \in Stages
  /\ worker \in [Repos -> {"waiting", "running", "ended"}]
  /\ diff \in [Repos -> {"resolve", "diff", "untracked", "ok", "failed"}]
  /\ freshness \in [Repos -> {"none"} \cup Verdicts]
  /\ DOMAIN files = Repos /\ files = [r \in Repos |-> files[r]]
  /\ live \subseteq Nodes
  /\ report = [scanned |-> report.scanned, errors |-> report.errors,
               status |-> report.status, files |-> report.files, nodes |-> report.nodes,
               impacted |-> report.impacted, warnings |-> report.warnings]
  /\ report.status \in [Repos -> {"none"} \cup Verdicts]
  /\ report.nodes \subseteq Nodes

\* What a worker found is what Git had for it; the request is the one it was told.
Tracked(r) == {f \in tree[r] : ~f.untracked}
Wanted(r) == {f \in tree[r] : f.untracked => request.untracked}
FilesOfDiff ==
  \A r \in Repos :
    /\ diff[r] = "untracked" => request.untracked /\ files[r] = Tracked(r)
    /\ diff[r] = "ok" => files[r] = Wanted(r)
    /\ worker[r] = "waiting" => diff[r] = "resolve"
    /\ worker[r] = "ended" => diff[r] \in {"ok", "failed"} /\ freshness[r] # "none"

\* The report says of a repository whose worker has ended what became of it, and nothing
\* of the others.
Joined ==
  /\ report.scanned = {r \in Repos : worker[r] = "ended" /\ diff[r] = "ok"}
  /\ report.errors = {r \in Repos : worker[r] = "ended" /\ diff[r] = "failed"}
  /\ \A r \in report.errors : <<"repo", r>> \in report.warnings
  /\ \A r \in report.scanned : report.status[r] = WithTests(freshness[r], r, files[r])

\* How far the caller is.
Progress ==
  /\ pc = "validate" => \A r \in Repos : worker[r] = "waiting"
  /\ pc \in {"validate", "rejected"} \/ ValidOptions(request)
  /\ pc \notin {"validate", "rejected", "scan"} => \A r \in Repos : worker[r] = "ended"
  /\ pc = "all failed" => report.scanned = {}
  /\ pc = "cancelled" => cancelled
  /\ pc = "node not found" => moved

\* Between the questions: the nodes are those of the listed files, each file without any
\* has its warning, and what was found is there as long as the graph stands still.
Answered ==
  /\ pc \in {"validate", "scan", "lookup"} => \A w \in report.warnings : w[1] # "no nodes"
  /\ pc \in {"blast", "done"} =>
       /\ \A f \in ToSet(report.files) :
            <<"no nodes", f>> \in report.warnings <=> Unmatched(f, report.nodes)
       /\ \A n \in report.nodes : \E f \in ToSet(report.files) : Touches(f, n)
  /\ pc = "blast" => ids = {n.id : n \in report.nodes} /\ (moved \/ report.nodes \subseteq live)

CInv == Shapes /\ FilesOfDiff /\ Joined /\ Progress /\ Answered

-----------------------------------------------------------------------------
LEMMA InitOK == Init => CInv
<1> SUFFICES ASSUME Init PROVE CInv
  OBVIOUS
<1>1. /\ report = NoReport /\ pc = "validate"
      /\ \A r \in Repos : worker[r] = "waiting" /\ diff[r] = "resolve"
  BY DEF Init
<1>2. Shapes
  <2>1. live \subseteq Nodes
    BY DEF Init
  <2> QED BY <2>1 DEF Init, Shapes, NoReport, Stages, Verdicts
<1>3. FilesOfDiff
  BY <1>1 DEF FilesOfDiff
<1>4. Joined
  BY <1>1 DEF Joined, NoReport
<1>5. Progress
  BY <1>1 DEF Progress
<1>6. Answered
  BY <1>1 DEF Answered, NoReport
<1> QED BY <1>2, <1>3, <1>4, <1>5, <1>6 DEF CInv

-----------------------------------------------------------------------------
(* The workers.                                                            *)

LEMMA StartRepoOK ==
  ASSUME CInv, NEW r \in Repos, StartRepo(r)
  PROVE  CInv'
<1> USE DEF CInv, StartRepo, inputs, graph
<1>1. worker' = [worker EXCEPT ![r] = "running"] /\ worker[r] = "waiting" /\ pc = "scan"
  OBVIOUS
<1>2. Shapes'
  BY <1>1 DEF Shapes
<1>3. FilesOfDiff'
  BY <1>1 DEF FilesOfDiff, Shapes, Tracked, Wanted
<1>4. \A s \in Repos : worker'[s] = "ended" <=> worker[s] = "ended"
  BY <1>1 DEF Shapes
<1>5. Joined'
  BY <1>4 DEF Joined, WithTests
<1>6. Progress'
  BY <1>1 DEF Progress, ValidOptions
<1>7. Answered'
  BY DEF Answered, Unmatched, Touches
<1> QED BY <1>2, <1>3, <1>5, <1>6, <1>7

\* A worker that has not ended may learn anything without touching the report.
LEMMA WorkerOK ==
  ASSUME CInv, NEW r \in Repos, worker[r] = "running",
         UNCHANGED <<inputs, pc, worker, report, ids, cancelled, graph>>,
         Shapes',
         \A s \in Repos \ {r} : /\ freshness'[s] = freshness[s] /\ diff'[s] = diff[s]
                                /\ files'[s] = files[s],
         diff'[r] = "untracked" => request.untracked /\ files'[r] = Tracked(r),
         diff'[r] = "ok" => files'[r] = Wanted(r)
  PROVE  CInv'
<1> USE DEF CInv, inputs, graph
<1>1. FilesOfDiff'
  BY DEF FilesOfDiff, Tracked, Wanted
<1>2. Joined'
  <2>1. r \notin report.scanned /\ r \notin report.errors
    BY DEF Joined
  <2>2. report'.scanned = {s \in Repos : worker'[s] = "ended" /\ diff'[s] = "ok"}
    BY DEF Joined
  <2>3. report'.errors = {s \in Repos : worker'[s] = "ended" /\ diff'[s] = "failed"}
    BY DEF Joined
  <2>4. \A s \in report'.scanned : report'.status[s] = WithTests(freshness'[s], s, files'[s])
    BY <2>1 DEF Joined, WithTests
  <2> QED BY <2>2, <2>3, <2>4 DEF Joined, WithTests
<1>3. Progress'
  BY DEF Progress, ValidOptions
<1>4. Answered'
  BY DEF Answered, Unmatched, Touches
<1> QED BY <1>1, <1>2, <1>3, <1>4

LEMMA EvaluateOK ==
  ASSUME CInv, NEW r \in Repos, NEW v \in Verdicts, Evaluate(r, v)
  PROVE  CInv'
<1>1. freshness' = [freshness EXCEPT ![r] = v] /\ worker[r] = "running"
      /\ UNCHANGED <<inputs, pc, worker, diff, files, report, ids, cancelled, graph>>
  BY DEF Evaluate
<1>2. Shapes'
  BY <1>1 DEF CInv, Shapes, inputs, graph
<1>3. \A s \in Repos \ {r} : freshness'[s] = freshness[s]
  BY <1>1 DEF CInv, Shapes
<1> QED BY <1>1, <1>2, <1>3, WorkerOK DEF CInv, FilesOfDiff

LEMMA GitOK ==
  ASSUME CInv, NEW r \in Repos,
         ResolveBase(r) \/ Diff(r) \/ ListUntracked(r) \/ GitFails(r)
  PROVE  CInv'
<1>1. /\ worker[r] = "running"
      /\ UNCHANGED <<inputs, pc, worker, freshness, report, ids, cancelled, graph>>
  BY DEF ResolveBase, Diff, ListUntracked, GitFails, GitAnswers
<1>2. ASSUME NEW step \in {"diff", "untracked", "ok", "failed"},
             diff' = [diff EXCEPT ![r] = step],
             files' = files \/ \E F : files' = [files EXCEPT ![r] = F],
             step = "untracked" => request.untracked /\ files'[r] = Tracked(r),
             step = "ok" => files'[r] = Wanted(r)
      PROVE  CInv'
  <2>1. Shapes'
    BY <1>1, <1>2 DEF CInv, Shapes, inputs, graph
  <2>2. \A s \in Repos \ {r} : diff'[s] = diff[s] /\ files'[s] = files[s]
    BY <1>2 DEF CInv, Shapes
  <2>3. diff'[r] = step
    BY <1>2 DEF CInv, Shapes
  <2> QED BY <1>1, <1>2, <2>1, <2>2, <2>3, WorkerOK
<1>3. CASE ResolveBase(r)
  BY <1>2, <1>3 DEF ResolveBase, GitAnswers
<1>4. CASE Diff(r)
  <2>1. files' = [files EXCEPT ![r] = Tracked(r)] /\ files'[r] = Tracked(r)
    BY <1>4 DEF Diff, Tracked, CInv, Shapes
  <2>2. ~request.untracked => Tracked(r) = Wanted(r)
    BY DEF Tracked, Wanted
  <2> QED BY <1>2, <1>4, <2>1, <2>2 DEF Diff, GitAnswers
<1>5. CASE ListUntracked(r)
  <2>1. files' = [files EXCEPT ![r] = files[r] \cup {f \in tree[r] : f.untracked}]
    BY <1>5 DEF ListUntracked
  <2>2. files[r] = Tracked(r) /\ request.untracked
    BY <1>5 DEF ListUntracked, GitAnswers, CInv, FilesOfDiff
  <2>3. files'[r] = Wanted(r)
    BY <2>1, <2>2 DEF CInv, Shapes, Tracked, Wanted
  <2> QED BY <1>2, <1>5, <2>1, <2>3 DEF ListUntracked, GitAnswers
<1>6. CASE GitFails(r)
  BY <1>2, <1>6 DEF GitFails
<1> QED BY <1>3, <1>4, <1>5, <1>6

\* The worker joins its two goroutines and writes what became of its repository.
LEMMA EndRepoOK ==
  ASSUME CInv, NEW r \in Repos, EndRepo(r)
  PROVE  CInv'
<1> USE DEF CInv, inputs, graph
<1>1. /\ worker[r] = "running" /\ worker' = [worker EXCEPT ![r] = "ended"]
      /\ freshness[r] # "none" /\ diff[r] \in {"ok", "failed"}
      /\ UNCHANGED <<inputs, pc, freshness, diff, files, ids, cancelled, graph>>
      /\ pc \in {"validate", "rejected", "scan"} /\ pc # "validate"
  BY DEF EndRepo, Progress
<1>2. worker'[r] = "ended" /\ \A s \in Repos \ {r} : worker'[s] = worker[s]
  BY <1>1 DEF Shapes
<1>3. /\ report'.scanned = IF diff[r] = "ok" THEN report.scanned \cup {r} ELSE report.scanned
      /\ report'.errors = IF diff[r] = "ok" THEN report.errors ELSE report.errors \cup {r}
      /\ report'.warnings = IF diff[r] = "ok" THEN report.warnings
                            ELSE report.warnings \cup {<<"repo", r>>}
      /\ report'.status = [report.status EXCEPT ![r] =
                             IF diff[r] = "ok" THEN WithTests(freshness[r], r, files[r])
                             ELSE freshness[r]]
      /\ report'.nodes = report.nodes
      /\ report' = [scanned |-> report'.scanned, errors |-> report'.errors,
                    status |-> report'.status, files |-> report'.files,
                    nodes |-> report'.nodes, impacted |-> report'.impacted,
                    warnings |-> report'.warnings]
  BY <1>1 DEF EndRepo, Shapes
<1>4. WithTests(freshness[r], r, files[r]) \in {"none"} \cup Verdicts
  BY DEF WithTests, Shapes, Verdicts
<1>5. Shapes'
  BY <1>1, <1>3, <1>4 DEF Shapes
<1>6. FilesOfDiff'
  BY <1>1, <1>2 DEF FilesOfDiff, Tracked, Wanted
<1>7. Joined'
  <2>1. r \notin report.scanned /\ r \notin report.errors
    BY <1>1 DEF Joined
  <2>2. \A s \in Repos : s # r => report'.status[s] = report.status[s]
    BY <1>3 DEF Shapes
  <2>3. diff[r] = "ok" => report'.status[r] = WithTests(freshness[r], r, files[r])
    BY <1>3 DEF Shapes
  <2>4. report'.scanned = {s \in Repos : worker'[s] = "ended" /\ diff'[s] = "ok"}
    BY <1>1, <1>2, <1>3 DEF Joined
  <2>5. report'.errors = {s \in Repos : worker'[s] = "ended" /\ diff'[s] = "failed"}
    BY <1>1, <1>2, <1>3 DEF Joined
  <2>6. \A s \in report'.errors : <<"repo", s>> \in report'.warnings
    BY <1>3 DEF Joined
  <2>7. \A s \in report'.scanned : report'.status[s] = WithTests(freshness[s], s, files[s])
    BY <1>3, <2>1, <2>2, <2>3, <2>4 DEF Joined
  <2> QED BY <1>1, <2>4, <2>5, <2>6, <2>7 DEF Joined, WithTests
<1>8. Progress'
  BY <1>1 DEF Progress, ValidOptions
<1>9. Answered'
  <2>1. pc' \in {"rejected", "scan"}
    BY <1>1
  <2>2. \A w \in report'.warnings : w \in report.warnings \/ w = <<"repo", r>>
    BY <1>3
  <2>3. pc' = "scan" => \A w \in report'.warnings : w[1] # "no nodes"
    <3>1. pc' = "scan" => \A w \in report.warnings : w[1] # "no nodes"
      BY <1>1 DEF Answered
    <3>2. <<"repo", r>>[1] # "no nodes"
      OBVIOUS
    <3> QED BY <3>1, <3>2, <2>2
  <2> HIDE DEF CInv
  <2> QED BY <2>1, <2>3 DEF Answered
<1> QED BY <1>5, <1>6, <1>7, <1>8, <1>9

-----------------------------------------------------------------------------
(* The caller.                                                             *)

LEMMA ValidateOK ==
  ASSUME CInv, Validate
  PROVE  CInv'
<1>1. /\ pc = "validate"
      /\ pc' \in {"scan", "rejected"}
      /\ pc' = "scan" => ValidOptions(request')
      /\ UNCHANGED <<tree, tests, worker, freshness, diff, files, report, ids, cancelled, graph>>
  BY DEF Validate
<1>2. \A r \in Repos : worker[r] = "waiting" /\ diff[r] = "resolve"
  BY <1>1 DEF CInv, Progress, FilesOfDiff
<1>3. Shapes'
  BY <1>1 DEF CInv, Shapes, Stages, Ended, graph
<1>4. FilesOfDiff'
  BY <1>1, <1>2 DEF FilesOfDiff
<1>5. Joined'
  BY <1>1 DEF CInv, Joined, WithTests
<1>6. Progress'
  BY <1>1 DEF Progress, ValidOptions
<1>7. Answered'
  BY <1>1 DEF CInv, Answered
<1> QED BY <1>3, <1>4, <1>5, <1>6, <1>7 DEF CInv

\* What Collect, Lookup and GetDependents write leaves alone what the workers wrote.
LEMMA CallerOK ==
  ASSUME CInv, UNCHANGED <<inputs, worker, freshness, diff, files, cancelled, live>>,
         pc \in {"scan", "lookup", "blast"}, pc' \in Stages,
         report' = [scanned |-> report.scanned, errors |-> report.errors,
                    status |-> report.status, files |-> report'.files,
                    nodes |-> report'.nodes, impacted |-> report'.impacted,
                    warnings |-> report'.warnings],
         report'.nodes \subseteq Nodes, report.warnings \subseteq report'.warnings
  PROVE  Shapes' /\ FilesOfDiff' /\ Joined'
<1>1. Shapes'
  BY DEF CInv, Shapes
<1>2. FilesOfDiff'
  BY DEF CInv, FilesOfDiff, Tracked, Wanted, inputs
<1>3. report'.scanned = report.scanned /\ report'.errors = report.errors
      /\ report'.status = report.status
  OBVIOUS
<1>4. Joined'
  BY <1>3 DEF CInv, Joined, WithTests, inputs
<1> QED BY <1>1, <1>2, <1>4

LEMMA CollectOK ==
  ASSUME CInv, Collect
  PROVE  CInv'
<1>1. /\ pc = "scan" /\ \A r \in Repos : worker[r] = "ended"
      /\ UNCHANGED <<inputs, worker, freshness, diff, files, ids, cancelled, graph>>
      /\ pc' \in {"all failed", "lookup"}
      /\ pc' = "all failed" => report.scanned = {} /\ report' = report
  BY DEF Collect
<1>2. /\ report' = [scanned |-> report.scanned, errors |-> report.errors,
                    status |-> report.status, files |-> report'.files,
                    nodes |-> report.nodes, impacted |-> report.impacted,
                    warnings |-> report'.warnings]
      /\ report'.nodes = report.nodes /\ report'.impacted = report.impacted
      /\ \/ report'.warnings = report.warnings
         \/ report'.warnings = report.warnings \cup {<<"files truncated", 0>>}
  <2>1. CASE report.scanned = {}
    BY <2>1 DEF Collect, CInv, Shapes
  <2>2. CASE report.scanned # {}
    <3> DEFINE ws == IF Cardinality(AllFiles) > request.maxFiles
                     THEN report.warnings \cup {<<"files truncated", 0>>} ELSE report.warnings
               fs == Listed(AllFiles, request.maxFiles)
    <3>1. report' = [report EXCEPT !.files = fs, !.warnings = ws]
      BY <2>2 DEF Collect
    <3>2. ws = report.warnings \/ ws = report.warnings \cup {<<"files truncated", 0>>}
      OBVIOUS
    <3> HIDE DEF ws, fs
    <3>3. report' = [scanned |-> report.scanned, errors |-> report.errors,
                     status |-> report.status, files |-> fs, nodes |-> report.nodes,
                     impacted |-> report.impacted, warnings |-> ws]
      BY <3>1 DEF CInv, Shapes
    <3> QED BY <3>2, <3>3
  <2> QED BY <2>1, <2>2
<1>3. report'.nodes = report.nodes
  BY <1>2
<1>4. Shapes' /\ FilesOfDiff' /\ Joined'
  <2>1. report'.nodes \subseteq Nodes
    BY <1>3 DEF CInv, Shapes
  <2>2. pc' \in Stages
    BY <1>1 DEF Stages, Ended
  <2>3. UNCHANGED <<inputs, worker, freshness, diff, files, cancelled, live>>
    BY <1>1 DEF graph
  <2>4. report.warnings \subseteq report'.warnings
    BY <1>2
  <2>5. report' = [scanned |-> report.scanned, errors |-> report.errors,
                   status |-> report.status, files |-> report'.files,
                   nodes |-> report'.nodes, impacted |-> report'.impacted,
                   warnings |-> report'.warnings]
    BY <1>2
  <2> QED BY <1>1, <2>1, <2>2, <2>3, <2>4, <2>5, CallerOK
<1>5. Progress'
  BY <1>1 DEF CInv, Progress, ValidOptions, inputs
<1>6. Answered'
  <2>1. \A w \in report'.warnings : w \in report.warnings \/ w = <<"files truncated", 0>>
    BY <1>2
  <2>2. \A w \in report.warnings : w[1] # "no nodes"
    BY <1>1 DEF CInv, Answered
  <2>3. <<"files truncated", 0>>[1] # "no nodes"
    OBVIOUS
  <2>4. \A w \in report'.warnings : w[1] # "no nodes"
    BY <2>1, <2>2, <2>3
  <2> QED BY <1>1, <2>4 DEF Answered
<1> QED BY <1>4, <1>5, <1>6 DEF CInv

LEMMA LookupOK ==
  ASSUME CInv, Lookup
  PROVE  CInv'
<1>1. /\ pc = "lookup" /\ pc' = "blast"
      /\ ids' = {n.id : n \in Found}
      /\ UNCHANGED <<inputs, worker, freshness, diff, files, cancelled, live, gap, updates>>
  BY DEF Lookup
<1> DEFINE new == {<<"no nodes", f>> : f \in {g \in ToSet(report.files) : Unmatched(g, Found)}}
<1>2. report' = [scanned |-> report.scanned, errors |-> report.errors,
                 status |-> report.status, files |-> report.files,
                 nodes |-> Found, impacted |-> report.impacted,
                 warnings |-> report.warnings \cup new]
  BY DEF Lookup, CInv, Shapes
<1>3. /\ report'.files = report.files /\ report'.nodes = Found
      /\ report'.warnings = report.warnings \cup new
  BY <1>2
<1>4. Found \subseteq live /\ Found \subseteq Nodes
  BY DEF Found, CInv, Shapes
<1>5. Shapes' /\ FilesOfDiff' /\ Joined'
  <2>1. UNCHANGED <<inputs, worker, freshness, diff, files, cancelled, live>>
    BY <1>1
  <2>2. report' = [scanned |-> report.scanned, errors |-> report.errors,
                   status |-> report.status, files |-> report'.files,
                   nodes |-> report'.nodes, impacted |-> report'.impacted,
                   warnings |-> report'.warnings]
    BY <1>2
  <2>3. pc' \in Stages
    BY <1>1 DEF Stages
  <2> QED BY <1>1, <1>3, <1>4, <2>1, <2>2, <2>3, CallerOK
<1>6. Progress'
  BY <1>1 DEF CInv, Progress, ValidOptions, inputs
<1>7. Answered'
  <2>1. \A w \in report.warnings : w[1] # "no nodes"
    BY <1>1 DEF CInv, Answered
  <2>2. ASSUME NEW f \in ToSet(report.files)
        PROVE  <<"no nodes", f>> \in report'.warnings <=> Unmatched(f, Found)
    <3>1. <<"no nodes", f>> \notin report.warnings
      BY <2>1
    <3>2. <<"no nodes", f>> \in new <=> Unmatched(f, Found)
      <4>1. ASSUME <<"no nodes", f>> \in new PROVE Unmatched(f, Found)
        <5>1. PICK g \in ToSet(report.files) : Unmatched(g, Found) /\ <<"no nodes", f>> = <<"no nodes", g>>
          BY <4>1
        <5> QED BY <5>1
      <4>2. Unmatched(f, Found) => <<"no nodes", f>> \in new
        OBVIOUS
      <4> QED BY <4>1, <4>2
    <3> QED BY <1>3, <3>1, <3>2
  <2>3. \A n \in Found : \E f \in ToSet(report.files) : Touches(f, n)
    BY DEF Found
  <2>4. ids' = {n.id : n \in report'.nodes} /\ report'.nodes \subseteq live'
    BY <1>1, <1>3, <1>4
  <2> QED BY <1>1, <1>3, <2>2, <2>3, <2>4 DEF Answered, Unmatched, Touches
<1> QED BY <1>5, <1>6, <1>7 DEF CInv

LEMMA GetDependentsOK ==
  ASSUME CInv, GetDependents
  PROVE  CInv'
<1>1. /\ pc = "blast" /\ pc' = "done"
      /\ UNCHANGED <<inputs, worker, freshness, diff, files, ids, cancelled, graph>>
  BY DEF GetDependents
<1>2. /\ report' = [scanned |-> report.scanned, errors |-> report.errors,
                    status |-> report.status, files |-> report.files,
                    nodes |-> report.nodes, impacted |-> report'.impacted,
                    warnings |-> report'.warnings]
      /\ report'.files = report.files /\ report'.nodes = report.nodes
      /\ \/ report'.warnings = report.warnings
         \/ report'.warnings = report.warnings \cup {<<"nodes truncated", 0>>}
  <2>1. CASE Cardinality(Dependents) <= request.maxNodes
    BY <2>1 DEF GetDependents, CInv, Shapes
  <2>2. CASE ~(Cardinality(Dependents) <= request.maxNodes)
    BY <2>2 DEF GetDependents, CInv, Shapes
  <2> QED BY <2>1, <2>2
<1>3. report'.files = report.files /\ report'.nodes = report.nodes
  BY <1>2
<1>4. Shapes' /\ FilesOfDiff' /\ Joined'
  <2>1. UNCHANGED <<inputs, worker, freshness, diff, files, cancelled, live>>
    BY <1>1 DEF graph
  <2>2. report' = [scanned |-> report.scanned, errors |-> report.errors,
                   status |-> report.status, files |-> report'.files,
                   nodes |-> report'.nodes, impacted |-> report'.impacted,
                   warnings |-> report'.warnings]
    BY <1>2
  <2>3. pc' \in Stages
    BY <1>1 DEF Stages, Ended
  <2>4. report'.nodes \subseteq Nodes /\ report.warnings \subseteq report'.warnings
    BY <1>2, <1>3 DEF CInv, Shapes
  <2> QED BY <1>1, <2>1, <2>2, <2>3, <2>4, CallerOK
<1>5. Progress'
  BY <1>1 DEF CInv, Progress, ValidOptions, inputs
<1>6. Answered'
  <2>1. \A f : <<"no nodes", f>> \in report'.warnings <=> <<"no nodes", f>> \in report.warnings
    <3>1. \A f : <<"no nodes", f>> # <<"nodes truncated", 0>>
      OBVIOUS
    <3> QED BY <1>2, <3>1
  <2>2. /\ \A f \in ToSet(report.files) :
             <<"no nodes", f>> \in report.warnings <=> Unmatched(f, report.nodes)
        /\ \A n \in report.nodes : \E f \in ToSet(report.files) : Touches(f, n)
    BY <1>1 DEF CInv, Answered
  <2> QED BY <1>1, <1>3, <2>1, <2>2 DEF Answered, Unmatched, Touches
<1> QED BY <1>4, <1>5, <1>6 DEF CInv

\* A call ends without a report.
LEMMA GivesUpOK ==
  ASSUME CInv, BlastFails \/ Aborted
  PROVE  CInv'
<1>1. /\ pc \in {"lookup", "blast"} /\ pc' \in {"node not found", "cancelled"}
      /\ pc' = "cancelled" => cancelled
      /\ pc' = "node not found" => pc = "blast" /\ ~(ids \subseteq LiveIDs)
      /\ UNCHANGED <<inputs, worker, freshness, diff, files, report, ids, cancelled, graph>>
  BY DEF BlastFails, Aborted
<1>2. pc' = "node not found" => moved
  <2> SUFFICES ASSUME pc' = "node not found", ~moved PROVE FALSE
    OBVIOUS
  <2>1. ids = {n.id : n \in report.nodes} /\ report.nodes \subseteq live
    BY <1>1 DEF CInv, Answered
  <2>2. ids \subseteq LiveIDs
    BY <2>1 DEF LiveIDs
  <2> QED BY <1>1, <2>2
<1>3. Shapes' /\ FilesOfDiff' /\ Joined'
  <2>1. Shapes'
    BY <1>1 DEF CInv, Shapes, Stages, Ended, graph
  <2>2. FilesOfDiff'
    BY <1>1 DEF CInv, FilesOfDiff, Tracked, Wanted, inputs
  <2>3. Joined'
    BY <1>1 DEF CInv, Joined, WithTests, inputs
  <2> QED BY <2>1, <2>2, <2>3
<1>4. Progress'
  BY <1>1, <1>2 DEF CInv, Progress, ValidOptions, inputs, graph
<1>5. Answered'
  BY <1>1 DEF Answered
<1> QED BY <1>3, <1>4, <1>5 DEF CInv

-----------------------------------------------------------------------------
(* The client and the watcher.                                             *)

\* The invariant says of cancelled only that it is set when it was needed.
LEMMA KeptOK ==
  ASSUME CInv, UNCHANGED <<inputs, pc, worker, freshness, diff, files, report, ids, graph>>,
         cancelled => cancelled'
  PROVE  CInv'
<1>1. Shapes'
  BY DEF CInv, Shapes, graph
<1>2. FilesOfDiff'
  BY DEF CInv, FilesOfDiff, Tracked, Wanted, inputs
<1>3. Joined'
  BY DEF CInv, Joined, WithTests, inputs
<1>4. Progress'
  BY DEF CInv, Progress, ValidOptions, inputs, graph
<1>5. Answered'
  BY DEF CInv, Answered, Unmatched, Touches, graph
<1> QED BY <1>1, <1>2, <1>3, <1>4, <1>5 DEF CInv

LEMMA CancelOK ==
  ASSUME CInv, Cancel
  PROVE  CInv'
<1>1. /\ UNCHANGED <<inputs, pc, worker, freshness, diff, files, report, ids, graph>>
      /\ cancelled'
  BY DEF Cancel
<1> QED BY <1>1, KeptOK

\* Whatever the watcher does to the graph, the caller is told by moved if it looks twice.
LEMMA WatcherOK ==
  ASSUME CInv, (\E n \in Nodes : WatcherRemoves(n.path)) \/ WatcherBuilds
  PROVE  CInv'
<1>1. /\ UNCHANGED <<inputs, pc, worker, freshness, diff, files, report, ids, cancelled>>
      /\ moved' = (moved \/ live' # live)
      /\ live' \subseteq Nodes
  BY DEF WatcherRemoves, WatcherBuilds, NodesOf, CInv, Shapes
<1>2. Shapes' /\ FilesOfDiff' /\ Joined'
  BY <1>1 DEF CInv, Shapes, FilesOfDiff, Joined, Tracked, Wanted, WithTests, inputs
<1>3. Progress'
  BY <1>1 DEF CInv, Progress, ValidOptions, inputs
<1>4. Answered'
  BY <1>1 DEF CInv, Answered, Unmatched, Touches, inputs
<1> QED BY <1>2, <1>3, <1>4 DEF CInv

LEMMA NextOK == CInv /\ [Next]_vars => CInv'
<1> SUFFICES ASSUME CInv, [Next]_vars PROVE CInv'
  OBVIOUS
<1>1. CASE CallerStep
  BY <1>1, ValidateOK, CollectOK, LookupOK, GetDependentsOK, GivesUpOK DEF CallerStep
<1>2. ASSUME NEW r \in Repos, RepoStep(r) PROVE CInv'
  BY <1>2, StartRepoOK, EvaluateOK, GitOK, EndRepoOK DEF RepoStep, Verdicts
<1>3. CASE Cancel
  BY <1>3, CancelOK
<1>4. CASE (\E n \in Nodes : WatcherRemoves(n.path)) \/ WatcherBuilds
  BY <1>4, WatcherOK
<1>5. CASE UNCHANGED vars
  BY <1>5, KeptOK DEF vars, inputs, graph
<1> QED BY <1>1, <1>2, <1>3, <1>4, <1>5 DEF Next

-----------------------------------------------------------------------------
\* The strengthened invariant holds in every reachable state of a call.
THEOREM CallInvariant == Spec => []CInv
BY InitOK, NextOK, PTL DEF Spec

\* A call fails only for its options, because Git failed everywhere, because it was
\* cancelled, or because the graph moved between its two questions; whatever happens to
\* one repository, the report says it of that one and has the others.
THEOREM FailsForCauseHolds == Spec => []FailsForCause
<1>1. CInv => FailsForCause
  <2> SUFFICES ASSUME CInv PROVE FailsForCause
    OBVIOUS
  <2>1. pc = "all failed" => \A r \in Repos : diff[r] = "failed"
    BY DEF CInv, Progress, Joined, FilesOfDiff
  <2>2. pc = "done" => \A r \in Repos :
          IF diff[r] = "failed" THEN r \in report.errors /\ <<"repo", r>> \in report.warnings
          ELSE r \in report.scanned
    BY DEF CInv, Progress, Joined, FilesOfDiff
  <2> QED BY <2>1, <2>2 DEF CInv, Progress, FailsForCause
<1> QED BY CallInvariant, <1>1, PTL

\* A report that says fresh has no test file in any diff of a graph built without tests,
\* not even one that the list of files leaves out.
THEOREM FreshSeesEveryTestHolds == Spec => []FreshSeesEveryTest
<1>1. CInv => FreshSeesEveryTest
  <2> SUFFICES ASSUME CInv, pc = "done", Overall = "fresh",
                      NEW r \in report.scanned \ tests, NEW f \in tree[r],
                      f.test, f.untracked => request.untracked
               PROVE  FALSE
    BY DEF FreshSeesEveryTest
  <2>1. r \in Repos /\ diff[r] = "ok" /\ report.status[r] = WithTests(freshness[r], r, files[r])
    BY DEF CInv, Joined
  <2>2. report.status[r] # "stale"
    BY <2>1 DEF Overall, Statuses
  <2>3. f \in files[r]
    BY <2>1 DEF CInv, FilesOfDiff, Wanted
  <2> QED BY <2>1, <2>2, <2>3 DEF WithTests
<1> QED BY CallInvariant, <1>1, PTL

\* Every file of a report has a node it touches or a warning, never both, and every node
\* belongs to one of the files.
THEOREM ListedOrWarnedHolds == Spec => []ListedOrWarned
<1>1. CInv => ListedOrWarned
  BY DEF CInv, Answered, ListedOrWarned, Unmatched
<1> QED BY CallInvariant, <1>1, PTL

\* Every reachable state of a call is well-typed, and no repository is reported both as
\* scanned and as failed.
THEOREM ImpactTypesHold == Spec => []TypeOK
<1>1. CInv => TypeOK
  BY DEF CInv, Shapes, Stages, Verdicts, Joined, Progress, TypeOK
<1> QED BY CallInvariant, <1>1, PTL

=============================================================================
