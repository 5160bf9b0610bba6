-------------------------- MODULE FreshnessProofs ---------------------------
(***************************************************************************)
(* Whatever is edited, staged, committed and checked out, for any files,   *)
(* versions, commits and analyses: which reports about the graph can be    *)
(* relied on.                                                              *)
(***************************************************************************)
EXTENDS Freshness, TLAPS

Metas == [head : Nat, status : SUBSET Lines, available : BOOLEAN, saved : BOOLEAN]
WriterStages == {"idle", "head", "captured", "merged", "removed", "built"}
Writers == [pc : WriterStages, mode : {"none", "rebuild", "plain", "watch"}, file : Files \cup {"none"},
            source : SUBSET Versions, head : Nat, meta : Metas, calm : BOOLEAN]
Reports == [pc : {"idle", "loaded", "head"}, meta : Metas, head : Nat,
            verdict : {"none", "fresh", "stale", "unknown"}, calm : BOOLEAN]

\* Metadata name a commit there is, and none only if the capture failed.
MetaOK(m) == m.head \in 0..Len(commits) /\ (m.available => m.saved /\ m.head > 0)

Shapes ==
  /\ disk \in Trees /\ index \in Trees /\ commits \in Seq(Trees) /\ head \in 1..Len(commits)
  /\ graph \in [Files -> SUBSET Versions] /\ served \in [Files -> SUBSET Versions]
  /\ meta \in Metas /\ MetaOK(meta)
  /\ writer \in Writers /\ MetaOK(writer.meta)
  /\ writer.mode = "none" <=> writer.pc = "idle"
  /\ writer.pc = "head" => writer.head \in 1..Len(commits)
  /\ writer.pc \in {"removed", "built"} => writer.mode = "watch"
  /\ writer.pc = "removed" => writer.file \in Files
  /\ writer.pc \in {"captured", "merged"} => writer.mode # "watch"
  /\ pending \subseteq Files
  /\ report \in Reports /\ MetaOK(report.meta)
  /\ changes \in 0..MaxChanges
  /\ whole \in BOOLEAN /\ exact \in BOOLEAN /\ same \in BOOLEAN

\* The metadata say what git says now.
Sees(m) == m.head = head /\ m.status = Status

\* The graph is, but for ignored files, that of the commit which the metadata of a clean
\* tree name.
Describes(m) ==
  m.available /\ m.status = {} => \A f \in Files \ Ignored : graph[f] = {commits[m.head][f]} \ {Gone}

\* While nobody disturbs it, a writer knows HEAD, then what git says; a rebuild begins with
\* nothing and without metadata.
WriterOK ==
  /\ writer.calm /\ writer.pc = "head" => writer.head = head
  /\ writer.calm /\ writer.pc \in {"captured", "merged"} /\ writer.meta.available => Sees(writer.meta)
  /\ writer.mode = "rebuild" /\ writer.pc \in {"head", "captured"} => \A f \in Files : graph[f] = {}
  /\ writer.mode = "rebuild" => ~meta.saved

ReportOK == report.calm /\ report.pc = "head" => report.head = head

SameOK == same => meta.available /\ Sees(meta)

\* Until somebody else writes, a graph that was filled by a rebuild nothing disturbed is
\* described by the metadata of the rebuild, saved or not yet.
ExactOK ==
  exact => /\ writer.pc = "idle" \/ (writer.pc = "merged" /\ writer.mode = "rebuild" /\ Describes(writer.meta))
           /\ meta.saved => Describes(meta)

IInv == Shapes /\ WriterOK /\ ReportOK /\ SameOK /\ ExactOK

LEMMA Constants == NoMeta \in Metas /\ Idle \in Writers /\ NoReport \in Reports /\ Idle.pc = "idle"
                   /\ Idle.mode = "none" /\ Idle.meta = NoMeta /\ NoReport.pc = "idle" /\ NoReport.meta = NoMeta
                   /\ NoMeta.head = 0 /\ ~NoMeta.available /\ ~NoMeta.saved
  BY DEF NoMeta, Idle, NoReport, Metas, Writers, Reports, WriterStages

LEMMA StatusIsSet == Status \in SUBSET Lines
<1>1. ASSUME NEW f \in Files PROVE Line(f) \in Lines
  BY DEF Line, Lines, Kind, Kinds
<1> QED BY <1>1 DEF Status, Changed

\* A clean tree is that of HEAD, but for ignored files.
LEMMA CleanIsHead == ASSUME Status = {}, NEW f \in Files \ Ignored PROVE disk[f] = commits[head][f]
  BY DEF Status, Changed

LEMMA TrackedIsTree == ASSUME NEW tree \in Trees PROVE Tracked(tree) \in Trees
  BY DEF Tracked, Trees

\* What git says does not change with what others do.
LEMMA GitUnchanged ==
  ASSUME UNCHANGED <<disk, index, commits, head>>
  PROVE Status' = Status /\ (\A m : MetaOK(m)' <=> MetaOK(m)) /\ (\A m : Sees(m)' <=> Sees(m))
<1>1. Status' = Status
  BY DEF Status, Changed, Line, Kind
<1> QED BY <1>1 DEF MetaOK, Sees

LEMMA InitHolds == ASSUME FreshnessAssumption, Init PROVE IInv
<1>1. Len(commits) = 1 /\ commits \in Seq(Trees) /\ index \in Trees
  BY TrackedIsTree DEF Init
<1>2. MetaOK(NoMeta)
  BY <1>1, Constants DEF MetaOK
<1>3. 0 \in 0..MaxChanges
  BY DEF FreshnessAssumption
<1>4. disk \in Trees /\ head \in 1..Len(commits) /\ graph \in [Files -> SUBSET Versions]
  BY <1>1 DEF Init
<1>5. writer = Idle /\ report = NoReport /\ meta = NoMeta /\ served = graph /\ pending = {} /\ changes = 0
      /\ whole = FALSE /\ exact = FALSE /\ same = FALSE
  BY DEF Init
<1>6. Shapes
  BY <1>1, <1>2, <1>3, <1>4, <1>5, Constants DEF Shapes
<1> QED BY <1>5, <1>6, Constants DEF IInv, WriterOK, ReportOK, SameOK, ExactOK

-----------------------------------------------------------------------------
(* The user.                                                               *)

\* Edits, staging, commits and checkouts: commits are never lost, and everybody is disturbed.
LEMMA UserStep ==
  ASSUME IInv, Disturb, disk' \in Trees, index' \in Trees, commits' \in Seq(Trees), head' \in 1..Len(commits'),
         Len(commits) <= Len(commits'), \A i \in 1..Len(commits) : commits'[i] = commits[i],
         pending' \subseteq Files, changes' \in 0..MaxChanges,
         UNCHANGED <<graph, served, meta, whole, exact>>
  PROVE IInv'
<1> USE DEF IInv, Shapes
<1>1. Len(commits) \in Nat /\ Len(commits') \in Nat
  OBVIOUS
<1>2. ASSUME NEW m \in Metas, MetaOK(m) PROVE MetaOK(m)'
  BY <1>1, <1>2 DEF MetaOK, Metas
<1>3. /\ writer' \in Writers /\ writer'.pc = writer.pc /\ writer'.mode = writer.mode
      /\ writer'.meta = writer.meta /\ writer'.head = writer.head /\ writer'.file = writer.file
      /\ writer'.calm => writer.pc \notin {"head", "captured", "merged"}
  BY DEF Disturb, Writers
<1>4. /\ report' \in Reports /\ report'.meta = report.meta /\ report'.pc = report.pc
      /\ report'.calm => report.pc = "idle"
  BY DEF Disturb, Reports
<1>5. writer.meta \in Metas /\ report.meta \in Metas
  BY DEF Writers, Reports
<1>6. writer'.pc = "head" => writer'.head \in 1..Len(commits')
  BY <1>1, <1>3 DEF Writers
<1>7. Shapes'
  BY <1>2, <1>3, <1>4, <1>5, <1>6 DEF Disturb
<1>8. WriterOK' /\ ReportOK' /\ SameOK'
  BY <1>3, <1>4 DEF WriterOK, ReportOK, SameOK, Disturb
<1>9. ASSUME NEW m \in Metas, MetaOK(m), Describes(m) PROVE Describes(m)'
  <2>1. m.available => commits'[m.head] = commits[m.head]
    BY <1>1, <1>9 DEF MetaOK, Metas
  <2> QED BY <1>9, <2>1 DEF Describes
<1>10. ExactOK'
  BY <1>3, <1>5, <1>9 DEF ExactOK
<1> QED BY <1>7, <1>8, <1>10

LEMMA UserKeeps ==
  ASSUME FreshnessAssumption, IInv, (\E f \in Files : Edit(f) \/ Stage(f)) \/ Commit \/ Checkout
  PROVE IInv'
<1> USE DEF IInv, Shapes
<1>1. ASSUME NEW f \in Files, Edit(f) PROVE IInv'
  <2>1. disk' \in Trees
    BY <1>1 DEF Edit, Trees
  <2>2. changes' \in 0..MaxChanges
    BY <1>1 DEF Edit, FreshnessAssumption
  <2>3. Len(commits) <= Len(commits') /\ \A i \in 1..Len(commits) : commits'[i] = commits[i]
    BY <1>1 DEF Edit
  <2> QED BY <1>1, <2>1, <2>2, <2>3, UserStep DEF Edit
<1>2. CASE Commit
  <2>1. commits' = Append(commits, index) /\ head' = Len(commits) + 1
    BY <1>2 DEF Commit
  <2>2. /\ commits' \in Seq(Trees) /\ Len(commits') = Len(commits) + 1 /\ Len(commits) \in Nat
        /\ \A i \in 1..Len(commits) : commits'[i] = commits[i]
    BY <2>1
  <2> QED BY <1>2, <2>1, <2>2, UserStep DEF Commit
<1>3. CASE Checkout
  <2>1. PICK c \in 1..Len(commits) :
          /\ index' = commits[c] /\ head' = c
          /\ disk' = [f \in Files |-> IF f \in Ignored THEN disk[f] ELSE commits[c][f]]
          /\ pending' = pending \cup {f \in Files : disk[f] # disk'[f]}
          /\ Disturb
          /\ UNCHANGED <<commits, graph, served, meta, changes, whole, exact>>
    BY <1>3 DEF Checkout
  <2>2. disk' \in Trees /\ index' \in Trees
    BY <2>1 DEF Trees
  <2>3. Len(commits) <= Len(commits') /\ \A i \in 1..Len(commits) : commits'[i] = commits[i]
    BY <2>1
  <2> QED BY <2>1, <2>2, <2>3, UserStep
<1>4. ASSUME NEW f \in Files, Stage(f) PROVE IInv'
  <2>1. PICK v \in {disk[f], commits[head][f]} \ {index[f]} : index' = [index EXCEPT ![f] = v]
    BY <1>4 DEF Stage
  <2>2. commits[head] \in Trees
    OBVIOUS
  <2>3. index' \in Trees
    BY <2>1, <2>2 DEF Trees
  <2>4. Len(commits) <= Len(commits') /\ \A i \in 1..Len(commits) : commits'[i] = commits[i]
    BY <1>4 DEF Stage
  <2> QED BY <1>4, <2>3, <2>4, UserStep DEF Stage
<1> QED BY <1>1, <1>2, <1>3, <1>4

-----------------------------------------------------------------------------
(* Reports.                                                                *)

LEMMA ReportKeeps ==
  ASSUME IInv, ServerStarts \/ ReportStarts \/ ReportReadsHead \/ ReportEnds \/ ReportCaptureFails
  PROVE IInv'
<1> USE DEF IInv, Shapes
<1>1. /\ UNCHANGED <<disk, index, commits, head, graph, meta, writer, changes, whole, exact, same>>
      /\ served' \in {served, graph} /\ pending' \subseteq Files
  BY DEF ServerStarts, ReportStarts, ReportReadsHead, ReportEnds, ReportCaptureFails
<1>0. meta \in Metas /\ report \in Reports /\ head \in Nat
  OBVIOUS
<1> HIDE DEF IInv, Shapes
<1>2. /\ report' \in Reports /\ report'.meta \in {report.meta, meta, NoMeta}
      /\ report'.pc = "head" /\ report'.calm => report'.head = head
  <2>1. CASE ServerStarts
    BY <1>0, <2>1 DEF ServerStarts
  <2>2. CASE ReportStarts
    <3>1. report' \in {[NoReport EXCEPT !.verdict = "unknown"], [NoReport EXCEPT !.pc = "loaded", !.meta = meta]}
      BY <2>2 DEF ReportStarts
    <3> QED BY <1>0, <3>1, Constants DEF Reports
  <2>3. CASE ReportReadsHead
    BY <1>0, <2>3 DEF ReportReadsHead, Reports
  <2>4. CASE ReportEnds
    <3> DEFINE v == Verdict(report.meta, report.head, Status)
    <3>1. v \in {"none", "fresh", "stale", "unknown"}
      BY DEF Verdict
    <3>2. report' = [NoReport EXCEPT !.verdict = v]
      BY <2>4 DEF ReportEnds
    <3> HIDE DEF v
    <3> QED BY <1>0, <3>1, <3>2, Constants DEF Reports
  <2>5. CASE ReportCaptureFails
    BY <2>5, Constants DEF ReportCaptureFails, Reports
  <2> QED BY <2>1, <2>2, <2>3, <2>4, <2>5
<1> USE DEF IInv, Shapes
<1>3. MetaOK(NoMeta)
  BY Constants DEF MetaOK
<1>4. Shapes'
  BY <1>1, <1>2, <1>3, GitUnchanged
<1>5. ReportOK'
  BY <1>1, <1>2 DEF ReportOK
<1>6. WriterOK' /\ SameOK' /\ ExactOK'
  BY <1>1, GitUnchanged DEF WriterOK, SameOK, ExactOK, Describes
<1> QED BY <1>4, <1>5, <1>6

-----------------------------------------------------------------------------
(* gokg analyze.                                                           *)

\* A writer that gives up, or ends.
LEMMA IdleWriter ==
  ASSUME IInv, writer' = Idle
  PROVE writer' \in Writers /\ MetaOK(writer'.meta)
  BY Constants DEF MetaOK, IInv, Shapes

LEMMA StartKeeps ==
  ASSUME FreshnessAssumption, IInv, AnalyzeStarts
  PROVE IInv'
<1> USE DEF IInv, Shapes
<1>1. PICK mode \in {"rebuild", "plain"} :
        /\ Starts(mode)
        /\ writer' = [Idle EXCEPT !.pc = "head", !.mode = mode, !.head = head]
        /\ exact' = FALSE
        /\ IF mode = "rebuild"
           THEN graph' = [f \in Files |-> {}] /\ meta' = NoMeta /\ whole' = FALSE /\ same' = FALSE
           ELSE UNCHANGED <<graph, meta, whole, same>>
        /\ UNCHANGED <<disk, index, commits, head, served, pending, report>>
  BY DEF AnalyzeStarts
<1>2. head \in Nat
  OBVIOUS
<1>3. /\ writer' \in Writers /\ writer'.pc = "head" /\ writer'.mode = mode /\ writer'.head = head
      /\ writer'.meta = NoMeta
  BY <1>1, <1>2, Constants DEF Writers, WriterStages
<1>4. MetaOK(NoMeta)
  BY Constants DEF MetaOK
<1>5. changes' \in 0..MaxChanges
  BY <1>1 DEF Starts, FreshnessAssumption
<1>6. meta' \in {meta, NoMeta} /\ graph' \in [Files -> SUBSET Versions]
  BY <1>1
<1>7. Shapes'
  BY <1>1, <1>3, <1>4, <1>5, <1>6, Constants, GitUnchanged
<1>8. WriterOK'
  BY <1>1, <1>3, Constants DEF WriterOK
<1>9. ReportOK' /\ SameOK' /\ ExactOK'
  BY <1>1, GitUnchanged DEF ReportOK, SameOK, ExactOK
<1> QED BY <1>7, <1>8, <1>9

\* What is read from disk is a version or nothing.
LEMMA MergedIsGraph ==
  ASSUME IInv, NEW some \in SUBSET Files
  PROVE Merged(some) \in [Files -> SUBSET Versions]
  BY DEF IInv, Shapes, Merged, Trees

\* A capture that follows the reading of HEAD names that commit, or failed.
LEMMA CaptureOK ==
  ASSUME IInv, writer.pc = "head", NEW m \in {Captured(writer.head, Status), CaptureFailed}
  PROVE /\ m \in Metas /\ m.available \in BOOLEAN /\ MetaOK(m)
        /\ m.available => m.head = writer.head /\ m.status = Status
<1>1. writer.head \in 1..Len(commits) /\ Len(commits) \in Nat
  BY DEF IInv, Shapes
<1>2. CASE m = Captured(writer.head, Status)
  <2> DEFINE h == writer.head
             st == Status
  <2>1. h \in 1..Len(commits) /\ h \in Nat /\ st \in SUBSET Lines
    BY <1>1, StatusIsSet
  <2>2. m = [head |-> h, status |-> st, available |-> TRUE, saved |-> TRUE]
    BY <1>2 DEF Captured
  <2> HIDE DEF h, st
  <2>3. m \in Metas /\ m.available /\ m.saved /\ m.head = h /\ m.status = st
    BY <2>1, <2>2 DEF Metas
  <2>4. MetaOK(m)
    BY <1>1, <2>1, <2>3 DEF MetaOK
  <2> QED BY <2>3, <2>4 DEF h, st
<1>3. CASE m = CaptureFailed
  <2>1. m = [head |-> 0, status |-> {}, available |-> FALSE, saved |-> TRUE]
    BY <1>3 DEF CaptureFailed, NoMeta
  <2> QED BY <1>1, <2>1 DEF Metas, MetaOK
<1> QED BY <1>2, <1>3

LEMMA AnalyzeKeeps ==
  ASSUME FreshnessAssumption, IInv, AnalyzeCaptures \/ AnalyzeMerges \/ AnalyzeFails \/ AnalyzeSaves
  PROVE IInv'
<1> USE DEF IInv, Shapes
<1>1. CASE AnalyzeCaptures
  <2>1. PICK m \in {Captured(writer.head, Status), CaptureFailed} :
          writer' = [writer EXCEPT !.pc = "captured", !.meta = m]
    BY <1>1 DEF AnalyzeCaptures
  <2>2. writer.pc = "head" /\ writer.mode # "watch"
        /\ UNCHANGED <<disk, index, commits, head, graph, served, meta, pending, report, changes, whole, exact, same>>
    BY <1>1 DEF AnalyzeCaptures
  <2>3. m \in Metas /\ MetaOK(m) /\ (m.available => m.head = writer.head /\ m.status = Status)
    BY <2>1, <2>2, CaptureOK
  <2>4. /\ writer' \in Writers /\ writer'.pc = "captured" /\ writer'.mode = writer.mode /\ writer'.meta = m
        /\ writer'.calm = writer.calm
    BY <2>1, <2>3 DEF Writers, WriterStages
  <2>5. Shapes'
    BY <2>2, <2>3, <2>4, GitUnchanged DEF Writers
  <2>6. WriterOK'
    BY <2>2, <2>3, <2>4, GitUnchanged DEF WriterOK, Sees
  <2>7. ReportOK' /\ SameOK'
    BY <2>2, GitUnchanged DEF ReportOK, SameOK
  <2>8. ExactOK'
    BY <2>2 DEF ExactOK
  <2> QED BY <2>5, <2>6, <2>7, <2>8
<1>2. CASE AnalyzeMerges
  <2>1. /\ writer.pc = "captured" /\ graph' = Merged(Files) /\ whole' = TRUE
        /\ writer' = [writer EXCEPT !.pc = "merged"]
        /\ exact' = (writer.mode = "rebuild" /\ writer.calm)
        /\ UNCHANGED <<disk, index, commits, head, served, meta, pending, report, changes, same>>
    BY <1>2 DEF AnalyzeMerges
  <2>2. /\ writer' \in Writers /\ writer'.pc = "merged" /\ writer'.mode = writer.mode
        /\ writer'.meta = writer.meta /\ writer'.calm = writer.calm
    BY <2>1 DEF Writers, WriterStages
  <2>3. graph' \in [Files -> SUBSET Versions]
    BY <2>1, MergedIsGraph
  <2>4. Shapes'
    BY <2>1, <2>2, <2>3, GitUnchanged DEF Writers
  <2>5. WriterOK'
    BY <2>1, <2>2, GitUnchanged DEF WriterOK
  <2>6. ReportOK' /\ SameOK'
    BY <2>1, GitUnchanged DEF ReportOK, SameOK
  <2>7. ExactOK'
    <3> SUFFICES ASSUME exact', writer.meta.available, writer.meta.status = {}, NEW f \in Files \ Ignored
                 PROVE graph'[f] = {commits[writer.meta.head][f]} \ {Gone}
      BY <2>1, <2>2 DEF ExactOK, Describes, WriterOK
    <3>1. graph[f] = {} /\ writer.meta.head = head /\ Status = {}
      BY <2>1 DEF WriterOK, Sees
    <3>2. disk[f] = commits[head][f]
      BY <3>1, CleanIsHead
    <3>3. graph'[f] = graph[f] \cup ({disk[f]} \ {Gone})
      BY <2>1 DEF Merged
    <3> QED BY <3>1, <3>2, <3>3
  <2> QED BY <2>4, <2>5, <2>6, <2>7
<1>3. CASE AnalyzeFails
  <2>1. PICK some \in SUBSET Files : /\ writer.pc # "captured" => some = {}
                                     /\ graph' = Merged(some)
    BY <1>3 DEF AnalyzeFails
  <2>2. /\ writer.pc \in {"head", "captured", "merged"} /\ writer' = Idle
        /\ exact' = (exact /\ writer.pc = "merged")
        /\ UNCHANGED <<disk, index, commits, head, served, meta, pending, report, changes, whole, same>>
    BY <1>3 DEF AnalyzeFails
  <2>3. graph' \in [Files -> SUBSET Versions]
    BY <2>1, MergedIsGraph
  <2>4. Shapes'
    BY <2>2, <2>3, IdleWriter, Constants, GitUnchanged
  <2>5. WriterOK' /\ ReportOK' /\ SameOK'
    BY <2>2, Constants, GitUnchanged DEF WriterOK, ReportOK, SameOK
  <2>6. ExactOK'
    <3> SUFFICES ASSUME exact' PROVE meta.saved => Describes(meta)'
      BY <2>2, Constants DEF ExactOK
    <3>1. \A f \in Files : graph'[f] = graph[f]
      BY <2>1, <2>2 DEF Merged
    <3> QED BY <2>2, <3>1 DEF ExactOK, Describes
  <2> QED BY <2>4, <2>5, <2>6
<1>4. CASE AnalyzeSaves
  <2>1. /\ writer.pc = "merged" /\ meta' = writer.meta /\ writer' = Idle
        /\ same' = (writer.calm /\ writer.meta.available)
        /\ UNCHANGED <<disk, index, commits, head, graph, served, pending, report, changes, whole, exact>>
    BY <1>4 DEF AnalyzeSaves, Save
  <2>2. Shapes'
    BY <2>1, IdleWriter, Constants, GitUnchanged DEF Writers
  <2>3. WriterOK' /\ ReportOK'
    BY <2>1, Constants DEF WriterOK, ReportOK
  <2>4. SameOK'
    BY <2>1, GitUnchanged DEF SameOK, WriterOK
  <2>5. ExactOK'
    BY <2>1, Constants DEF ExactOK, Describes
  <2> QED BY <2>2, <2>3, <2>4, <2>5
<1> QED BY <1>1, <1>2, <1>3, <1>4

-----------------------------------------------------------------------------
(* The update of a watcher.                                                *)

LEMMA WatchKeeps ==
  ASSUME FreshnessAssumption, IInv, WatchStarts \/ WatchBuilds \/ WatchReadsHead \/ WatchSaves \/ WatchFails
  PROVE IInv'
<1> USE DEF IInv, Shapes
<1>1. CASE WatchStarts
  <2>1. PICK f \in pending :
          /\ Starts("watch")
          /\ pending' = pending \ {f}
          /\ graph' = [graph EXCEPT ![f] = {}] /\ served' = [served EXCEPT ![f] = {}]
          /\ writer' = [Idle EXCEPT !.pc = "removed", !.mode = "watch", !.file = f, !.source = {disk[f]} \ {Gone}]
          /\ exact' = FALSE
          /\ UNCHANGED <<disk, index, commits, head, meta, report, whole, same>>
    BY <1>1 DEF WatchStarts
  <2>2. {disk[f]} \ {Gone} \in SUBSET Versions
    BY DEF Trees
  <2>3. /\ writer' \in Writers /\ writer'.pc = "removed" /\ writer'.mode = "watch" /\ writer'.file = f
        /\ writer'.meta = NoMeta
    BY <2>1, <2>2, Constants DEF Writers, WriterStages
  <2>4. MetaOK(NoMeta) /\ changes' \in 0..MaxChanges
    BY <2>1, Constants DEF MetaOK, Starts, FreshnessAssumption
  <2>5. graph' \in [Files -> SUBSET Versions] /\ served' \in [Files -> SUBSET Versions]
    BY <2>1
  <2>6. Shapes'
    BY <2>1, <2>3, <2>4, <2>5, GitUnchanged
  <2>7. WriterOK' /\ ReportOK' /\ SameOK' /\ ExactOK'
    BY <2>1, <2>3, GitUnchanged DEF WriterOK, ReportOK, SameOK, ExactOK
  <2> QED BY <2>6, <2>7
<1>2. CASE WatchBuilds
  <2>1. /\ writer.pc = "removed" /\ writer.mode = "watch" /\ writer.source \in SUBSET Versions
        /\ graph' = [graph EXCEPT ![writer.file] = @ \cup writer.source]
        /\ served' = [served EXCEPT ![writer.file] = @ \cup writer.source]
        /\ writer' = [writer EXCEPT !.pc = "built"]
        /\ UNCHANGED <<disk, index, commits, head, meta, pending, report, changes, whole, exact, same>>
    BY <1>2 DEF WatchBuilds, Writers
  <2>2. /\ writer' \in Writers /\ writer'.pc = "built" /\ writer'.mode = "watch" /\ writer'.meta = writer.meta
    BY <2>1 DEF Writers, WriterStages
  <2>3. graph' \in [Files -> SUBSET Versions] /\ served' \in [Files -> SUBSET Versions]
    BY <2>1
  <2>4. Shapes'
    BY <2>1, <2>2, <2>3, GitUnchanged
  <2>5. WriterOK' /\ ReportOK' /\ SameOK' /\ ExactOK'
    BY <2>1, <2>2, GitUnchanged DEF WriterOK, ReportOK, SameOK, ExactOK
  <2> QED BY <2>4, <2>5
<1>3. CASE WatchReadsHead
  <2>1. /\ writer.pc = "built" /\ writer.mode = "watch" /\ head \in Nat
        /\ writer' = [writer EXCEPT !.pc = "head", !.head = head]
        /\ UNCHANGED <<disk, index, commits, head, graph, served, meta, pending, report, changes, whole, exact, same>>
    BY <1>3 DEF WatchReadsHead
  <2>2. /\ writer' \in Writers /\ writer'.pc = "head" /\ writer'.mode = "watch" /\ writer'.meta = writer.meta
        /\ writer'.head = head
    BY <2>1 DEF Writers, WriterStages
  <2>3. Shapes'
    BY <2>1, <2>2, GitUnchanged
  <2>4. WriterOK' /\ ReportOK' /\ SameOK' /\ ExactOK'
    BY <2>1, <2>2, GitUnchanged DEF WriterOK, ReportOK, SameOK, ExactOK
  <2> QED BY <2>3, <2>4
<1>4. CASE WatchSaves
  <2>1. PICK m \in {Captured(writer.head, Status), CaptureFailed} :
          meta' = m /\ writer' = Idle /\ same' = (writer.calm /\ m.available)
    BY <1>4 DEF WatchSaves, Save
  <2>2. /\ writer.pc = "head" /\ writer.mode = "watch"
        /\ UNCHANGED <<disk, index, commits, head, graph, served, pending, report, changes, whole, exact>>
    BY <1>4 DEF WatchSaves
  <2>3. m \in Metas /\ MetaOK(m) /\ (m.available => m.head = writer.head /\ m.status = Status)
        /\ m.available \in BOOLEAN
    BY <2>1, <2>2, CaptureOK
  <2>4. Shapes'
    BY <2>1, <2>2, <2>3, IdleWriter, Constants, GitUnchanged DEF Writers
  <2>5. WriterOK' /\ ReportOK'
    BY <2>1, <2>2, Constants DEF WriterOK, ReportOK
  <2>6. SameOK'
    BY <2>1, <2>2, <2>3, GitUnchanged DEF SameOK, WriterOK, Sees
  <2>7. ExactOK'
    BY <2>2 DEF ExactOK
  <2> QED BY <2>4, <2>5, <2>6, <2>7
<1>5. CASE WatchFails
  <2>1. /\ writer.pc \in {"removed", "built", "head"} /\ writer' = Idle
        /\ UNCHANGED <<disk, index, commits, head, graph, served, meta, pending, report, changes, whole, exact, same>>
    BY <1>5 DEF WatchFails
  <2>2. Shapes'
    BY <2>1, IdleWriter, Constants, GitUnchanged
  <2>3. WriterOK' /\ ReportOK' /\ SameOK' /\ ExactOK'
    BY <2>1, Constants, GitUnchanged DEF WriterOK, ReportOK, SameOK, ExactOK
  <2> QED BY <2>2, <2>3
<1> QED BY <1>1, <1>2, <1>3, <1>4, <1>5

-----------------------------------------------------------------------------
LEMMA NextKeeps == ASSUME FreshnessAssumption, IInv, [Next]_vars PROVE IInv'
<1>1. CASE UNCHANGED vars
  <2>1. UNCHANGED <<disk, index, commits, head>>
    BY <1>1 DEF vars
  <2> QED BY <1>1, <2>1, GitUnchanged
       DEF vars, IInv, Shapes, WriterOK, ReportOK, SameOK, ExactOK, Describes
<1> QED BY <1>1, UserKeeps, ReportKeeps, StartKeeps, AnalyzeKeeps, WatchKeeps DEF Next

\* The invariant holds throughout.
LEMMA IInvHolds == ASSUME FreshnessAssumption PROVE Spec => []IInv
<1>1. Init => IInv
  BY InitHolds
<1>2. IInv /\ [Next]_vars => IInv'
  BY NextKeeps
<1> QED BY <1>1, <1>2, PTL DEF Spec

\* What a report that ends compares: metadata, HEAD and status of the same tree.
LEMMA ReportCompares ==
  ASSUME IInv, NEW verdict, Ends(verdict)
  PROVE report.head = head /\ verdict = Verdict(report.meta, head, Status)
<1>1. report.head = head
  BY DEF IInv, ReportOK, Ends, ReportEnds
<1>2. report'.verdict = Verdict(report.meta, report.head, Status)
  BY DEF Ends, ReportEnds, NoReport
<1> QED BY <1>1, <1>2 DEF Ends

\* Every reachable state of tree, database and reports is well-typed.
LEMMA InvariantTypes == ASSUME FreshnessAssumption, IInv PROVE TypeOK
  BY DEF IInv, Shapes, MetaOK, Writers, WriterStages, Reports, Metas, TypeOK

\* Under the invariant, what was rebuilt from a clean tree and is called fresh matches.
LEMMA CleanFresh == ASSUME FreshnessAssumption, IInv PROVE CleanFreshMatches
<1> SUFFICES ASSUME Ends("fresh"), exact, served = graph, report.meta = meta, meta.status = {},
                    NEW f \in Files \ Ignored
             PROVE served[f] = Declarations(f)
  BY DEF CleanFreshMatches
<1>1. Verdict(meta, head, Status) = "fresh"
  BY ReportCompares
<1>2. meta.saved /\ meta.available /\ meta.status = Status /\ (meta.head # 0 => meta.head = head)
  BY <1>1 DEF Verdict, Stale
<1>3. meta.head = head
  BY <1>2 DEF IInv, Shapes, MetaOK
<1>4. graph[f] = {commits[head][f]} \ {Gone}
  BY <1>2, <1>3 DEF IInv, ExactOK, Describes
<1>5. disk[f] = commits[head][f]
  BY <1>2, CleanIsHead
<1> QED BY <1>4, <1>5 DEF Declarations

\* Under the invariant, nothing is called stale that the writer of the metadata saw.
LEMMA NoAlarm == ASSUME FreshnessAssumption, IInv PROVE NoFalseAlarm
<1> SUFFICES ASSUME same, report.meta = meta, Ends("stale") PROVE FALSE
  BY DEF NoFalseAlarm
<1>1. Verdict(meta, head, Status) = "stale"
  BY ReportCompares
<1>2. meta.head = head /\ meta.status = Status
  BY DEF IInv, SameOK, Sees
<1> QED BY <1>1, <1>2 DEF Verdict, Stale

\* Every reachable state of tree, database and reports is well-typed.
THEOREM FreshnessTypesHold == ASSUME FreshnessAssumption PROVE Spec => []TypeOK
  BY IInvHolds, InvariantTypes, PTL

\* A report that says fresh of a graph that was rebuilt from a clean tree and loaded since
\* is right (evaluateFreshness) about every file that Git does not ignore: memory, database
\* and tree agree on it, whatever was edited, staged, committed and checked out since.
THEOREM CleanFreshMatchesHolds == ASSUME FreshnessAssumption PROVE Spec => [][CleanFreshMatches]_vars
  BY IInvHolds, CleanFresh, PTL

\* While tree, index and HEAD are what the writer of the metadata saw, dirty or not, no report
\* calls the graph stale (evaluateFreshness).
THEOREM NoFalseAlarmHolds == ASSUME FreshnessAssumption PROVE Spec => [][NoFalseAlarm]_vars
  BY IInvHolds, NoAlarm, PTL

-----------------------------------------------------------------------------
\* What analyze alone writes: metadata are saved after a whole merge.
MergedOK == (meta.saved => whole) /\ (writer.pc = "merged" => whole) /\ writer.mode # "watch"

LEMMA MergedKeeps ==
  ASSUME "watch" \notin Modes, writer \in Writers, MergedOK, [Next]_vars
  PROVE MergedOK'
<1> USE DEF MergedOK
<1>1. CASE (\E f \in Files : Edit(f) \/ Stage(f)) \/ Commit \/ Checkout
  <2>1. UNCHANGED <<meta, whole>> /\ Disturb
    BY <1>1 DEF Edit, Stage, Commit, Checkout
  <2> QED BY <2>1 DEF Disturb, Writers
<1>2. CASE AnalyzeStarts
  BY <1>2, Constants DEF AnalyzeStarts, Idle
<1>3. CASE AnalyzeCaptures \/ AnalyzeMerges \/ AnalyzeFails \/ AnalyzeSaves
  BY <1>3, Constants DEF AnalyzeCaptures, AnalyzeMerges, AnalyzeFails, AnalyzeSaves, Save, Writers
<1>4. CASE WatchStarts
  BY <1>4 DEF WatchStarts, Starts
<1>5. CASE WatchBuilds \/ WatchReadsHead \/ WatchSaves \/ WatchFails
  BY <1>5, Constants DEF WatchBuilds, WatchReadsHead, WatchSaves, WatchFails, Writers
<1>6. CASE ServerStarts \/ ReportStarts \/ ReportReadsHead \/ ReportEnds \/ ReportCaptureFails
  BY <1>6 DEF ServerStarts, ReportStarts, ReportReadsHead, ReportEnds, ReportCaptureFails
<1>7. CASE UNCHANGED vars
  BY <1>7 DEF vars
<1> QED BY <1>1, <1>2, <1>3, <1>4, <1>5, <1>6, <1>7 DEF Next

\* A database that nobody has written has no metadata.
LEMMA MergedInitially == ASSUME Init PROVE MergedOK
  BY Constants DEF Init, MergedOK

LEMMA MergedMeansWhole == ASSUME MergedOK PROVE MetadataOfWhole
  BY DEF MergedOK, MetadataOfWhole

\* Metadata written by analyses alone are those of a graph that has seen a whole merge since
\* it was emptied (runAnalyze saves them last).
THEOREM MetadataOfWholeHolds ==
  ASSUME FreshnessAssumption, "watch" \notin Modes
  PROVE Spec => []MetadataOfWhole
<1>1. Init => MergedOK
  BY MergedInitially
<1>2. IInv /\ MergedOK /\ [Next]_vars => MergedOK'
  BY MergedKeeps DEF IInv, Shapes
<1>3. MergedOK => MetadataOfWhole
  BY MergedMeansWhole
<1> QED BY <1>1, <1>2, <1>3, IInvHolds, PTL DEF Spec
=============================================================================
