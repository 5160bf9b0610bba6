----------------------------- MODULE AnalyzeRun -----------------------------
(***************************************************************************)
(* `gokg analyze` and `gokg analyze --workspace` (cmd/gokg/analyze.go): a  *)
(* worker per repository in an errgroup whose first error cancels the      *)
(* others.  A worker may remove the database directory (--rebuild), opens  *)
(* it, parses, merges, saves the metadata and closes it.  It may fail at   *)
(* every step, and the whole process may be killed.  Several commands run  *)
(* one after the other; the single mode is one repository.                 *)
(***************************************************************************)
EXTENDS Integers, FiniteSets

CONSTANTS
  Repos,       \* repositories, each with a database directory of its own
  Found,       \* directories the first command may meet
  MaxRuns      \* bound: commands

Markers == {"MANIFEST", "KEYREGISTRY", "data"}
Entries == Markers \cup {"LOCK", "other"}
Stages == {"idle", "check", "remove", "open", "parse", "merge", "save", "gc"}

\* A database directory: whether it exists, what a listing shows while nobody has it open,
\* whose declarations and metadata it holds.
Dirs == [exists : BOOLEAN, entries : SUBSET Entries,
         graph : SUBSET {"old", "part", "new"}, meta : {"none", "old", "new"}]

Absent == [exists |-> FALSE, entries |-> {}, graph |-> {}, meta |-> "none"]

\* looksLikeBadgerDBDir, validateExistingRebuildDir.
Complete(d) == Markers \subseteq d.entries
Removable(d) == d.exists => d.entries = {} \/ Complete(d)

\* The first command finds what earlier ones left, whole or half made, metadata with their
\* graph, or a directory somebody else filled.
AnalyzeAssumption ==
  /\ Found \subseteq Dirs /\ MaxRuns \in Nat
  /\ \A d \in Found :
       /\ ~d.exists => d = Absent
       /\ "new" \notin d.graph /\ d.meta # "new"
       /\ d.meta = "old" => "old" \in d.graph

VARIABLES
  dir,         \* the directory of each repository
  pc,          \* stage of each worker
  result,      \* what a worker returned: "none", "ok", "error"
  lock,        \* repositories whose store is open
  rebuild,     \* the flag of the command
  command,     \* "idle", "running", "ok", "error", "killed"
  cancelled,   \* groupCtx.Done
  runs,
  atStart,     \* history: the directories when the command began
  torn,        \* history: directories whose removal, or the making of whose files, was cut short
  refused      \* history: repositories whose rebuild was refused

vars == <<dir, pc, result, lock, rebuild, command, cancelled, runs, atStart, torn, refused>>

Init ==
  /\ dir \in [Repos -> Found] /\ atStart = dir
  /\ pc = [r \in Repos |-> "idle"] /\ result = [r \in Repos |-> "none"]
  /\ lock = {} /\ rebuild = FALSE /\ command = "idle" /\ cancelled = FALSE /\ runs = 0
  /\ torn = {r \in Repos : ~Removable(dir[r]) /\ "other" \notin dir[r].entries} /\ refused = {}

\* What an earlier command left is old.
Aged(d) == [d EXCEPT !.graph = {IF x = "new" THEN "old" ELSE x : x \in @},
                     !.meta = IF @ = "new" THEN "old" ELSE @]

Start ==
  /\ command # "running" /\ runs < MaxRuns
  /\ command' = "running" /\ cancelled' = FALSE /\ runs' = runs + 1
  /\ \E flag \in BOOLEAN :
       /\ rebuild' = flag
       /\ pc' = [r \in Repos |-> IF flag THEN "check" ELSE "open"]
  /\ result' = [r \in Repos |-> "none"]
  /\ dir' = [r \in Repos |-> Aged(dir[r])] /\ atStart' = dir'
  /\ refused' = {}
  /\ UNCHANGED <<lock, torn>>

-----------------------------------------------------------------------------
(* analyzeWorkspaceRepo.                                                   *)

Goto(r, stage) == pc' = [pc EXCEPT ![r] = stage]

\* A worker returns; the deferred Close runs, the first error cancels the others.
Return(r, outcome) ==
  /\ Goto(r, "idle") /\ result' = [result EXCEPT ![r] = outcome]
  /\ cancelled' = (cancelled \/ outcome = "error") /\ lock' = lock \ {r}

\* rebuildBadgerDBPath: check, then os.RemoveAll entry by entry.
Check(r) ==
  /\ pc[r] = "check"
  /\ IF Removable(dir[r])
     THEN Goto(r, "remove") /\ UNCHANGED <<result, lock, cancelled, refused>>
     ELSE Return(r, "error") /\ refused' = refused \cup {r}
  /\ UNCHANGED <<dir, rebuild, command, runs, atStart, torn>>

Remove(r) ==
  /\ pc[r] = "remove"
  /\ dir' = [dir EXCEPT ![r] = Absent] /\ torn' = torn \ {r}
  /\ Goto(r, "open")
  /\ UNCHANGED <<result, lock, rebuild, command, cancelled, runs, atStart, refused>>

\* Some entries are gone; the data are lost unless both they and the manifest stayed.
Remains(d) ==
  {[Absent EXCEPT !.exists = TRUE, !.entries = e] : e \in (SUBSET d.entries) \ {d.entries}}
  \cup {[d EXCEPT !.entries = e] : e \in {x \in (SUBSET d.entries) \ {d.entries} : {"MANIFEST", "data"} \subseteq x}}
RemoveFails(r) ==
  /\ pc[r] = "remove"
  /\ \E d \in Remains(dir[r]) : dir' = [dir EXCEPT ![r] = d]
  /\ torn' = torn \cup {r}
  /\ Return(r, "error")
  /\ UNCHANGED <<rebuild, command, runs, atStart, refused>>

\* NewBadgerStorage locks whatever directory there is and makes the files that it lacks;
\* Badger may take such a directory for a new database or refuse it.  The file LOCK goes
\* when the database is closed.
Opened(d) == [d EXCEPT !.exists = TRUE, !.entries = (@ \ {"LOCK"}) \cup Markers]
Open(r) ==
  /\ pc[r] = "open"
  /\ dir' = [dir EXCEPT ![r] = Opened(@)] /\ torn' = torn \ {r}
  /\ lock' = lock \cup {r} /\ Goto(r, "parse")
  /\ UNCHANGED <<result, rebuild, command, cancelled, runs, atStart, refused>>

\* It was cut short: the manifest comes first, the data come last.
Beginnings == {{}, {"MANIFEST"}, {"MANIFEST", "KEYREGISTRY"}, Markers}
HalfMade(d) == {[d EXCEPT !.exists = TRUE, !.entries = (@ \ {"LOCK"}) \cup files] : files \in Beginnings}
OpenFails(r) ==
  /\ pc[r] = "open"
  /\ \E d \in HalfMade(dir[r]) \ {dir[r]} : dir' = [dir EXCEPT ![r] = d]
  /\ torn' = IF Complete(dir[r]) THEN torn ELSE torn \cup {r}
  /\ Return(r, "error")
  /\ UNCHANGED <<rebuild, command, runs, atStart, refused>>

\* BuildFromParseResult.
Merge(r) ==
  /\ pc[r] = "merge" /\ ~cancelled
  /\ dir' = [dir EXCEPT ![r].graph = @ \cup {"new"}]
  /\ Goto(r, "save")
  /\ UNCHANGED <<result, lock, rebuild, command, cancelled, runs, atStart, torn, refused>>

\* Some batches were written.
PartlyMerged(d) == [d EXCEPT !.graph = @ \cup {"part"}]
MergeFails(r) ==
  /\ pc[r] = "merge"
  /\ dir' = [dir EXCEPT ![r] = PartlyMerged(@)]
  /\ Return(r, "error")
  /\ UNCHANGED <<rebuild, command, runs, atStart, torn, refused>>

Parse(r) ==
  /\ pc[r] = "parse" /\ ~cancelled
  /\ Goto(r, "merge")
  /\ UNCHANGED <<dir, result, lock, rebuild, command, cancelled, runs, atStart, torn, refused>>

Save(r) ==
  /\ pc[r] = "save" /\ ~cancelled
  /\ dir' = [dir EXCEPT ![r].meta = "new"]
  /\ Goto(r, "gc")
  /\ UNCHANGED <<result, lock, rebuild, command, cancelled, runs, atStart, torn, refused>>

\* The garbage collection of the value log, then the summary.
Done(r) ==
  /\ pc[r] = "gc" /\ Return(r, "ok")
  /\ UNCHANGED <<dir, rebuild, command, runs, atStart, torn, refused>>

\* An error that changes nothing: the path, go.mod, the first entry of a directory that is
\* to be removed, Badger, the parser, the context.
Fails(r) ==
  /\ pc[r] \in {"check", "remove", "open", "parse", "merge", "save", "gc"} /\ Return(r, "error")
  /\ UNCHANGED <<dir, rebuild, command, runs, atStart, torn, refused>>

-----------------------------------------------------------------------------
\* group.Wait.  Faulty variant: results of some repositories are enough.
WaitForSome ==
  /\ command = "running" /\ \A r \in Repos : pc[r] = "idle"
  /\ command' = IF \E r \in Repos : result[r] = "ok" THEN "ok" ELSE "error"
  /\ UNCHANGED <<dir, pc, result, lock, rebuild, cancelled, runs, atStart, torn, refused>>
Wait ==
  /\ command = "running" /\ \A r \in Repos : pc[r] = "idle"
  /\ command' = IF \A r \in Repos : result[r] = "ok" THEN "ok" ELSE "error"
  /\ UNCHANGED <<dir, pc, result, lock, rebuild, cancelled, runs, atStart, torn, refused>>

\* What a removal, an opening or a merge leaves that is cut short; LOCK stays.
Locked(d) == [d EXCEPT !.entries = @ \cup {"LOCK"}]
LeftBy(r) ==
  (IF r \in lock THEN {Locked(dir[r])} ELSE {dir[r]})
  \cup (IF pc[r] = "remove" THEN Remains(dir[r]) ELSE {})
  \cup (IF pc[r] = "open" THEN {Locked(d) : d \in HalfMade(dir[r])} ELSE {})
  \cup (IF pc[r] = "merge" THEN {PartlyMerged(Locked(dir[r]))} ELSE {})

\* The process dies.
Killed ==
  /\ command = "running"
  /\ LET cut == {r \in Repos : pc[r] \in {"remove", "open", "merge"}}
     IN  \E left \in [cut -> UNION {LeftBy(r) : r \in cut}] :
           /\ \A r \in cut : left[r] \in LeftBy(r)
           /\ dir' = [r \in Repos |-> IF r \in cut THEN left[r] ELSE IF r \in lock THEN Locked(dir[r]) ELSE dir[r]]
  /\ torn' = torn \cup {r \in Repos : /\ dir'[r] # dir[r]
                                      /\ pc[r] = "remove" \/ (pc[r] = "open" /\ ~Complete(dir[r]))}
  /\ command' = "killed" /\ lock' = {} /\ pc' = [r \in Repos |-> "idle"]
  /\ UNCHANGED <<result, rebuild, cancelled, runs, atStart, refused>>

Worker(r) ==
  \/ Check(r) \/ Remove(r) \/ RemoveFails(r) \/ Open(r) \/ OpenFails(r) \/ Parse(r) \/ Merge(r) \/ MergeFails(r)
  \/ Save(r) \/ Done(r) \/ Fails(r)

Next == Start \/ Wait \/ Killed \/ \E r \in Repos : Worker(r)

Spec == Init /\ [][Next]_vars

-----------------------------------------------------------------------------
TypeOK ==
  /\ dir \in [Repos -> Dirs] /\ atStart \in [Repos -> Dirs]
  /\ pc \in [Repos -> Stages] /\ result \in [Repos -> {"none", "ok", "error"}]
  /\ lock \subseteq Repos /\ rebuild \in BOOLEAN /\ cancelled \in BOOLEAN
  /\ command \in {"idle", "running", "ok", "error", "killed"}
  /\ runs \in 0..MaxRuns /\ torn \subseteq Repos /\ refused \subseteq Repos
  /\ \A r \in Repos : ~dir[r].exists => dir[r] = Absent

\* "Workspace analysis complete" is only said when every repository has the whole new
\* graph and the metadata of this run, after a rebuild nothing else.
SuccessIsComplete ==
  command = "ok" => \A r \in Repos :
    /\ dir[r].meta = "new" /\ "new" \in dir[r].graph
    /\ rebuild => dir[r].graph = {"new"}

\* Whatever fails, is cancelled or killed: metadata are those of a graph that was merged
\* whole, in this run or in an earlier one.
MetaNeverAhead ==
  \A r \in Repos :
    /\ dir[r].meta = "new" => "new" \in dir[r].graph
    /\ dir[r].meta = "old" => "old" \in dir[r].graph

\* The command leaves no database open, cancelled workers included.
ReleasesLocks == command # "running" => lock = {}

\* A rebuild is refused only for files that are not Badger's, or because a removal, or the
\* opening that makes the files, failed or was killed half way.  A database that was opened
\* once can be made again, whatever fails, is cancelled or killed while it is used.
RefusedOnlyIfTorn ==
  \A r \in refused : r \in torn \/ "other" \in dir[r].entries

\* A refused rebuild leaves the directory as the command found it, "refusing to rebuild
\* non-empty directory".
RefusalKeeps == \A r \in refused : command = "running" => dir[r] = atStart[r]
=============================================================================
