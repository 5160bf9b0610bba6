-------------------------- MODULE AnalyzeRunProofs --------------------------
(***************************************************************************)
(* Whatever fails, is cancelled, refused or killed, in any number of       *)
(* commands over any number of repositories: an analysis that ends well    *)
(* has stored everything, metadata never describe a graph that is not      *)
(* whole, no database stays open, and what was opened once can be removed. *)
(***************************************************************************)
EXTENDS AnalyzeRun, TLAPS

Holding == {"parse", "merge", "save", "gc"}

\* What the argument needs to know of the types.
Shapes ==
  /\ dir \in [Repos -> Dirs] /\ atStart \in [Repos -> Dirs]
  /\ pc \in [Repos -> Stages] /\ result \in [Repos -> {"none", "ok", "error"}]
  /\ lock \subseteq Repos /\ rebuild \in BOOLEAN /\ cancelled \in BOOLEAN
  /\ command \in {"idle", "running", "ok", "error", "killed"}
  /\ runs \in 0..MaxRuns /\ torn \subseteq Repos /\ refused \subseteq Repos

\* A directory that is not there is empty; metadata describe a graph that was merged whole.
Sound(d) ==
  /\ ~d.exists => d = Absent
  /\ d.meta = "new" => "new" \in d.graph
  /\ d.meta = "old" => "old" \in d.graph

\* The whole new graph, and after a rebuild nothing else.
Whole(d) == "new" \in d.graph /\ (rebuild => d.graph = {"new"})

\* How far a worker is says what its directory holds and whether it has it open.
Stage(r) ==
  /\ result[r] # "none" \/ r \in refused => pc[r] = "idle"
  /\ r \in lock => pc[r] \in Holding
  /\ pc[r] \in Holding => dir[r].exists /\ Complete(dir[r])
  /\ pc[r] = "check" \/ r \in refused => dir[r] = atStart[r]
  /\ rebuild /\ pc[r] \in {"open", "parse", "merge"} => dir[r].graph = {}
  /\ pc[r] \in {"save", "gc"} \/ result[r] = "ok" => Whole(dir[r])
  /\ pc[r] = "gc" \/ result[r] = "ok" => dir[r].meta = "new"

\* What may stand in the way of a rebuild.
Obstacle(r) ==
  /\ Removable(dir[r]) \/ r \in torn \/ "other" \in dir[r].entries
  /\ r \in refused => r \in torn \/ "other" \in dir[r].entries

Workers == \A r \in Repos : Sound(dir[r]) /\ Stage(r) /\ Obstacle(r)

\* Workers run while the command does, and a command that ended well had no other results.
Command ==
  /\ command # "running" => \A r \in Repos : pc[r] = "idle"
  /\ command = "ok" => \A r \in Repos : result[r] = "ok"

IInv == Shapes /\ Workers /\ Command

\* The initial states satisfy the invariant.
LEMMA InitHolds == ASSUME AnalyzeAssumption, Init PROVE IInv
<1>1. Shapes
  <2>1. 0 \in 0..MaxRuns
    BY DEF AnalyzeAssumption
  <2> QED BY <2>1 DEF AnalyzeAssumption, Init, Shapes, Stages
<1>2. Workers
  <2> SUFFICES ASSUME NEW r \in Repos PROVE Sound(dir[r]) /\ Stage(r) /\ Obstacle(r)
    BY DEF Workers
  <2>1. dir[r] \in Found
    BY DEF Init
  <2>2. Sound(dir[r]) /\ Obstacle(r)
    BY <2>1 DEF AnalyzeAssumption, Init, Sound, Obstacle
  <2>3. pc[r] = "idle" /\ result[r] = "none" /\ lock = {} /\ refused = {}
    BY DEF Init
  <2>4. Stage(r)
    BY <2>3 DEF Stage, Holding
  <2> QED BY <2>2, <2>4
<1>3. Command
  BY DEF Init, Command
<1> QED BY <1>1, <1>2, <1>3 DEF IInv

\* What a removal that was cut short leaves is sound.
LEMMA RemainsSound ==
  ASSUME NEW d \in Dirs, Sound(d), NEW x \in Remains(d)
  PROVE x \in Dirs /\ Sound(x)
<1>1. ASSUME NEW e \in (SUBSET d.entries) \ {d.entries}, x = [Absent EXCEPT !.exists = TRUE, !.entries = e]
      PROVE x \in Dirs /\ Sound(x)
  <2>1. e \in SUBSET Entries
    BY DEF Dirs
  <2>2. x = [exists |-> TRUE, entries |-> e, graph |-> {}, meta |-> "none"]
    BY <1>1 DEF Absent
  <2> QED BY <2>1, <2>2 DEF Dirs, Sound
<1>2. ASSUME NEW e \in (SUBSET d.entries) \ {d.entries}, x = [d EXCEPT !.entries = e]
      PROVE x \in Dirs /\ Sound(x)
  <2>1. d.exists
    BY <1>2 DEF Absent, Sound
  <2>2. /\ x \in Dirs /\ x.exists /\ x.graph = d.graph /\ x.meta = d.meta
    BY <1>2, <2>1 DEF Dirs
  <2> QED BY <2>2 DEF Sound
<1> QED BY <1>1, <1>2 DEF Remains

\* What an opening that was cut short leaves is sound, and complete if it was.
LEMMA HalfMadeSound ==
  ASSUME NEW d \in Dirs, Sound(d), NEW x \in HalfMade(d)
  PROVE x \in Dirs /\ Sound(x) /\ x.graph = d.graph /\ (Complete(d) => Complete(x))
<1>1. PICK files \in Beginnings : x = [d EXCEPT !.exists = TRUE, !.entries = (@ \ {"LOCK"}) \cup files]
  BY DEF HalfMade
<1>2. files \subseteq Entries
  BY DEF Beginnings, Entries, Markers
<1>3. /\ x \in Dirs /\ x.exists /\ x.graph = d.graph /\ x.meta = d.meta
      /\ x.entries = (d.entries \ {"LOCK"}) \cup files
  BY <1>1, <1>2 DEF Dirs
<1> QED BY <1>3 DEF Sound, Complete, Markers

\* LOCK says nothing of the other files.
LEMMA LockedSound ==
  ASSUME NEW d \in Dirs, Sound(d), d.exists
  PROVE /\ Locked(d) \in Dirs /\ Sound(Locked(d)) /\ Locked(d).graph = d.graph /\ Locked(d).meta = d.meta
        /\ Locked(d).exists /\ Locked(d).entries = d.entries \cup {"LOCK"}
        /\ (Complete(d) => Complete(Locked(d)))
<1>1. /\ Locked(d) \in Dirs /\ Locked(d).exists /\ Locked(d).graph = d.graph /\ Locked(d).meta = d.meta
      /\ Locked(d).entries = d.entries \cup {"LOCK"}
  BY DEF Locked, Dirs, Entries
<1> QED BY <1>1 DEF Sound, Complete

\* A part of a merge leaves files and metadata as they are.
LEMMA PartlyMergedSound ==
  ASSUME NEW d \in Dirs, Sound(d), d.exists
  PROVE /\ PartlyMerged(d) \in Dirs /\ Sound(PartlyMerged(d)) /\ PartlyMerged(d).exists
        /\ PartlyMerged(d).entries = d.entries
<1>1. /\ PartlyMerged(d) \in Dirs /\ PartlyMerged(d).exists /\ PartlyMerged(d).graph = d.graph \cup {"part"}
      /\ PartlyMerged(d).meta = d.meta /\ PartlyMerged(d).entries = d.entries
  BY DEF PartlyMerged, Dirs
<1> QED BY <1>1 DEF Sound

\* A step of one worker concerns nobody else.
LEMMA OneWorker ==
  ASSUME IInv, command = "running", NEW r \in Repos, NEW d \in Dirs, NEW stage \in Stages,
         NEW outcome \in {"none", "ok", "error"},
         dir' = [dir EXCEPT ![r] = d], pc' = [pc EXCEPT ![r] = stage],
         result' = [result EXCEPT ![r] = outcome],
         lock' \subseteq Repos, lock' \ {r} = lock \ {r},
         torn' \subseteq Repos, torn' \ {r} = torn \ {r},
         refused' \subseteq Repos, refused' \ {r} = refused \ {r},
         cancelled' \in BOOLEAN, UNCHANGED <<rebuild, command, runs, atStart>>,
         Sound(d), Stage(r)', Obstacle(r)'
  PROVE IInv'
<1>1. Shapes'
  BY DEF IInv, Shapes
<1>2. Workers'
  <2> SUFFICES ASSUME NEW s \in Repos PROVE Sound(dir'[s]) /\ Stage(s)' /\ Obstacle(s)'
    BY DEF Workers
  <2>1. CASE s = r
    BY <2>1 DEF IInv, Shapes
  <2>2. CASE s # r
    <3>1. /\ dir'[s] = dir[s] /\ pc'[s] = pc[s] /\ result'[s] = result[s]
          /\ s \in lock' <=> s \in lock
          /\ s \in torn' <=> s \in torn
          /\ s \in refused' <=> s \in refused
      BY <2>2 DEF IInv, Shapes
    <3>2. Sound(dir[s]) /\ Stage(s) /\ Obstacle(s)
      BY DEF IInv, Workers
    <3>3. Stage(s)'
      BY <3>1, <3>2 DEF Stage, Whole
    <3>4. Obstacle(s)'
      BY <3>1, <3>2 DEF Obstacle
    <3> QED BY <3>1, <3>2, <3>3, <3>4
  <2> QED BY <2>1, <2>2
<1>3. Command'
  BY DEF Command
<1> QED BY <1>1, <1>2, <1>3 DEF IInv

\* A worker that returns: its store is closed, and what it returns says what its directory
\* holds.
LEMMA OneReturns ==
  ASSUME IInv, command = "running", NEW r \in Repos, pc[r] # "idle", NEW d \in Dirs,
         NEW outcome \in {"ok", "error"}, Return(r, outcome),
         dir' = [dir EXCEPT ![r] = d], torn' \in {torn, torn \cup {r}},
         refused' \in {refused, refused \cup {r}}, UNCHANGED <<rebuild, command, runs, atStart>>,
         Sound(d),
         outcome = "ok" => Whole(d) /\ d.meta = "new",
         Removable(d) \/ r \in torn' \/ "other" \in d.entries,
         refused' # refused => d = atStart[r] /\ (r \in torn' \/ "other" \in d.entries)
  PROVE IInv'
<1>1. /\ dir'[r] = d /\ pc'[r] = "idle" /\ result'[r] = outcome /\ r \notin lock'
      /\ lock' \subseteq Repos /\ lock' \ {r} = lock \ {r}
      /\ cancelled' \in BOOLEAN
  BY DEF IInv, Shapes, Return, Goto
<1>2. r \notin refused
  BY DEF IInv, Workers, Stage
<1>3. Stage(r)'
  BY <1>1, <1>2 DEF Stage, Whole, Holding
<1>4. Obstacle(r)'
  BY <1>1, <1>2 DEF Obstacle
<1>5. torn' \subseteq Repos /\ torn' \ {r} = torn \ {r} /\ refused' \subseteq Repos /\ refused' \ {r} = refused \ {r}
  BY DEF IInv, Shapes
<1>6. /\ pc' = [pc EXCEPT ![r] = "idle"] /\ result' = [result EXCEPT ![r] = outcome]
      /\ "idle" \in Stages
  BY DEF Return, Goto, Stages
<1> QED BY <1>1, <1>3, <1>4, <1>5, <1>6, OneWorker

\* A worker that goes on.
LEMMA OneGoesOn ==
  ASSUME IInv, command = "running", NEW r \in Repos, pc[r] # "idle", NEW d \in Dirs,
         NEW stage \in Stages \ {"idle", "check"}, Goto(r, stage),
         dir' = [dir EXCEPT ![r] = d], torn' \in {torn, torn \ {r}},
         lock' \in {lock, lock \cup {r}}, UNCHANGED <<result, rebuild, command, cancelled, runs, atStart, refused>>,
         Sound(d),
         r \in lock' => stage \in Holding,
         stage \in Holding => d.exists /\ Complete(d),
         rebuild /\ stage \in {"open", "parse", "merge"} => d.graph = {},
         stage \in {"save", "gc"} => Whole(d),
         stage = "gc" => d.meta = "new",
         Removable(d) \/ r \in torn' \/ "other" \in d.entries
  PROVE IInv'
<1>1. /\ result[r] = "none" /\ r \notin refused
  BY DEF IInv, Shapes, Workers, Stage
<1>2. dir'[r] = d /\ pc'[r] = stage
  BY DEF IInv, Shapes, Goto
<1>3. Stage(r)'
  BY <1>1, <1>2 DEF Stage, Whole
<1>4. Obstacle(r)'
  BY <1>1, <1>2 DEF Obstacle
<1>5. /\ lock' \subseteq Repos /\ lock' \ {r} = lock \ {r} /\ torn' \subseteq Repos /\ torn' \ {r} = torn \ {r}
      /\ refused' \subseteq Repos /\ refused' \ {r} = refused \ {r} /\ cancelled' \in BOOLEAN
      /\ result' = [result EXCEPT ![r] = "none"]
  BY <1>1 DEF IInv, Shapes
<1> QED BY <1>3, <1>4, <1>5, OneWorker DEF Goto

\* Workers exist while the command runs.
LEMMA WorkersRun ==
  ASSUME IInv, NEW r \in Repos, pc[r] # "idle"
  PROVE /\ command = "running" /\ dir[r] \in Dirs /\ dir = [dir EXCEPT ![r] = dir[r]]
        /\ Sound(dir[r]) /\ Stage(r) /\ Obstacle(r) /\ result[r] = "none" /\ r \notin refused
  BY DEF IInv, Shapes, Workers, Command, Stage

LEMMA WorkerKeeps ==
  ASSUME IInv, NEW r \in Repos, Worker(r)
  PROVE IInv'
<1>0. pc[r] # "idle"
  BY DEF Worker, Check, Remove, RemoveFails, Open, OpenFails, Parse, Merge, MergeFails, Save, Done, Fails
<1> USE <1>0, WorkersRun
<1>1. CASE Check(r)
  <2>1. CASE Removable(dir[r])
    BY <1>1, <2>1, OneGoesOn DEF Check, Stage, Obstacle, Stages, Holding
  <2>2. CASE ~Removable(dir[r])
    <3>1. Return(r, "error") /\ refused' = refused \cup {r} /\ torn' = torn /\ dir' = dir
      BY <1>1, <2>2 DEF Check
    <3>2. dir[r] = atStart[r] /\ (r \in torn' \/ "other" \in dir[r].entries)
      BY <1>1, <2>2, <3>1 DEF Check, Stage, Obstacle
    <3> QED BY <1>1, <3>1, <3>2, OneReturns DEF Check
  <2> QED BY <2>1, <2>2
<1>2. CASE Remove(r)
  <2>1. Absent \in Dirs /\ Sound(Absent) /\ Removable(Absent) /\ Absent.graph = {}
    BY DEF Absent, Dirs, Sound, Removable
  <2>2. r \notin lock
    BY <1>2 DEF Remove, Stage, Holding
  <2>3. /\ "open" \in Stages \ {"idle", "check"} /\ "open" \notin Holding
    BY DEF Stages, Holding
  <2>4. /\ Goto(r, "open") /\ dir' = [dir EXCEPT ![r] = Absent] /\ torn' = torn \ {r} /\ lock' = lock
        /\ UNCHANGED <<result, rebuild, command, cancelled, runs, atStart, refused>>
    BY <1>2 DEF Remove
  <2> QED BY <2>1, <2>2, <2>3, <2>4, OneGoesOn
<1>3. CASE RemoveFails(r)
  <2>1. PICK d \in Remains(dir[r]) : dir' = [dir EXCEPT ![r] = d]
    BY <1>3 DEF RemoveFails
  <2>2. d \in Dirs /\ Sound(d)
    BY RemainsSound
  <2> QED BY <1>3, <2>1, <2>2, OneReturns DEF RemoveFails
<1>4. CASE Open(r)
  <2> DEFINE d == Opened(dir[r])
  <2>1. /\ d \in Dirs /\ Markers \subseteq d.entries /\ d.exists
        /\ d.graph = dir[r].graph /\ d.meta = dir[r].meta
    BY DEF Opened, Dirs, Entries
  <2>2. Sound(d) /\ Removable(d) /\ Complete(d)
    BY <2>1 DEF Sound, Removable, Complete
  <2>3. dir' = [dir EXCEPT ![r] = d]
    BY <1>4 DEF Open, IInv, Shapes
  <2>4. rebuild => d.graph = {}
    BY <1>4, <2>1 DEF Open, Stage
  <2> HIDE DEF d
  <2> QED BY <1>4, <2>1, <2>2, <2>3, <2>4, OneGoesOn DEF Open, Stages, Holding
<1>5. CASE Parse(r)
  BY <1>5, OneGoesOn DEF Parse, Stage, Obstacle, Stages, Holding
<1>6. CASE Merge(r)
  <2> DEFINE d == [dir[r] EXCEPT !.graph = @ \cup {"new"}]
  <2>1. /\ d \in Dirs /\ d.entries = dir[r].entries /\ d.exists
        /\ d.graph = dir[r].graph \cup {"new"} /\ d.meta = dir[r].meta
    BY <1>6 DEF Merge, Dirs, Stage, Holding
  <2>2. dir' = [dir EXCEPT ![r] = d]
    BY <1>6 DEF Merge, IInv, Shapes
  <2>3. Whole(d)
    BY <1>6, <2>1 DEF Merge, Stage, Whole
  <2> HIDE DEF d
  <2>4. Complete(d) /\ Removable(d)
    BY <1>6, <2>1 DEF Merge, Stage, Holding, Removable, Complete
  <2>5. Sound(d)
    BY <2>1 DEF Sound
  <2> QED BY <1>6, <2>1, <2>2, <2>3, <2>4, <2>5, OneGoesOn DEF Merge, Stages, Holding
<1>7. CASE MergeFails(r)
  <2> DEFINE d == PartlyMerged(dir[r])
  <2>1. dir[r].exists
    BY <1>7 DEF MergeFails, Stage, Holding
  <2>2. d \in Dirs /\ Sound(d) /\ d.exists /\ d.entries = dir[r].entries
    BY <2>1, PartlyMergedSound
  <2>3. dir' = [dir EXCEPT ![r] = d]
    BY <1>7 DEF MergeFails, IInv, Shapes
  <2> HIDE DEF d
  <2>4. Removable(d) \/ r \in torn \/ "other" \in d.entries
    BY <2>1, <2>2 DEF Obstacle, Removable, Complete
  <2> QED BY <1>7, <2>2, <2>3, <2>4, OneReturns DEF MergeFails
<1>8. CASE Save(r)
  <2> DEFINE d == [dir[r] EXCEPT !.meta = "new"]
  <2>1. /\ d \in Dirs /\ d.entries = dir[r].entries /\ d.exists /\ dir[r].exists
        /\ d.graph = dir[r].graph /\ d.meta = "new" /\ Complete(dir[r])
    BY <1>8 DEF Save, Dirs, Stage, Holding
  <2>2. dir' = [dir EXCEPT ![r] = d]
    BY <1>8 DEF Save, IInv, Shapes
  <2>3. Whole(d)
    BY <1>8, <2>1 DEF Save, Stage, Whole
  <2> HIDE DEF d
  <2>4. Complete(d) /\ Removable(d)
    BY <2>1 DEF Removable, Complete
  <2>5. Sound(d)
    BY <2>1, <2>3 DEF Sound, Whole
  <2> QED BY <1>8, <2>1, <2>2, <2>3, <2>4, <2>5, OneGoesOn DEF Save, Stages, Holding
<1>9. CASE Done(r)
  BY <1>9, OneReturns DEF Done, Stage, Obstacle
<1>10. CASE Fails(r)
  BY <1>10, OneReturns DEF Fails, Stage, Obstacle
<1>11. CASE OpenFails(r)
  <2>1. PICK d \in HalfMade(dir[r]) \ {dir[r]} : dir' = [dir EXCEPT ![r] = d]
    BY <1>11 DEF OpenFails
  <2>2. d \in Dirs /\ Sound(d) /\ (Complete(dir[r]) => Complete(d))
    BY HalfMadeSound
  <2>3. torn' = IF Complete(dir[r]) THEN torn ELSE torn \cup {r}
    BY <1>11 DEF OpenFails
  <2>4. Removable(d) \/ r \in torn'
    BY <2>2, <2>3 DEF Removable
  <2> QED BY <1>11, <2>1, <2>2, <2>3, <2>4, OneReturns DEF OpenFails
<1> QED BY <1>1, <1>2, <1>3, <1>4, <1>5, <1>6, <1>7, <1>8, <1>9, <1>10, <1>11 DEF Worker

LEMMA FieldsOfAbsent ==
  ASSUME NEW d \in Dirs, d.exists = FALSE, d.entries = {}, d.graph = {}, d.meta = "none"
  PROVE d = Absent
  BY DEF Dirs, Absent

\* A command begins when all workers are gone, and calls what it finds old.
LEMMA StartKeeps ==
  ASSUME AnalyzeAssumption, IInv, Start
  PROVE IInv'
<1>1. PICK flag \in BOOLEAN :
        rebuild' = flag /\ pc' = [r \in Repos |-> IF flag THEN "check" ELSE "open"]
  BY DEF Start
<1>2. ASSUME NEW r \in Repos
      PROVE /\ dir'[r] = Aged(dir[r]) /\ Aged(dir[r]) \in Dirs
            /\ Sound(Aged(dir[r])) /\ (Removable(dir[r]) => Removable(Aged(dir[r])))
            /\ Aged(dir[r]).entries = dir[r].entries
  <2> DEFINE d == dir[r]
             g == {IF x = "new" THEN "old" ELSE x : x \in d.graph}
             m == IF d.meta = "new" THEN "old" ELSE d.meta
  <2>1. d \in Dirs /\ Sound(d)
    BY DEF IInv, Shapes, Workers
  <2>2. g \in SUBSET {"old", "part", "new"} /\ m \in {"none", "old", "new"}
    BY <2>1 DEF Dirs
  <2>3. m # "new" /\ (m = "old" => "old" \in g) /\ ("new" \notin g)
    BY <2>1 DEF Dirs, Sound
  <2>4. d = Absent => g = {} /\ m = "none"
    BY DEF Absent
  <2>5. Aged(d) = [d EXCEPT !.graph = g, !.meta = m]
    BY DEF Aged
  <2> HIDE DEF g, m
  <2>6. /\ Aged(d) \in Dirs /\ Aged(d).exists = d.exists /\ Aged(d).entries = d.entries
        /\ Aged(d).graph = g /\ Aged(d).meta = m
    BY <2>1, <2>2, <2>5 DEF Dirs
  <2>7. ~d.exists => Aged(d) = Absent
    <3> SUFFICES ASSUME ~d.exists PROVE Aged(d) = Absent
      OBVIOUS
    <3>1. d = Absent /\ g = {} /\ m = "none"
      BY <2>1, <2>4 DEF Sound
    <3>2. d.exists = FALSE /\ d.entries = {}
      BY <3>1 DEF Absent
    <3> QED BY <2>6, <3>1, <3>2, FieldsOfAbsent
  <2>8. Sound(Aged(d))
    BY <2>3, <2>6, <2>7 DEF Sound
  <2> QED BY <2>6, <2>8 DEF Start, Removable, Complete
<1>3. Shapes'
  <2>1. dir' \in [Repos -> Dirs] /\ atStart' \in [Repos -> Dirs]
    BY <1>2 DEF Start
  <2>2. pc' \in [Repos -> Stages]
    BY <1>1 DEF Stages
  <2>3. runs' \in 0..MaxRuns
    BY DEF Start, IInv, Shapes, AnalyzeAssumption
  <2> QED BY <1>1, <2>1, <2>2, <2>3 DEF Start, IInv, Shapes
<1>4. Workers'
  <2> SUFFICES ASSUME NEW r \in Repos PROVE Sound(dir'[r]) /\ Stage(r)' /\ Obstacle(r)'
    BY DEF Workers
  <2>1. r \notin lock' /\ result'[r] = "none" /\ r \notin refused' /\ dir'[r] = atStart'[r]
    BY DEF Start, IInv, Workers, Command, Stage, Holding
  <2>2. pc'[r] = IF rebuild' THEN "check" ELSE "open"
    BY <1>1
  <2>3. Stage(r)'
    BY <1>1, <2>1, <2>2 DEF Stage, Holding
  <2>4. Obstacle(r)'
    BY <1>2, <2>1 DEF Start, IInv, Workers, Obstacle
  <2> QED BY <1>2, <2>3, <2>4
<1>5. Command'
  BY DEF Start, Command
<1> QED BY <1>3, <1>4, <1>5 DEF IInv

\* What a worker leaves that dies is as it was, or removable, or its removal or the making
\* of its files was cut short.
LEMMA LeftBehind ==
  ASSUME IInv, NEW r \in Repos, pc[r] \in {"remove", "open", "merge"}, NEW x \in LeftBy(r)
  PROVE /\ x \in Dirs /\ Sound(x)
        /\ x = dir[r] \/ Removable(x) \/ pc[r] = "remove" \/ (pc[r] = "open" /\ ~Complete(dir[r]))
<1>1. /\ dir[r] \in Dirs /\ Sound(dir[r])
      /\ r \in lock => pc[r] \in Holding
      /\ pc[r] \in Holding => dir[r].exists /\ Complete(dir[r])
  BY DEF IInv, Shapes, Workers, Stage
<1>2. CASE x = dir[r]
  BY <1>1, <1>2
<1>3. CASE r \in lock /\ x = Locked(dir[r])
  BY <1>1, <1>3, LockedSound DEF Removable
<1>4. CASE pc[r] = "remove" /\ x \in Remains(dir[r])
  BY <1>1, <1>4, RemainsSound
<1>5. CASE pc[r] = "open" /\ x \in {Locked(d) : d \in HalfMade(dir[r])}
  <2>1. PICK d \in HalfMade(dir[r]) : x = Locked(d)
    BY <1>5
  <2>2. d \in Dirs /\ Sound(d) /\ (Complete(dir[r]) => Complete(d))
    BY <1>1, HalfMadeSound
  <2>3. d.exists
    BY <1>1, <2>1 DEF HalfMade, Dirs
  <2>4. x \in Dirs /\ Sound(x) /\ (Complete(d) => Complete(x))
    BY <2>1, <2>2, <2>3, LockedSound
  <2> QED BY <1>5, <2>2, <2>4 DEF Removable
<1>6. CASE pc[r] = "merge" /\ x = PartlyMerged(Locked(dir[r]))
  <2>1. dir[r].exists /\ Complete(dir[r])
    BY <1>1, <1>6 DEF Holding
  <2> DEFINE d == Locked(dir[r])
  <2>2. d \in Dirs /\ Sound(d) /\ d.exists /\ Complete(d)
    BY <1>1, <2>1, LockedSound
  <2> HIDE DEF d
  <2>3. x = PartlyMerged(d)
    BY <1>6 DEF d
  <2> QED BY <2>2, <2>3, PartlyMergedSound DEF Removable, Complete
<1> QED BY <1>2, <1>3, <1>4, <1>5, <1>6 DEF LeftBy

\* The process dies with all its workers.
LEMMA KilledKeeps ==
  ASSUME IInv, Killed
  PROVE IInv'
<1> DEFINE cut == {r \in Repos : pc[r] \in {"remove", "open", "merge"}}
<1>1. PICK left \in [cut -> UNION {LeftBy(r) : r \in cut}] :
        /\ \A r \in cut : left[r] \in LeftBy(r)
        /\ dir' = [r \in Repos |-> IF r \in cut THEN left[r] ELSE IF r \in lock THEN Locked(dir[r]) ELSE dir[r]]
  BY DEF Killed
<1>2. /\ torn' = torn \cup {r \in Repos : /\ dir'[r] # dir[r]
                                          /\ pc[r] = "remove" \/ (pc[r] = "open" /\ ~Complete(dir[r]))}
      /\ command' = "killed" /\ lock' = {} /\ pc' = [r \in Repos |-> "idle"]
      /\ UNCHANGED <<result, rebuild, cancelled, runs, atStart, refused>>
  BY DEF Killed
<1>3. ASSUME NEW r \in Repos
      PROVE /\ dir'[r] \in Dirs /\ Sound(dir'[r])
            /\ dir'[r] = dir[r] \/ Removable(dir'[r]) \/ r \in torn'
            /\ pc[r] = "idle" => dir'[r] = dir[r]
  <2>1. /\ dir[r] \in Dirs /\ Sound(dir[r])
        /\ r \in lock => pc[r] \in Holding
        /\ pc[r] \in Holding => dir[r].exists /\ Complete(dir[r])
    BY DEF IInv, Shapes, Workers, Stage
  <2>2. CASE r \in cut
    <3>1. dir'[r] \in LeftBy(r) /\ pc[r] \in {"remove", "open", "merge"}
      BY <1>1, <2>2
    <3>2. /\ dir'[r] \in Dirs /\ Sound(dir'[r])
          /\ \/ dir'[r] = dir[r] \/ Removable(dir'[r])
             \/ pc[r] = "remove" \/ (pc[r] = "open" /\ ~Complete(dir[r]))
      BY <3>1, LeftBehind
    <3> QED BY <1>2, <3>1, <3>2
  <2>3. CASE r \notin cut /\ r \in lock
    <3>1. dir'[r] = Locked(dir[r]) /\ pc[r] # "idle"
      BY <1>1, <2>1, <2>3 DEF Holding
    <3> QED BY <2>1, <2>3, <3>1, LockedSound DEF Removable
  <2>4. CASE r \notin cut /\ r \notin lock
    BY <1>1, <2>1, <2>4
  <2> QED BY <2>2, <2>3, <2>4
<1> HIDE DEF cut
<1>4. Shapes'
  <2>1. dir' \in [Repos -> Dirs]
    BY <1>1, <1>3
  <2>2. torn' \subseteq Repos
    BY <1>2 DEF IInv, Shapes
  <2>3. pc' \in [Repos -> Stages]
    BY <1>2 DEF Stages
  <2> QED BY <1>2, <2>1, <2>2, <2>3 DEF IInv, Shapes
<1>5. Workers'
  <2> SUFFICES ASSUME NEW r \in Repos PROVE Stage(r)' /\ Obstacle(r)'
    BY <1>3 DEF Workers
  <2>1. pc'[r] = "idle" /\ r \notin lock' /\ result'[r] = result[r] /\ refused' = refused
        /\ atStart' = atStart /\ rebuild' = rebuild /\ (r \in torn => r \in torn')
    BY <1>2
  <2>2. Stage(r) /\ Obstacle(r)
    BY DEF IInv, Workers
  <2>3. Stage(r)'
    BY <1>3, <2>1, <2>2 DEF Stage, Whole, Holding
  <2>4. Obstacle(r)'
    BY <1>3, <2>1, <2>2 DEF Stage, Obstacle
  <2> QED BY <2>3, <2>4
<1>6. Command'
  BY <1>2 DEF Command
<1> QED BY <1>4, <1>5, <1>6 DEF IInv

\* Every step keeps the invariant.
LEMMA NextKeeps == ASSUME AnalyzeAssumption, IInv, [Next]_vars PROVE IInv'
<1>1. CASE Wait
  <2>1. Shapes' /\ Command'
    BY <1>1 DEF Wait, IInv, Shapes, Command
  <2>2. Workers'
    BY <1>1 DEF Wait, IInv, Workers, Stage, Obstacle, Whole
  <2> QED BY <2>1, <2>2 DEF IInv
<1>2. CASE UNCHANGED vars
  BY <1>2 DEF vars, IInv, Shapes, Workers, Command, Stage, Obstacle, Whole
<1> QED BY <1>1, <1>2, StartKeeps, KilledKeeps, WorkerKeeps DEF Next

\* The invariant holds throughout.
LEMMA IInvHolds == ASSUME AnalyzeAssumption PROVE Spec => []IInv
<1>1. Init => IInv
  BY InitHolds
<1>2. IInv /\ [Next]_vars => IInv'
  BY NextKeeps
<1> QED BY <1>1, <1>2, PTL DEF Spec

\* What the invariant says of a command that ran or ended.
LEMMA InvariantImplies ==
  ASSUME AnalyzeAssumption, IInv
  PROVE /\ TypeOK /\ SuccessIsComplete /\ MetaNeverAhead
        /\ ReleasesLocks /\ RefusedOnlyIfTorn /\ RefusalKeeps
<1>1. TypeOK
  BY DEF IInv, Shapes, Workers, Sound, TypeOK
<1>2. SuccessIsComplete
  BY DEF IInv, Workers, Command, Stage, Whole, SuccessIsComplete
<1>3. MetaNeverAhead
  BY DEF IInv, Workers, Sound, MetaNeverAhead
<1>4. ReleasesLocks
  BY DEF IInv, Shapes, Workers, Command, Stage, Holding, ReleasesLocks
<1>5. RefusedOnlyIfTorn /\ RefusalKeeps
  BY DEF IInv, Shapes, Workers, Stage, Obstacle, RefusedOnlyIfTorn, RefusalKeeps
<1> QED BY <1>1, <1>2, <1>3, <1>4, <1>5

\* Every reachable state is well-typed, and a directory that is not there holds nothing.
THEOREM AnalyzeTypesHold == ASSUME AnalyzeAssumption PROVE Spec => []TypeOK
  BY IInvHolds, InvariantImplies, PTL

\* A command that says it is complete has stored the whole new graph and the metadata of
\* this run for every repository, and after a rebuild nothing else (analyzeWorkspace).
THEOREM SuccessIsCompleteHolds == ASSUME AnalyzeAssumption PROVE Spec => []SuccessIsComplete
  BY IInvHolds, InvariantImplies, PTL

\* Metadata are those of a graph that was merged whole, whatever failed or was killed
\* since (analyzeWorkspaceRepo saves them last, rebuildBadgerDBPath removes both).
THEOREM MetaNeverAheadHolds == ASSUME AnalyzeAssumption PROVE Spec => []MetaNeverAhead
  BY IInvHolds, InvariantImplies, PTL

\* A command that has ended, well or not, has no database open.
THEOREM ReleasesLocksHolds == ASSUME AnalyzeAssumption PROVE Spec => []ReleasesLocks
  BY IInvHolds, InvariantImplies, PTL

\* A rebuild is refused only for files that are not Badger's, or for what a removal or an
\* opening left that failed or was killed half way, and a refused directory stays as the
\* command found it (validateExistingRebuildDir): once its files are made, nothing that
\* happens to a database in use keeps a rebuild from removing it.
THEOREM RefusalsHold == ASSUME AnalyzeAssumption PROVE Spec => [](RefusedOnlyIfTorn /\ RefusalKeeps)
  BY IInvHolds, InvariantImplies, PTL
=============================================================================
