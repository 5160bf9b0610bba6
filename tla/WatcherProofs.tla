---------------------------- MODULE WatcherProofs ----------------------------
(***************************************************************************)
(* The safety properties of Watcher, for any tree of directories, any      *)
(* number of edits and timers, and any steps that fail.                    *)
(***************************************************************************)
EXTENDS Watcher, TLAPS

Events == {events[i] : i \in 1..Len(events)}
PackageStages == {"begin", "parse", "recheck", "drop", "apply", "build"}

-----------------------------------------------------------------------------
(* Sequences of events.                                                    *)

LEMMA AppendEvent ==
  ASSUME NEW E, NEW s \in Seq(E), NEW e \in E
  PROVE  /\ Append(s, e) \in Seq(E)
         /\ {Append(s, e)[i] : i \in 1..Len(Append(s, e))} = {s[i] : i \in 1..Len(s)} \cup {e}
<1> DEFINE t == Append(s, e)
<1>1. t \in Seq(E) /\ Len(t) = Len(s) + 1 /\ Len(s) \in Nat
  OBVIOUS
<1>2. \A i \in 1..Len(s) : t[i] = s[i]
  OBVIOUS
<1>3. t[Len(s) + 1] = e
  OBVIOUS
<1> HIDE DEF t
<1>4. 1..Len(t) = (1..Len(s)) \cup {Len(s) + 1}
  BY <1>1
<1>5. {t[i] : i \in 1..Len(t)} = {s[i] : i \in 1..Len(s)} \cup {e}
  BY <1>2, <1>3, <1>4
<1> QED BY <1>1, <1>5 DEF t

LEMMA ReceiveEvent ==
  ASSUME NEW E, NEW s \in Seq(E), s # <<>>
  PROVE  /\ Head(s) \in E /\ Tail(s) \in Seq(E)
         /\ {s[i] : i \in 1..Len(s)} = {Head(s)} \cup {Tail(s)[i] : i \in 1..Len(Tail(s))}
<1> DEFINE t == Tail(s)
<1>1. t \in Seq(E) /\ Len(t) = Len(s) - 1 /\ Len(s) \in Nat /\ Len(s) > 0 /\ Head(s) = s[1] /\ s[1] \in E
  OBVIOUS
<1>2. \A i \in 1..Len(t) : t[i] = s[i + 1]
  OBVIOUS
<1> HIDE DEF t
<1>3. \A i \in 1..Len(s) : s[i] \in {Head(s)} \cup {t[j] : j \in 1..Len(t)}
  <2> SUFFICES ASSUME NEW i \in 1..Len(s) PROVE s[i] \in {Head(s)} \cup {t[j] : j \in 1..Len(t)}
    OBVIOUS
  <2>1. CASE i = 1
    BY <2>1, <1>1
  <2>2. CASE i # 1
    <3>1. i - 1 \in 1..Len(t) /\ (i - 1) + 1 = i
      BY <2>2, <1>1
    <3> QED BY <3>1, <1>2
  <2> QED BY <2>1, <2>2
<1>4. \A j \in 1..Len(t) : t[j] \in {s[i] : i \in 1..Len(s)}
  <2> SUFFICES ASSUME NEW j \in 1..Len(t) PROVE t[j] \in {s[i] : i \in 1..Len(s)}
    OBVIOUS
  <2>1. j + 1 \in 1..Len(s)
    BY <1>1
  <2> QED BY <2>1, <1>2
<1>5. Head(s) \in {s[i] : i \in 1..Len(s)}
  BY <1>1
<1> QED BY <1>1, <1>3, <1>4, <1>5 DEF t

\* What a change does to the events, and what the loop does.
LEMMA ReportedEvents ==
  ASSUME events \in Seq(Event), NEW dir, NEW kind, NEW path,
         [kind |-> kind, path |-> path] \in Event, Report(dir, kind, path)
  PROVE  /\ events' \in Seq(Event)
         /\ Events' = IF dir \in watches THEN Events \cup {[kind |-> kind, path |-> path]}
                                         ELSE Events
<1>1. CASE dir \in watches
  <2> DEFINE e == [kind |-> kind, path |-> path]
  <2>1. events' = Append(events, e)
    BY <1>1 DEF Report
  <2>2. Append(events, e) \in Seq(Event) /\ Events' = Events \cup {e}
    BY <2>1, AppendEvent DEF Events
  <2> QED BY <1>1, <2>1, <2>2
<1>2. CASE dir \notin watches
  BY <1>2 DEF Report, Events
<1> QED BY <1>1, <1>2

LEMMA ReceivedEvents ==
  ASSUME events \in Seq(Event), events # <<>>, events' = Tail(events)
  PROVE  /\ events' \in Seq(Event) /\ Head(events) \in Event
         /\ Events = {Head(events)} \cup Events'
<1>1. Events' = {Tail(events)[i] : i \in 1..Len(Tail(events))}
  BY DEF Events
<1>2. /\ Head(events) \in Event /\ Tail(events) \in Seq(Event)
      /\ Events = {Head(events)} \cup {Tail(events)[i] : i \in 1..Len(Tail(events))}
  BY ReceiveEvent DEF Events
<1> QED BY <1>1, <1>2

-----------------------------------------------------------------------------
(* Types, and how the event loop and the job depend on each other.         *)

\* Go files are in directories.
EventsOK == \A e \in Events : e.kind = "go" => e.path \in Dirs

\* The event loop walks what is below the directory of its event, and asks for updateMu
\* on behalf of directories that came and paths that went.
LoopOK ==
  /\ loop.at = "watch" => /\ loop.event.kind = "create" /\ loop.event.path \in Dirs
                          /\ loop.todo \subseteq Subtree[loop.event.path]
  /\ loop.at = "lock" => \/ loop.event.kind = "remove"
                         \/ loop.event.kind = "create" /\ loop.event.path \in Dirs

\* A job for the event loop keeps the loop waiting; only such a job looks for packages;
\* what is known of the package it is at is still true; and what it applies are Go files.
JobOK ==
  /\ job.stage = "idle" <=> job.kind = "none"
  /\ job.kind \in {"tree", "path"} <=> loop.at = "job"
  /\ job.stage \in {"clear", "scan", "next"} => job.kind = "tree"
  /\ job.stage \in PackageStages => job.cur \in Dirs /\ job.kind \in {"tree", "package"}
  /\ job.kind # "tree" \/ job.stage \in {"structure", "walk", "replace"} => job.found = {}
  /\ job.stage \in {"apply", "build"} => job.res # 0
  /\ job.stage \in {"parse", "recheck", "drop", "apply"} => (job.known <=> graph[job.cur] # 0)

WellFormed == TypeOK /\ EventsOK /\ LoopOK /\ JobOK

LEMMA InitWellFormed ==
  ASSUME WatcherAssumption, Init
  PROVE  WellFormed
<1>0. /\ Root \in Dirs /\ MaxEdits \in Nat /\ MaxTimers \in Nat
      /\ disk \in [Dirs -> {Absent, 0, 1}]
  BY DEF WatcherAssumption, Init
<1> USE <1>0
<1>1. TypeOK
  <2>1. disk \in [Dirs -> Versions \cup {Absent}] /\ graph \in [Dirs -> Versions]
    <3>1. {Absent, 0, 1} \subseteq Versions \cup {Absent} /\ 0 \in Versions
      BY DEF Versions
    <3>2. disk \in [Dirs -> Versions \cup {Absent}]
      BY <3>1
    <3>3. \A d \in Dirs : GoFiles(d) \in Versions
      BY <3>1, <3>2 DEF GoFiles, Exists
    <3>4. graph = [d \in Dirs |-> GoFiles(d)]
      BY DEF Init
    <3> QED BY <3>2, <3>3, <3>4
  <2>2. loop \in [at: LoopStages, event: Event, todo: SUBSET Dirs]
    BY DEF Init, IdleLoop, LoopStages, NoEvent, Event, Paths
  <2>3. job \in [kind: JobKinds, stage: JobStages, todo: SUBSET Dirs, found: SUBSET Dirs,
                 cur: Dirs \cup {NoDir}, known: BOOLEAN, res: Versions, seen: Tree]
    BY DEF Init, IdleJob, JobKinds, JobStages, Versions, Tree
  <2>4. timers \in [Slots -> 0..MaxTimers] /\ events \in Seq(Event) /\ edits \in 0..MaxEdits
    BY DEF Init
  <2>5. tree \in Tree
    BY DEF Init, Tree, OnDisk, Packages, Paths
  <2> QED BY <2>1, <2>2, <2>3, <2>4, <2>5 DEF Init, TypeOK, Packages
<1>2. Events = {}
  BY DEF Init, Events
<1>3. loop.at = "idle" /\ job.stage = "idle" /\ job.kind = "none" /\ job.found = {}
  BY DEF Init, IdleLoop, IdleJob
<1> QED BY <1>1, <1>2, <1>3 DEF WellFormed, EventsOK, LoopOK, JobOK, PackageStages

\* What the assumption says of the tree of directories.
LEMMA TreeFacts ==
  ASSUME WatcherAssumption
  PROVE  /\ Root \in Dirs /\ NoDir \notin Dirs /\ Dirs \cap Files = {} /\ "structure" \notin Dirs
         /\ MaxEdits \in Nat /\ MaxTimers \in Nat /\ Absent \notin Nat
         /\ \A d \in Dirs : d \in Subtree[d] /\ Subtree[d] \subseteq Dirs
         /\ Subtree[Root] = Dirs
         /\ \A d \in Dirs : \A x \in Subtree[d] : Subtree[x] \subseteq Subtree[d]
         /\ \A d \in Dirs : Children(d) \subseteq Subtree[d]
<1>1. \A d \in Dirs : Subtree[d] = {d} \cup UNION {Subtree[x] : x \in Children(d)}
  BY DEF WatcherAssumption
<1>2. Subtree \in [Dirs -> SUBSET Dirs]
  BY DEF WatcherAssumption
<1>3. \A d \in Dirs : d \in Subtree[d]
  BY <1>1
<1>4. \A d \in Dirs : Children(d) \subseteq Subtree[d]
  <2> SUFFICES ASSUME NEW d \in Dirs, NEW x \in Children(d) PROVE x \in Subtree[d]
    OBVIOUS
  <2>1. x \in Dirs
    BY DEF Children
  <2> QED BY <2>1, <1>1, <1>3
<1>5. \A d \in Dirs : Subtree[d] \subseteq Dirs
  BY <1>2
<1>6. /\ Subtree[Root] = Dirs
      /\ \A d \in Dirs : \A x \in Subtree[d] : Subtree[x] \subseteq Subtree[d]
  BY DEF WatcherAssumption
<1>7. /\ Root \in Dirs /\ NoDir \notin Dirs /\ Dirs \cap Files = {} /\ "structure" \notin Dirs
      /\ MaxEdits \in Nat /\ MaxTimers \in Nat /\ Absent \notin Nat
  BY DEF WatcherAssumption
<1> QED BY <1>3, <1>4, <1>5, <1>6, <1>7

LEMMA UserWellFormed ==
  ASSUME WatcherAssumption, WellFormed, User
  PROVE  WellFormed'
<1> USE TreeFacts
<1>0. TypeOK /\ EventsOK /\ LoopOK /\ JobOK /\ events \in Seq(Event) /\ edits \in 0..MaxEdits
  BY DEF WellFormed, TypeOK
<1>1. Edit
  BY DEF User, WriteGo, RemoveGo, MakeDir, RemoveDir, ToggleFile
<1>2. JobOK' /\ LoopOK'
  BY <1>0, <1>1 DEF Edit, JobOK, LoopOK, timing, lost
<1>3. NewVersion \in Versions /\ 0 \in Versions /\ edits' \in 0..MaxEdits
  BY <1>0, <1>1 DEF Edit, NewVersion, Versions
<1>4. ASSUME NEW dir, NEW kind, NEW path, Report(dir, kind, path),
             [kind |-> kind, path |-> path] \in Event, kind = "go" => path \in Dirs
      PROVE  events' \in Seq(Event) /\ EventsOK'
  <2>1. events' \in Seq(Event) /\ Events' \subseteq Events \cup {[kind |-> kind, path |-> path]}
    BY <1>0, <1>4, ReportedEvents
  <2> QED BY <2>1, <1>0, <1>4 DEF EventsOK
<1>5. ASSUME disk' \in [Dirs -> Versions \cup {Absent}], others' \subseteq Files,
             watches' \subseteq Dirs, unseen' \subseteq Dirs, steady' \subseteq Dirs,
             events' \in Seq(Event), EventsOK'
      PROVE  WellFormed'
  <2>1. TypeOK'
    BY <1>0, <1>1, <1>3, <1>5 DEF TypeOK, Edit, timing, lost
  <2> QED BY <2>1, <1>2, <1>5 DEF WellFormed
<1>6. ASSUME NEW d \in Dirs, WriteGo(d) PROVE WellFormed'
  <2>1. events' \in Seq(Event) /\ EventsOK'
    BY <1>4, <1>6 DEF WriteGo, Event, Paths
  <2>2. disk' \in [Dirs -> Versions \cup {Absent}]
    BY <1>0, <1>3, <1>6 DEF WriteGo, TypeOK
  <2> QED BY <2>1, <2>2, <1>0, <1>5, <1>6 DEF WriteGo, TypeOK, seen
<1>7. ASSUME NEW d \in Dirs, RemoveGo(d) PROVE WellFormed'
  <2>1. events' \in Seq(Event) /\ EventsOK'
    BY <1>4, <1>7 DEF RemoveGo, Event, Paths
  <2>2. disk' \in [Dirs -> Versions \cup {Absent}]
    BY <1>0, <1>3, <1>7 DEF RemoveGo, TypeOK
  <2> QED BY <2>1, <2>2, <1>0, <1>5, <1>7 DEF RemoveGo, TypeOK
<1>8. ASSUME NEW d \in Dirs, MakeDir(d) PROVE WellFormed'
  <2>1. events' \in Seq(Event) /\ EventsOK'
    BY <1>4, <1>8 DEF MakeDir, Event, Paths
  <2>2. disk' \in [Dirs -> Versions \cup {Absent}]
    <3>1. PICK new \in SUBSET Subtree[d] : \E go \in SUBSET new :
             /\ d \in new
             /\ \A x \in new, y \in Subtree[d] : x \in Subtree[y] => y \in new
             /\ disk' = [x \in Dirs |-> IF x \in go THEN NewVersion
                                        ELSE IF x \in new THEN 0 ELSE disk[x]]
      BY <1>8 DEF MakeDir
    <3> QED BY <3>1, <1>0, <1>3 DEF TypeOK
  <2> QED BY <2>1, <2>2, <1>0, <1>5, <1>8 DEF MakeDir, TypeOK, seen
<1>9. ASSUME NEW d \in Dirs, RemoveDir(d) PROVE WellFormed'
  <2>1. events' \in Seq(Event) /\ EventsOK'
    BY <1>4, <1>9 DEF RemoveDir, Event, Paths
  <2>2. disk' \in [Dirs -> Versions \cup {Absent}]
    BY <1>0, <1>9 DEF RemoveDir, TypeOK
  <2> QED BY <2>1, <2>2, <1>0, <1>5, <1>9 DEF RemoveDir, TypeOK
<1>10. ASSUME NEW f \in Files, ToggleFile(f) PROVE WellFormed'
  <2>1. events' \in Seq(Event) /\ EventsOK'
    BY <1>4, <1>10 DEF ToggleFile, Event, Paths
  <2> QED BY <2>1, <1>0, <1>5, <1>10 DEF ToggleFile, TypeOK, seen
<1> QED BY <1>6, <1>7, <1>8, <1>9, <1>10 DEF User

LEMMA DebounceTypes ==
  ASSUME WatcherAssumption, TypeOK, NEW s \in Slots, Debounce(s)
  PROVE  /\ timers' \in [Slots -> 0..MaxTimers]
         /\ armed' \subseteq Timer /\ started' \subseteq Timer /\ waiting' \subseteq Timer
BY TreeFacts DEF TypeOK, Debounce, TimerIDs, Timer

LEMMA EventLoopWellFormed ==
  ASSUME WatcherAssumption, WellFormed, EventLoop
  PROVE  WellFormed'
<1> USE TreeFacts
<1>0. TypeOK /\ EventsOK /\ LoopOK /\ JobOK /\ events \in Seq(Event)
  BY DEF WellFormed, TypeOK
<1>1. ASSUME NEW kind, Receive(kind)
      PROVE  /\ events' \in Seq(Event) /\ Head(events) \in Event /\ Head(events).kind = kind
             /\ Head(events) \in Events /\ EventsOK' /\ loop.at = "idle"
  <2>1. /\ events' \in Seq(Event) /\ Head(events) \in Event
        /\ Events = {Head(events)} \cup Events'
    BY <1>0, <1>1, ReceivedEvents DEF Receive
  <2> QED BY <2>1, <1>0, <1>1 DEF EventsOK, Receive
<1>2. CASE HandleGo
  <2>1. Receive("go") /\ Debounce(Head(events).path) /\ loop' = loop
    BY <1>2 DEF HandleGo
  <2>2. Head(events).path \in Slots
    BY <2>1, <1>1, <1>0 DEF EventsOK, Slots
  <2>3. TypeOK'
    BY <1>0, <1>1, <2>1, <2>2, DebounceTypes DEF TypeOK, Receive, user, lost, seen
  <2> QED BY <2>3, <2>1, <1>0, <1>1 DEF WellFormed, LoopOK, JobOK, Receive
<1>3. CASE HandleCreate
  <2> DEFINE e == Head(events)
  <2>1. Receive("create")
    BY <1>3 DEF HandleCreate
  <2>2. e \in Event /\ e.kind = "create" /\ e.path \in Paths /\ events' \in Seq(Event) /\ EventsOK'
    BY <2>1, <1>1 DEF Event
  <2>3. CASE e.path \in Files
    <3>1. loop' = loop /\ (Debounce("structure") \/ UNCHANGED timing)
      BY <1>3, <2>3 DEF HandleCreate
    <3>2. "structure" \in Slots
      BY DEF Slots
    <3>3. TypeOK'
      BY <1>0, <2>1, <2>2, <3>1, <3>2, DebounceTypes DEF TypeOK, Receive, user, lost, seen, timing
    <3> QED BY <3>3, <3>1, <2>1, <2>2, <1>0 DEF WellFormed, LoopOK, JobOK, Receive
  <2>4. CASE e.path \notin Files
    <3>1. /\ UNCHANGED timing
          /\ \/ loop' = loop
             \/ loop' = [at |-> "watch", event |-> e, todo |-> {e.path}]
      BY <1>3, <2>4 DEF HandleCreate
    <3>2. e.path \in Dirs
      BY <2>2, <2>4 DEF Paths
    <3>3. loop' \in [at: LoopStages, event: Event, todo: SUBSET Dirs]
      BY <1>0, <2>2, <3>1, <3>2 DEF TypeOK, LoopStages
    <3>4. TypeOK'
      BY <1>0, <2>1, <2>2, <3>1, <3>3 DEF TypeOK, Receive, user, lost, seen, timing
    <3>5. LoopOK' /\ JobOK'
      BY <1>0, <2>1, <2>2, <3>1, <3>2, <1>1 DEF LoopOK, JobOK, Receive
    <3> QED BY <3>4, <3>5, <2>2 DEF WellFormed
  <2> QED BY <2>3, <2>4
<1>4. CASE HandleRemove
  <2>1. Receive("remove") /\ loop' = [at |-> "lock", event |-> Head(events), todo |-> {}] /\ UNCHANGED timing
    BY <1>4 DEF HandleRemove
  <2>2. loop' \in [at: LoopStages, event: Event, todo: SUBSET Dirs]
    BY <2>1, <1>1 DEF LoopStages
  <2>3. TypeOK'
    BY <1>0, <1>1, <2>1, <2>2 DEF TypeOK, Receive, user, lost, seen, timing
  <2> QED BY <2>1, <2>3, <1>0, <1>1 DEF WellFormed, LoopOK, JobOK, Receive
<1>5. CASE WatchDir
  <2>1. PICK x \in loop.todo :
       LET todo == (loop.todo \ {x}) \cup {c \in Children(x) : Exists(c)}
       IN  IF Exists(x)
           THEN /\ watches' = watches \cup {x}
                /\ missed' = missed \ {x}
                /\ loop' = [loop EXCEPT !.todo = todo,
                                        !.at = IF todo = {} THEN "lock" ELSE "watch"]
           ELSE /\ missed' = missed \cup UNION {Subtree[y] : y \in loop.todo \ {x}}
                /\ loop' = [loop EXCEPT !.todo = {}, !.at = "lock"]
                /\ UNCHANGED watches
    BY <1>5 DEF WatchDir
  <2>2. loop \in [at: LoopStages, event: Event, todo: SUBSET Dirs]
    BY <1>0 DEF TypeOK
  <2>3. loop.at = "watch" /\ loop.event.path \in Dirs /\ loop.todo \subseteq Subtree[loop.event.path]
        /\ loop.event.kind = "create"
    BY <1>0, <1>5 DEF LoopOK, WatchDir
  <2>4. x \in Dirs /\ Children(x) \subseteq Subtree[loop.event.path]
    BY <2>2, <2>3
  <2>5. /\ loop'.at \in {"watch", "lock"} /\ loop'.event = loop.event
        /\ loop'.todo \subseteq Subtree[loop.event.path]
        /\ loop' = [at |-> loop'.at, event |-> loop.event, todo |-> loop'.todo]
        /\ watches' \subseteq watches \cup {x} /\ missed' \subseteq Dirs
    <3>1. CASE Exists(x)
      <4> DEFINE todo == (loop.todo \ {x}) \cup {c \in Children(x) : Exists(c)}
      <4>1. /\ loop' = [loop EXCEPT !.todo = todo, !.at = IF todo = {} THEN "lock" ELSE "watch"]
            /\ watches' = watches \cup {x} /\ missed' = missed \ {x}
        BY <3>1, <2>1
      <4>2. todo \subseteq Subtree[loop.event.path]
        BY <2>3, <2>4
      <4> HIDE DEF todo
      <4>3. /\ loop'.at \in {"watch", "lock"} /\ loop'.event = loop.event /\ loop'.todo = todo
            /\ loop' = [at |-> loop'.at, event |-> loop.event, todo |-> loop'.todo]
        BY <4>1, <2>2
      <4> QED BY <4>1, <4>2, <4>3, <1>0 DEF TypeOK
    <3>2. CASE ~Exists(x)
      <4>1. \A y \in loop.todo : y \in Dirs
        BY <2>2
      <4>2. UNION {Subtree[y] : y \in loop.todo \ {x}} \subseteq Dirs
        BY <4>1
      <4>3. /\ loop' = [loop EXCEPT !.todo = {}, !.at = "lock"] /\ watches' = watches
            /\ missed' = missed \cup UNION {Subtree[y] : y \in loop.todo \ {x}}
        BY <3>2, <2>1
      <4>4. /\ loop'.at = "lock" /\ loop'.event = loop.event /\ loop'.todo = {}
            /\ loop' = [at |-> loop'.at, event |-> loop.event, todo |-> loop'.todo]
        BY <4>3, <2>2
      <4>5. missed' \subseteq Dirs
        BY <4>2, <4>3, <1>0 DEF TypeOK
      <4> QED BY <4>3, <4>4, <4>5
    <3> QED BY <3>1, <3>2
  <2>6. TypeOK'
    <3>1. loop' \in [at: LoopStages, event: Event, todo: SUBSET Dirs]
      BY <2>2, <2>3, <2>5 DEF LoopStages
    <3> QED BY <3>1, <2>4, <2>5, <1>0, <1>5 DEF WatchDir, TypeOK, user, timing, seen
  <2>7. LoopOK'
    BY <2>3, <2>5 DEF LoopOK
  <2> QED BY <2>3, <2>5, <2>6, <2>7, <1>0, <1>5 DEF WellFormed, JobOK, EventsOK, Events, WatchDir
<1> QED BY <1>2, <1>3, <1>4, <1>5 DEF EventLoop

Jobs == [kind: JobKinds, stage: JobStages, todo: SUBSET Dirs, found: SUBSET Dirs,
         cur: Dirs \cup {NoDir}, known: BOOLEAN, res: Versions, seen: Tree]

LEMMA IdleIsJob ==
  ASSUME WatcherAssumption
  PROVE  /\ IdleJob \in Jobs
         /\ [IdleJob EXCEPT !.kind = "structure", !.stage = "structure"] \in Jobs
         /\ [IdleJob EXCEPT !.kind = "path", !.stage = "structure"] \in Jobs
         /\ \A d \in Dirs : [IdleJob EXCEPT !.kind = "package", !.stage = "begin", !.cur = d] \in Jobs
         /\ \A S \in SUBSET Dirs : \A stage \in {"scan", "clear"} :
              [IdleJob EXCEPT !.kind = "tree", !.stage = stage, !.todo = S] \in Jobs
<1>1. 0 \in Versions /\ [paths |-> {}, packages |-> {}] \in Tree
  BY TreeFacts DEF Versions, Tree
<1>2. IdleJob \in Jobs
  BY <1>1 DEF IdleJob, Jobs, JobKinds, JobStages
<1> QED BY <1>2 DEF Jobs, JobKinds, JobStages

LEMMA TimersWellFormed ==
  ASSUME WatcherAssumption, WellFormed, Timers
  PROVE  WellFormed'
<1>1. PICK t \in Timer : Fire(t) \/ CheckSuperseded(t)
  BY DEF Timers
<1>2. /\ armed' \subseteq Timer /\ started' \subseteq Timer /\ waiting' \subseteq Timer
      /\ timers' \in [Slots -> 0..MaxTimers]
  <2>1. CASE Fire(t)
    BY <2>1 DEF Fire, WellFormed, TypeOK
  <2>2. CASE CheckSuperseded(t)
    BY <2>2, TreeFacts DEF CheckSuperseded, WellFormed, TypeOK
  <2> QED BY <1>1, <2>1, <2>2
<1>3. UNCHANGED <<user, watches, events, loop, job, graph, crossPkg, tree, lost, seen>>
  BY <1>1 DEF Fire, CheckSuperseded
<1>4. TypeOK'
  BY <1>2, <1>3 DEF WellFormed, TypeOK, user, lost, seen
<1> QED BY <1>3, <1>4 DEF WellFormed, EventsOK, Events, LoopOK, JobOK

LEMMA LockWellFormed ==
  ASSUME WatcherAssumption, WellFormed, Lock
  PROVE  WellFormed'
<1>0. TypeOK /\ EventsOK /\ LoopOK /\ JobOK /\ loop \in [at: LoopStages, event: Event, todo: SUBSET Dirs]
  BY DEF WellFormed, TypeOK
<1>1. CASE LockForLoop
  <2> DEFINE known == Under(loop.event.path) \cap Packages
  <2>1. /\ job = IdleJob /\ loop.at = "lock" /\ loop' = [loop EXCEPT !.at = "job"]
        /\ UNCHANGED <<user, watches, events, timing, graph, crossPkg, tree, lost, seen>>
    BY <1>1 DEF LockForLoop
  <2>2. \/ /\ loop.event.kind = "create"
           /\ job' = [IdleJob EXCEPT !.kind = "tree", !.stage = "scan", !.todo = {loop.event.path}]
        \/ job' = [IdleJob EXCEPT !.kind = "path", !.stage = "structure"]
        \/ job' = [IdleJob EXCEPT !.kind = "tree", !.stage = "clear", !.todo = known]
    BY <1>1 DEF LockForLoop
  <2>3. known \in SUBSET Dirs /\ (loop.event.kind = "create" => {loop.event.path} \in SUBSET Dirs)
    BY <1>0, <2>1 DEF Packages, LoopOK
  <2> HIDE DEF known
  <2>4. job' \in Jobs
    BY <2>2, <2>3, IdleIsJob
  <2>5. loop' \in [at: LoopStages, event: Event, todo: SUBSET Dirs] /\ loop'.at = "job"
    BY <2>1, <1>0 DEF LoopStages
  <2>6. TypeOK'
    BY <1>0, <2>1, <2>4, <2>5 DEF TypeOK, user, timing, lost, seen, Jobs
  <2>7. JobOK'
    BY <2>2, <2>5 DEF JobOK, IdleJob, PackageStages
  <2> QED BY <2>1, <2>5, <2>6, <2>7, <1>0 DEF WellFormed, EventsOK, Events, LoopOK
<1>2. ASSUME NEW t \in Timer, LockForTimer(t) PROVE WellFormed'
  <2>1. /\ job = IdleJob /\ waiting' = waiting \ {t}
        /\ UNCHANGED <<user, watches, events, loop, timers, armed, started, graph, crossPkg, tree, lost, seen>>
    BY <1>2 DEF LockForTimer
  <2>2. \/ job' = [IdleJob EXCEPT !.kind = "structure", !.stage = "structure"]
        \/ t[1] \in Dirs /\ job' = [IdleJob EXCEPT !.kind = "package", !.stage = "begin", !.cur = t[1]]
    BY <1>2 DEF LockForTimer, Timer, Slots
  <2>3. job' \in Jobs
    BY <2>2, IdleIsJob
  <2>4. TypeOK'
    BY <1>0, <2>1, <2>3 DEF TypeOK, user, lost, seen, Jobs
  <2>5. loop.at # "job"
    BY <1>0, <2>1 DEF JobOK, IdleJob
  <2>6. JobOK'
    BY <2>1, <2>2, <2>5 DEF JobOK, IdleJob, PackageStages
  <2> QED BY <2>1, <2>4, <2>6, <1>0 DEF WellFormed, EventsOK, Events, LoopOK
<1> QED BY <1>1, <1>2 DEF Lock

\* What follows the update of a package.
LEMMA AfterPackage ==
  ASSUME WatcherAssumption, job \in Jobs, JobOK, job.kind \in {"tree", "package"},
         NEW ok, PackageDone(ok)
  PROVE  /\ job' \in Jobs /\ JobOK'
         /\ loop' = loop \/ loop' = IdleLoop
         /\ \/ job' = [job EXCEPT !.stage = "next"] /\ loop' = loop /\ job.kind = "tree"
            \/ job' = [job EXCEPT !.stage = "structure"] /\ loop' = loop /\ job.kind = "package"
            \/ job' = IdleJob /\ loop' = loop /\ job.kind = "package"
<1>1. \/ job' = [job EXCEPT !.stage = "next"] /\ loop' = loop /\ job.kind = "tree"
      \/ job' = [job EXCEPT !.stage = "structure"] /\ loop' = loop /\ job.kind = "package"
      \/ job' = IdleJob /\ loop' = loop /\ job.kind = "package"
  BY DEF PackageDone, Goto, Unlock
<1>2. job' \in Jobs
  <2>1. IdleJob \in Jobs
    BY IdleIsJob
  <2>2. [job EXCEPT !.stage = "next"] \in Jobs /\ [job EXCEPT !.stage = "structure"] \in Jobs
    BY DEF Jobs, JobStages
  <2> QED BY <1>1, <2>1, <2>2
<1>3. JobOK'
  <2>1. CASE job' = [job EXCEPT !.stage = "next"] /\ loop' = loop /\ job.kind = "tree"
    BY <2>1 DEF JobOK, Jobs, PackageStages
  <2>2. CASE job' = [job EXCEPT !.stage = "structure"] /\ loop' = loop /\ job.kind = "package"
    BY <2>2 DEF JobOK, Jobs, PackageStages
  <2>3. CASE job' = IdleJob /\ loop' = loop /\ job.kind = "package"
    BY <2>3 DEF JobOK, IdleJob, PackageStages
  <2> QED BY <1>1, <2>1, <2>2, <2>3
<1> QED BY <1>1, <1>2, <1>3

\* One step of each of the three walks over the disk.
Below(x) == {c \in Children(x) : Exists(c)}

LEMMA WatchStep ==
  ASSUME loop \in [at: LoopStages, event: Event, todo: SUBSET Dirs], WatchDir
  PROVE  \E x \in loop.todo :
           \/ /\ Exists(x) /\ watches' = watches \cup {x} /\ missed' = missed \ {x}
              /\ loop'.todo = (loop.todo \ {x}) \cup Below(x) /\ loop'.event = loop.event
              /\ loop'.at = IF loop'.todo = {} THEN "lock" ELSE "watch"
           \/ /\ ~Exists(x) /\ watches' = watches
              /\ missed' = missed \cup UNION {Subtree[y] : y \in loop.todo \ {x}}
              /\ loop'.todo = {} /\ loop'.event = loop.event /\ loop'.at = "lock"
<1>1. PICK x \in loop.todo :
       LET todo == (loop.todo \ {x}) \cup {c \in Children(x) : Exists(c)}
       IN  IF Exists(x)
           THEN /\ watches' = watches \cup {x}
                /\ missed' = missed \ {x}
                /\ loop' = [loop EXCEPT !.todo = todo,
                                        !.at = IF todo = {} THEN "lock" ELSE "watch"]
           ELSE /\ missed' = missed \cup UNION {Subtree[y] : y \in loop.todo \ {x}}
                /\ loop' = [loop EXCEPT !.todo = {}, !.at = "lock"]
                /\ UNCHANGED watches
  BY DEF WatchDir
<1> DEFINE todo == (loop.todo \ {x}) \cup {c \in Children(x) : Exists(c)}
<1>2. todo = (loop.todo \ {x}) \cup Below(x)
  BY DEF Below
<1>3. CASE Exists(x)
  <2>1. /\ loop' = [loop EXCEPT !.todo = todo, !.at = IF todo = {} THEN "lock" ELSE "watch"]
        /\ watches' = watches \cup {x} /\ missed' = missed \ {x}
    BY <1>1, <1>3
  <2> HIDE DEF todo
  <2> QED BY <2>1, <1>2, <1>3
<1>4. CASE ~Exists(x)
  BY <1>1, <1>4
<1> QED BY <1>3, <1>4

LEMMA ScanStep ==
  ASSUME job \in Jobs, Scan
  PROVE  /\ job'.stage = IF job'.todo = {} THEN "next" ELSE "scan"
         /\ job'.kind = job.kind /\ job'.cur = job.cur /\ job'.res = job.res
         /\ \E x \in job.todo :
              \/ /\ Exists(x) /\ dropped' = dropped
                 /\ job'.todo = (job.todo \ {x}) \cup Below(x)
                 /\ job'.found = IF HasGo(x) THEN job.found \cup {x} ELSE job.found
              \/ /\ ~Exists(x) /\ job'.todo = {} /\ job'.found = job.found
                 /\ dropped' = dropped \cup UNION {Subtree[y] : y \in job.todo \ {x}}
<1>1. PICK x \in job.todo :
       LET todo == (job.todo \ {x}) \cup {c \in Children(x) : Exists(c)}
       IN  IF Exists(x)
           THEN /\ job' = [job EXCEPT !.todo = todo,
                                      !.found = IF HasGo(x) THEN @ \cup {x} ELSE @,
                                      !.stage = IF todo = {} THEN "next" ELSE "scan"]
                /\ UNCHANGED dropped
           ELSE /\ job' = [job EXCEPT !.todo = {}, !.stage = "next"]
                /\ dropped' = dropped \cup UNION {Subtree[y] : y \in job.todo \ {x}}
  BY DEF Scan
<1> DEFINE todo == (job.todo \ {x}) \cup {c \in Children(x) : Exists(c)}
<1>2. todo = (job.todo \ {x}) \cup Below(x)
  BY DEF Below
<1>3. CASE Exists(x)
  <2>1. /\ job' = [job EXCEPT !.todo = todo, !.found = IF HasGo(x) THEN @ \cup {x} ELSE @,
                              !.stage = IF todo = {} THEN "next" ELSE "scan"]
        /\ UNCHANGED dropped
    BY <1>1, <1>3
  <2> HIDE DEF todo
  <2> QED BY <2>1, <1>2, <1>3 DEF Jobs
<1>4. CASE ~Exists(x)
  BY <1>1, <1>4 DEF Jobs
<1> QED BY <1>3, <1>4

LEMMA WalkStep ==
  ASSUME job \in Jobs, Walk
  PROVE  \E x \in job.todo :
           \/ /\ Exists(x) /\ loop' = loop
              /\ job'.todo = (job.todo \ {x}) \cup Below(x)
              /\ job'.seen.paths = job.seen.paths \cup {x} \cup (IF x = Root THEN others ELSE {})
              /\ job'.stage = IF job'.todo = {} THEN "replace" ELSE "walk"
              /\ job'.kind = job.kind /\ job'.cur = job.cur /\ job'.found = job.found
           \/ ~Exists(x) /\ Unlock
<1>1. PICK x \in job.todo :
       LET todo == (job.todo \ {x}) \cup {c \in Children(x) : Exists(c)}
       IN  IF Exists(x)
           THEN /\ job' = [job EXCEPT !.todo = todo,
                                      !.seen.paths = @ \cup {x} \cup
                                        (IF x = Root THEN others ELSE {}),
                                      !.stage = IF todo = {} THEN "replace" ELSE "walk"]
                /\ UNCHANGED loop
           ELSE Unlock
  BY DEF Walk
<1> DEFINE todo == (job.todo \ {x}) \cup {c \in Children(x) : Exists(c)}
           paths == job.seen.paths \cup {x} \cup (IF x = Root THEN others ELSE {})
<1>2. todo = (job.todo \ {x}) \cup Below(x)
  BY DEF Below
<1>3. CASE Exists(x)
  <2>1. job' = [job EXCEPT !.todo = todo, !.seen.paths = paths,
                           !.stage = IF todo = {} THEN "replace" ELSE "walk"] /\ loop' = loop
    BY <1>1, <1>3
  <2> HIDE DEF todo, paths
  <2>2. /\ job'.todo = todo /\ job'.seen.paths = paths /\ job'.kind = job.kind
        /\ job'.cur = job.cur /\ job'.found = job.found
        /\ job'.stage = IF todo = {} THEN "replace" ELSE "walk"
    BY <2>1 DEF Jobs, Tree
  <2> QED BY <2>1, <2>2, <1>2, <1>3 DEF paths
<1>4. CASE ~Exists(x)
  BY <1>1, <1>4
<1> QED BY <1>3, <1>4

LEMMA JobWellFormed ==
  ASSUME WatcherAssumption, WellFormed, Job
  PROVE  WellFormed'
<1> USE TreeFacts
<1>0. /\ TypeOK /\ EventsOK /\ LoopOK /\ JobOK /\ job \in Jobs
      /\ graph \in [Dirs -> Versions] /\ crossPkg \subseteq Dirs /\ tree \in Tree
      /\ timers \in [Slots -> 0..MaxTimers]
      /\ missed \subseteq Dirs /\ dropped \subseteq Dirs /\ treeLost \in BOOLEAN
  BY DEF WellFormed, TypeOK, Jobs
<1>1. /\ UNCHANGED <<user, watches, events, armed, started, waiting, missed, unseen>>
      /\ steady' \subseteq Dirs /\ unshown' \subseteq Dirs
  <2>1. steady' \subseteq steady
    BY DEF Job, Clear, Scan, NextDir, Begin, Parse, Recheck, Drop, Apply, Build, ReadPackages,
           Walk, ReplaceStructure, timing, lost, seen
  <2>2. unshown' \subseteq unshown \cup (IF job.stage \in {"drop", "build"} THEN {job.cur} ELSE {})
    BY DEF Job, Clear, Scan, NextDir, Begin, Parse, Recheck, Drop, Apply, Build, ReadPackages,
           Walk, ReplaceStructure, PackageChanged, timing, lost, seen
  <2>3. job.stage \in {"drop", "build"} => job.cur \in Dirs
    BY <1>0 DEF JobOK, PackageStages
  <2>4. UNCHANGED <<user, watches, events, armed, started, waiting, missed, unseen>>
    BY DEF Job, Clear, Scan, NextDir, Begin, Parse, Recheck, Drop, Apply, Build, ReadPackages,
           Walk, ReplaceStructure, timing, lost, seen
  <2> QED BY <2>1, <2>2, <2>3, <2>4, <1>0 DEF TypeOK
<1>2. ASSUME job' \in Jobs, JobOK', loop' = loop \/ loop' = IdleLoop,
             graph' \in [Dirs -> Versions], crossPkg' \subseteq Dirs, tree' \in Tree,
             timers' \in [Slots -> 0..MaxTimers],
             dropped' \subseteq Dirs, treeLost' \in BOOLEAN
      PROVE  WellFormed'
  <2>1. loop' \in [at: LoopStages, event: Event, todo: SUBSET Dirs]
    BY <1>0, <1>2 DEF TypeOK, IdleLoop, LoopStages, NoEvent, Event, Paths
  <2>2. TypeOK'
    BY <1>0, <1>1, <1>2, <2>1 DEF TypeOK, user, Jobs
  <2>3. LoopOK'
    BY <1>0, <1>2 DEF LoopOK, IdleLoop
  <2> QED BY <2>2, <2>3, <1>0, <1>1, <1>2 DEF WellFormed, EventsOK, Events
<1>3. \A S : RemovePackages(S) => graph' \in [Dirs -> Versions] /\ crossPkg' \subseteq Dirs
  <2>1. 0 \in Versions
    BY DEF Versions
  <2> QED BY <2>1, <1>0 DEF RemovePackages
<1>4. job.todo \subseteq Dirs /\ job.found \subseteq Dirs
  BY <1>0 DEF Jobs
<1>5. \A x \in Dirs : (job.todo \ {x}) \cup {c \in Children(x) : Exists(c)} \subseteq Dirs
  BY <1>4
<1>6. UNION {Subtree[y] : y \in job.todo} \subseteq Dirs
  BY <1>4
<1>10. CASE Clear
  <2>1. /\ job.stage = "clear" /\ job' = [job EXCEPT !.stage = "scan", !.todo = {Root}]
        /\ UNCHANGED <<loop, timing, tree, treeLost>>
    BY <1>10 DEF Clear
  <2>2. graph' \in [Dirs -> Versions] /\ crossPkg' \subseteq Dirs /\ dropped' \subseteq Dirs
    BY <1>10, <1>0, <1>3, <1>4 DEF Clear
  <2>3. job' \in Jobs /\ JobOK'
    BY <2>1, <1>0 DEF Jobs, JobStages, JobOK, PackageStages
  <2> QED BY <2>1, <2>2, <2>3, <1>0, <1>2 DEF timing
<1>11. CASE Scan
  <2>1. PICK x \in job.todo :
       LET todo == (job.todo \ {x}) \cup {c \in Children(x) : Exists(c)}
       IN  IF Exists(x)
           THEN /\ job' = [job EXCEPT !.todo = todo,
                                      !.found = IF HasGo(x) THEN @ \cup {x} ELSE @,
                                      !.stage = IF todo = {} THEN "next" ELSE "scan"]
                /\ UNCHANGED dropped
           ELSE /\ job' = [job EXCEPT !.todo = {}, !.stage = "next"]
                /\ dropped' = dropped \cup UNION {Subtree[y] : y \in job.todo \ {x}}
    BY <1>11 DEF Scan
  <2>2. job.stage = "scan" /\ UNCHANGED <<loop, timing, graph, crossPkg, tree, treeLost>>
    BY <1>11 DEF Scan
  <2>3. PICK todo \in SUBSET Dirs, found \in SUBSET Dirs, stage \in {"next", "scan"} :
          job' = [job EXCEPT !.todo = todo, !.found = found, !.stage = stage]
    <3> DEFINE todo == (job.todo \ {x}) \cup {c \in Children(x) : Exists(c)}
    <3>1. todo \in SUBSET Dirs /\ x \in Dirs
      BY <1>4, <1>5
    <3>2. CASE Exists(x)
      <4>1. job' = [job EXCEPT !.todo = todo, !.found = IF HasGo(x) THEN @ \cup {x} ELSE @,
                               !.stage = IF todo = {} THEN "next" ELSE "scan"]
        BY <3>2, <2>1
      <4> HIDE DEF todo
      <4>2. job.found \cup {x} \in SUBSET Dirs
        BY <1>4, <3>1
      <4> QED BY <4>1, <4>2, <3>1, <1>4
    <3>3. CASE ~Exists(x)
      <4>1. job' = [job EXCEPT !.todo = {}, !.stage = "next"]
        BY <3>3, <2>1
      <4>2. job' = [job EXCEPT !.todo = {}, !.found = job.found, !.stage = "next"]
        BY <4>1, <1>0 DEF Jobs
      <4> QED BY <4>2, <1>4
    <3> QED BY <3>2, <3>3
  <2>4. job' \in Jobs /\ JobOK'
    BY <2>2, <2>3, <1>0 DEF Jobs, JobStages, JobOK, PackageStages
  <2>5. dropped' \subseteq Dirs
    <3>1. UNION {Subtree[y] : y \in job.todo \ {x}} \subseteq Dirs
      BY <1>4
    <3> QED BY <3>1, <2>1, <1>0
  <2> QED BY <2>2, <2>4, <2>5, <1>0, <1>2 DEF timing
<1>12. CASE NextDir
  <2>1. job.stage = "next" /\ UNCHANGED <<loop, timing, graph, crossPkg, tree, lost>>
    BY <1>12 DEF NextDir
  <2>2. \/ job' = [job EXCEPT !.stage = "structure", !.cur = NoDir] /\ job.found = {}
        \/ \E d \in job.found : job' = [job EXCEPT !.stage = "begin", !.cur = d, !.found = @ \ {d}]
    BY <1>12 DEF NextDir
  <2>3. job' \in Jobs /\ JobOK'
    <3>1. CASE job' = [job EXCEPT !.stage = "structure", !.cur = NoDir] /\ job.found = {}
      BY <3>1, <2>1, <1>0 DEF Jobs, JobStages, JobOK, PackageStages
    <3>2. ASSUME NEW d \in job.found,
                 job' = [job EXCEPT !.stage = "begin", !.cur = d, !.found = @ \ {d}]
          PROVE  job' \in Jobs /\ JobOK'
      <4>1. d \in Dirs /\ job.kind = "tree"
        BY <2>1, <1>0, <1>4 DEF JobOK
      <4>2. job' \in Jobs
        BY <3>2, <4>1, <1>0 DEF Jobs, JobStages
      <4>3. JobOK'
        BY <3>2, <4>1, <2>1, <1>0 DEF Jobs, JobOK, PackageStages
      <4> QED BY <4>2, <4>3
    <3> QED BY <2>2, <3>1, <3>2
  <2> QED BY <2>1, <2>3, <1>0, <1>2 DEF timing, lost
<1>13. CASE Begin
  <2>1. /\ job.stage = "begin" /\ timers' = [timers EXCEPT ![job.cur] = 0]
        /\ UNCHANGED <<loop, graph, crossPkg, tree, lost>>
    BY <1>13 DEF Begin
  <2>2. PICK stage \in {"drop", "parse"} :
          job' = [job EXCEPT !.known = (job.cur \in Packages), !.stage = stage]
    BY <1>13 DEF Begin
  <2>3. job.cur \in Dirs /\ job.kind \in {"tree", "package"}
    BY <2>1, <1>0 DEF JobOK, PackageStages
  <2>4. job' \in Jobs
    <3>1. (job.cur \in Packages) \in BOOLEAN
      OBVIOUS
    <3>2. stage \in JobStages
      BY DEF JobStages
    <3> QED BY <2>2, <3>1, <3>2, <1>0 DEF Jobs
  <2>5. job'.known <=> graph[job.cur] # 0
    BY <2>2, <2>3, <1>0 DEF Jobs, Packages
  <2>6. JobOK'
    BY <2>1, <2>2, <2>3, <2>5, <1>0 DEF Jobs, JobOK, PackageStages
  <2>7. timers' \in [Slots -> 0..MaxTimers]
    <3>1. 0 \in 0..MaxTimers
      OBVIOUS
    <3> QED BY <3>1, <2>1, <1>0
  <2> QED BY <2>1, <2>4, <2>6, <2>7, <1>0, <1>2 DEF lost
<1>14. CASE Parse
  <2>1. job.stage = "parse" /\ UNCHANGED <<loop, timing, graph, crossPkg, tree, treeLost>>
    BY <1>14 DEF Parse
  <2>2. job.cur \in Dirs /\ job.kind \in {"tree", "package"}
    BY <2>1, <1>0 DEF JobOK, PackageStages
  <2>3. \/ HasGo(job.cur) /\ job' = [job EXCEPT !.stage = "apply", !.res = disk[job.cur]]
        \/ job' = [job EXCEPT !.stage = "recheck"]
    BY <1>14 DEF Parse
  <2>4. dropped' \subseteq Dirs
    BY <1>14, <2>2, <1>0 DEF Parse
  <2>5. HasGo(job.cur) => disk[job.cur] \in Versions /\ disk[job.cur] # 0
    BY <2>2, <1>0 DEF HasGo, GoFiles, Exists, TypeOK
  <2>6. job' \in Jobs /\ JobOK'
    <3>1. CASE HasGo(job.cur) /\ job' = [job EXCEPT !.stage = "apply", !.res = disk[job.cur]]
      <4>1. job' \in Jobs
        BY <3>1, <2>5, <1>0 DEF Jobs, JobStages
      <4> QED BY <4>1, <3>1, <2>1, <2>2, <2>5, <1>0 DEF Jobs, JobOK, PackageStages
    <3>2. CASE job' = [job EXCEPT !.stage = "recheck"]
      BY <3>2, <2>1, <2>2, <1>0 DEF Jobs, JobStages, JobOK, PackageStages
    <3> QED BY <2>3, <3>1, <3>2
  <2> QED BY <2>1, <2>4, <2>6, <1>0, <1>2 DEF timing
<1>15. CASE Recheck
  <2>1. job.stage = "recheck" /\ UNCHANGED <<timing, graph, crossPkg, tree, lost>>
    BY <1>15 DEF Recheck
  <2>2. job.cur \in Dirs /\ job.kind \in {"tree", "package"}
    BY <2>1, <1>0 DEF JobOK, PackageStages
  <2>3. job' \in Jobs /\ JobOK' /\ (loop' = loop \/ loop' = IdleLoop)
    <3>1. CASE PackageDone(FALSE)
      BY <3>1, <2>2, <1>0, AfterPackage
    <3>2. CASE job' = [job EXCEPT !.stage = "drop"] /\ loop' = loop
      BY <3>2, <2>1, <2>2, <1>0 DEF Jobs, JobStages, JobOK, PackageStages
    <3> QED BY <3>1, <3>2, <1>15 DEF Recheck, Goto
  <2> QED BY <2>1, <2>3, <1>0, <1>2 DEF timing, lost
<1>16. CASE Drop
  <2>1. job.stage = "drop" /\ UNCHANGED <<timing, tree, treeLost>>
    BY <1>16 DEF Drop, PackageChanged
  <2>2. job.cur \in Dirs /\ job.kind \in {"tree", "package"}
    BY <2>1, <1>0 DEF JobOK, PackageStages
  <2>3. \E ok : PackageDone(ok)
    BY <1>16 DEF Drop, PackageChanged
  <2>4. job' \in Jobs /\ JobOK' /\ (loop' = loop \/ loop' = IdleLoop)
    BY <2>2, <2>3, <1>0, AfterPackage
  <2>5. graph' \in [Dirs -> Versions] /\ crossPkg' \subseteq Dirs /\ dropped' \subseteq Dirs
    BY <1>16, <2>2, <1>0, <1>3 DEF Drop
  <2> QED BY <2>1, <2>4, <2>5, <1>0, <1>2 DEF timing
<1>17. CASE Apply
  <2>1. job.stage = "apply" /\ UNCHANGED <<timing, tree, treeLost>>
    BY <1>17 DEF Apply
  <2>2. job.cur \in Dirs /\ job.kind \in {"tree", "package"}
    BY <2>1, <1>0 DEF JobOK, PackageStages
  <2>3. job' \in Jobs /\ JobOK' /\ (loop' = loop \/ loop' = IdleLoop)
    <3>1. CASE PackageDone(FALSE)
      BY <3>1, <2>2, <1>0, AfterPackage
    <3>2. CASE job' = [job EXCEPT !.stage = "build"] /\ loop' = loop
      BY <3>2, <2>1, <2>2, <1>0 DEF Jobs, JobStages, JobOK, PackageStages
    <3> QED BY <3>1, <3>2, <1>17 DEF Apply, Goto
  <2>4. graph' \in [Dirs -> Versions] /\ crossPkg' \subseteq Dirs /\ dropped' \subseteq Dirs
    BY <1>17, <2>2, <1>0, <1>3 DEF Apply
  <2> QED BY <2>1, <2>3, <2>4, <1>0, <1>2 DEF timing
<1>18. CASE Build
  <2>1. job.stage = "build" /\ UNCHANGED <<timing, tree, treeLost, crossPkg>>
    BY <1>18 DEF Build, PackageChanged
  <2>2. job.cur \in Dirs /\ job.kind \in {"tree", "package"} /\ job.res \in Versions
    BY <2>1, <1>0 DEF JobOK, PackageStages, Jobs
  <2>3. \E ok : PackageDone(ok)
    BY <1>18 DEF Build, PackageChanged
  <2>4. job' \in Jobs /\ JobOK' /\ (loop' = loop \/ loop' = IdleLoop)
    BY <2>2, <2>3, <1>0, AfterPackage
  <2>5. graph' \in [Dirs -> Versions] /\ dropped' \subseteq Dirs
    BY <1>18, <2>2, <1>0 DEF Build
  <2> QED BY <2>1, <2>4, <2>5, <1>0, <1>2 DEF timing
<1>19. CASE ReadPackages
  <2>1. /\ job.stage = "structure" /\ UNCHANGED <<loop, timing, graph, crossPkg, tree, lost>>
        /\ job' = [job EXCEPT !.stage = "walk", !.todo = {Root},
                              !.seen = [paths |-> {}, packages |-> Packages]]
    BY <1>19 DEF ReadPackages
  <2>2. [paths |-> {}, packages |-> Packages] \in Tree
    BY DEF Tree, Packages
  <2>3. job' \in Jobs /\ JobOK'
    BY <2>1, <2>2, <1>0 DEF Jobs, JobStages, JobOK, PackageStages
  <2> QED BY <2>1, <2>3, <1>0, <1>2 DEF timing, lost
<1>20. CASE Walk
  <2>1. job.stage = "walk" /\ UNCHANGED <<timing, graph, crossPkg, tree, lost>>
    BY <1>20 DEF Walk
  <2>2. PICK x \in job.todo :
       LET todo == (job.todo \ {x}) \cup {c \in Children(x) : Exists(c)}
       IN  IF Exists(x)
           THEN /\ job' = [job EXCEPT !.todo = todo,
                                      !.seen.paths = @ \cup {x} \cup
                                        (IF x = Root THEN others ELSE {}),
                                      !.stage = IF todo = {} THEN "replace" ELSE "walk"]
                /\ UNCHANGED loop
           ELSE Unlock
    BY <1>20 DEF Walk
  <2>3. job' \in Jobs /\ JobOK' /\ (loop' = loop \/ loop' = IdleLoop)
    <3>1. CASE Exists(x)
      <4> DEFINE todo == (job.todo \ {x}) \cup {c \in Children(x) : Exists(c)}
                 paths == job.seen.paths \cup {x} \cup (IF x = Root THEN others ELSE {})
                 stage == IF todo = {} THEN "replace" ELSE "walk"
      <4>1. todo \in SUBSET Dirs /\ x \in Dirs
        BY <1>4, <1>5
      <4>2. job' = [job EXCEPT !.todo = todo, !.seen.paths = paths, !.stage = stage] /\ loop' = loop
        BY <3>1, <2>2
      <4>3. paths \in SUBSET Paths /\ stage \in {"replace", "walk"}
        BY <4>1, <1>0 DEF Jobs, Tree, Paths, TypeOK
      <4> HIDE DEF todo, paths, stage
      <4>4. [job.seen EXCEPT !.paths = paths] \in Tree
        BY <4>3, <1>0 DEF Jobs, Tree
      <4>5. job' = [job EXCEPT !.todo = todo, !.seen = [job.seen EXCEPT !.paths = paths], !.stage = stage]
        BY <4>2
      <4>6. job' \in Jobs
        BY <4>1, <4>3, <4>4, <4>5, <1>0 DEF Jobs, JobStages
      <4>7. /\ job'.stage \in {"walk", "replace"} /\ job'.kind = job.kind /\ job'.found = job.found
            /\ loop' = loop
        BY <4>2, <4>3, <4>5, <1>0 DEF Jobs
      <4>8. JobOK'
        BY <4>7, <2>1, <1>0 DEF JobOK, PackageStages
      <4> QED BY <4>6, <4>7, <4>8
    <3>2. CASE ~Exists(x)
      <4>1. /\ job' = IdleJob
            /\ loop' = IF job.kind \in {"tree", "path"} THEN IdleLoop ELSE loop
        BY <3>2, <2>2 DEF Unlock
      <4>2. job' \in Jobs
        BY <4>1, IdleIsJob
      <4>3. JobOK'
        BY <4>1, <1>0 DEF JobOK, IdleJob, PackageStages, IdleLoop
      <4> QED BY <4>1, <4>2, <4>3
    <3> QED BY <3>1, <3>2
  <2> QED BY <2>1, <2>3, <1>0, <1>2 DEF timing, lost
<1>21. CASE ReplaceStructure
  <2>1. job.stage = "replace" /\ UNCHANGED <<timing, graph, crossPkg, dropped>>
    BY <1>21 DEF ReplaceStructure
  <2>2. tree' \in Tree /\ treeLost' \in BOOLEAN
    <3>1. [job.seen EXCEPT !.packages = @ \cap job.seen.paths] \in Tree
      BY <1>0 DEF Jobs, Tree
    <3>2. [paths |-> {}, packages |-> {}] \in Tree
      BY DEF Tree
    <3> QED BY <1>21, <3>1, <3>2, <1>0 DEF ReplaceStructure
  <2>3. job' \in Jobs /\ JobOK' /\ (loop' = loop \/ loop' = IdleLoop)
    <3>1. /\ job' = IdleJob
          /\ loop' = IF job.kind \in {"tree", "path"} THEN IdleLoop ELSE loop
      BY <1>21 DEF ReplaceStructure, Unlock
    <3>2. job' \in Jobs
      BY <3>1, IdleIsJob
    <3>3. JobOK'
      BY <3>1, <1>0 DEF JobOK, IdleJob, PackageStages, IdleLoop
    <3> QED BY <3>1, <3>2, <3>3
  <2> QED BY <2>1, <2>2, <2>3, <1>0, <1>2 DEF timing
<1> QED BY <1>10, <1>11, <1>12, <1>13, <1>14, <1>15, <1>16, <1>17, <1>18, <1>19, <1>20, <1>21 DEF Job

LEMMA NextWellFormed ==
  ASSUME WatcherAssumption, WellFormed, [Next]_vars
  PROVE  WellFormed'
<1>1. CASE UNCHANGED vars
  <2>1. TypeOK'
    BY <1>1 DEF vars, user, timing, lost, seen, WellFormed, TypeOK
  <2> QED BY <2>1, <1>1 DEF vars, timing, lost, WellFormed, EventsOK, Events, LoopOK, JobOK
<1> QED BY <1>1, UserWellFormed, EventLoopWellFormed, TimersWellFormed, LockWellFormed,
           JobWellFormed DEF Next

\* The types of the variables: in particular, what a job writes into the graph is a
\* version of Go files that was on disk, never the mark of a directory that is gone.
THEOREM TypesHold == ASSUME WatcherAssumption PROVE Spec => []TypeOK
<1>1. Init => WellFormed
  BY InitWellFormed
<1>2. WellFormed /\ [Next]_vars => WellFormed'
  BY NextWellFormed
<1>3. WellFormed => TypeOK
  BY DEF WellFormed
<1> QED BY <1>1, <1>2, <1>3, PTL DEF Spec

-----------------------------------------------------------------------------
(* The directories, and the snapshots that are kept.                       *)

DiskOK ==
  /\ Root \in watches /\ Exists(Root)
  /\ \A d \in Dirs : \A x \in Subtree[d] : Exists(x) => Exists(d)

LEMMA NestFacts ==
  ASSUME WatcherAssumption
  PROVE  /\ \A d \in Dirs : \A x \in Subtree[d] : x # d => x # Root /\ Parent[x] \in Subtree[d]
         /\ \A c, d \in Dirs : c \in Subtree[d] \/ d \in Subtree[c] \/ Subtree[c] \cap Subtree[d] = {}
         /\ \A d \in Dirs \ {Root} : Parent[d] \in Dirs /\ Parent[d] \notin Subtree[d]
         /\ \A d \in Dirs \ {Root} : Root \notin Subtree[d]
BY DEF WatcherAssumption

\* A new tree leaves what exists as it is, and is new to its last directory.
LEMMA MadeDir ==
  ASSUME WatcherAssumption, WellFormed, DiskOK, NEW d \in Dirs, MakeDir(d)
  PROVE  /\ \A x \in Dirs : Exists(x) => disk'[x] = disk[x]
         /\ \A x \in Dirs \ Subtree[d] : disk'[x] = disk[x]
         /\ \A x \in Subtree[d] : ~Exists(x)
         /\ \A x \in Dirs : disk'[x] # disk[x] => disk'[x] # Absent
         /\ d # Root /\ Exists(Parent[d]) /\ Exists(d)'
         /\ \A y \in Subtree[d] : \A x \in Subtree[y] : Exists(x)' => Exists(y)'
<1> USE TreeFacts
<1>1. PICK new \in SUBSET Subtree[d] : \E go \in SUBSET new :
             /\ d \in new
             /\ \A x \in new, y \in Subtree[d] : x \in Subtree[y] => y \in new
             /\ disk' = [x \in Dirs |-> IF x \in go THEN NewVersion
                                        ELSE IF x \in new THEN 0 ELSE disk[x]]
  BY DEF MakeDir
<1>2. PICK go \in SUBSET new :
             /\ d \in new
             /\ \A x \in new, y \in Subtree[d] : x \in Subtree[y] => y \in new
             /\ disk' = [x \in Dirs |-> IF x \in go THEN NewVersion
                                        ELSE IF x \in new THEN 0 ELSE disk[x]]
  BY <1>1
<1>3. NewVersion # Absent /\ 0 # Absent
  BY DEF WellFormed, TypeOK, NewVersion
<1>4. \A x \in Subtree[d] : x \in Dirs /\ ~Exists(x)
  BY DEF DiskOK, MakeDir
<1>5. \A x \in Dirs : x \in new => disk'[x] # Absent
  BY <1>2, <1>3
<1>6. \A x \in Dirs : x \notin new => disk'[x] = disk[x]
  BY <1>2
<1>7. \A y \in Subtree[d] : \A x \in Subtree[y] : Exists(x)' => Exists(y)'
  <2> SUFFICES ASSUME NEW y \in Subtree[d], NEW x \in Subtree[y], Exists(x)' PROVE Exists(y)'
    OBVIOUS
  <2>1. x \in Subtree[d] /\ x \in Dirs /\ y \in Dirs
    BY <1>4
  <2>2. x \in new
    BY <2>1, <1>4, <1>6 DEF Exists
  <2>3. y \in new
    BY <2>2, <1>2
  <2> QED BY <2>1, <2>3, <1>5 DEF Exists
<1>8. d \in new
  BY <1>2
<1> QED BY <1>4, <1>5, <1>6, <1>7, <1>8 DEF Exists, MakeDir

LEMMA UserDisk ==
  ASSUME WatcherAssumption, WellFormed, DiskOK, User
  PROVE  DiskOK'
<1> USE TreeFacts, NestFacts
<1>0. disk \in [Dirs -> Versions \cup {Absent}] /\ \A v \in Versions : v # Absent
  BY DEF WellFormed, TypeOK, Versions
<1>1. ASSUME \A x \in Dirs : Exists(x)' <=> Exists(x), watches' = watches PROVE DiskOK'
  BY <1>1 DEF DiskOK
<1>2. ASSUME NEW d \in Dirs, WriteGo(d) PROVE DiskOK'
  BY <1>0, <1>1, <1>2 DEF WriteGo, Exists, WellFormed, TypeOK, NewVersion
<1>3. ASSUME NEW d \in Dirs, RemoveGo(d) PROVE DiskOK'
  BY <1>0, <1>1, <1>3 DEF RemoveGo, HasGo, GoFiles, Exists
<1>4. ASSUME NEW d \in Dirs, MakeDir(d) PROVE DiskOK'
  <2>1. /\ \A x \in Dirs : Exists(x) => Exists(x)'
        /\ \A x \in Dirs \ Subtree[d] : Exists(x)' <=> Exists(x)
        /\ d # Root /\ Exists(Parent[d]) /\ Exists(d)'
        /\ \A y \in Subtree[d] : \A x \in Subtree[y] : Exists(x)' => Exists(y)'
    BY <1>4, MadeDir DEF Exists
  <2>2. ASSUME NEW e \in Dirs, NEW x \in Subtree[e], Exists(x)' PROVE Exists(e)'
    <3>1. CASE x \notin Subtree[d]
      BY <3>1, <2>1, <2>2 DEF DiskOK
    <3>2. CASE e \in Subtree[d]
      BY <3>2, <2>1, <2>2
    <3>3. CASE x \in Subtree[d] /\ e \notin Subtree[d]
      <4>1. d \in Subtree[e] /\ d # e
        BY <3>3
      <4>2. Parent[d] \in Subtree[e]
        BY <4>1
      <4> QED BY <4>2, <2>1 DEF DiskOK
    <3> QED BY <3>1, <3>2, <3>3
  <2> QED BY <2>1, <2>2, <1>4 DEF DiskOK, MakeDir
<1>5. ASSUME NEW d \in Dirs, RemoveDir(d) PROVE DiskOK'
  <2>1. \A x \in Dirs : Exists(x)' <=> Exists(x) /\ x \notin Subtree[d]
    BY <1>5 DEF RemoveDir, Exists
  <2>2. d # Root /\ watches' = watches \ Subtree[d]
    BY <1>5 DEF RemoveDir
  <2> QED BY <2>1, <2>2 DEF DiskOK
<1>6. ASSUME NEW f \in Files, ToggleFile(f) PROVE DiskOK'
  BY <1>6 DEF ToggleFile, DiskOK, Exists
<1> QED BY <1>2, <1>3, <1>4, <1>5, <1>6 DEF User

LEMMA NextDisk ==
  ASSUME WatcherAssumption, WellFormed, DiskOK, [Next]_vars
  PROVE  DiskOK'
<1>1. CASE User
  BY <1>1, UserDisk
<1>2. CASE ~User
  <2>1. UNCHANGED disk /\ watches \subseteq watches'
    BY <1>2 DEF Next, EventLoop, HandleGo, HandleCreate, HandleRemove, Receive, WatchDir, Timers,
       Fire, CheckSuperseded, Lock, LockForLoop, LockForTimer, Job, Clear, Scan, NextDir, Begin,
       Parse, Recheck, Drop, Apply, Build, ReadPackages, Walk, ReplaceStructure, vars, user
  <2> QED BY <2>1 DEF DiskOK, Exists
<1> QED BY <1>1, <1>2

\* What is on its way to the event loop, or with it.
LEMMA QueuedSplit ==
  /\ Queued = Events \cup (IF loop.at \in {"watch", "lock"} THEN {loop.event} ELSE {})
  /\ Queued' = Events' \cup (IF loop'.at \in {"watch", "lock"} THEN {loop'.event} ELSE {})
BY DEF Queued, Events

\* What a user's change adds to what is queued.
LEMMA UserQueues ==
  ASSUME WellFormed, NEW dir, NEW kind, NEW path, Edit, Report(dir, kind, path),
         [kind |-> kind, path |-> path] \in Event
  PROVE  /\ Queued' = IF dir \in watches THEN Queued \cup {[kind |-> kind, path |-> path]} ELSE Queued
         /\ Events' = IF dir \in watches THEN Events \cup {[kind |-> kind, path |-> path]} ELSE Events
<1>1. Events' = IF dir \in watches THEN Events \cup {[kind |-> kind, path |-> path]} ELSE Events
  BY ReportedEvents DEF WellFormed, TypeOK
<1>2. loop' = loop
  BY DEF Edit
<1> QED BY <1>1, <1>2, QueuedSplit

\* What the event loop takes.
LEMMA LoopQueues ==
  ASSUME WatcherAssumption, WellFormed, EventLoop
  PROVE  /\ Queued' \subseteq Queued
         /\ Events' \subseteq Events
         /\ WatchDir => Queued' = Queued /\ Events' = Events
         /\ ~WatchDir => /\ Head(events) \in Events /\ Queued = {Head(events)} \cup Queued'
                         /\ Events = {Head(events)} \cup Events'
                         /\ loop.at = "idle" /\ Head(events) \in Event
<1>0. events \in Seq(Event) /\ loop \in [at: LoopStages, event: Event, todo: SUBSET Dirs]
  BY DEF WellFormed, TypeOK
<1>1. CASE WatchDir
  <2>2. loop'.at \in {"watch", "lock"} /\ loop'.event = loop.event /\ loop.at = "watch"
    BY <1>0, <1>1, WatchStep DEF WatchDir
  <2>3. Events' = Events
    BY <1>1 DEF WatchDir, Events
  <2> QED BY <2>2, <2>3, <1>1, QueuedSplit
<1>2. CASE ~WatchDir
  <2>1. /\ loop.at = "idle" /\ events # <<>> /\ events' = Tail(events)
        /\ \/ loop' = loop
           \/ loop' = [at |-> "watch", event |-> Head(events), todo |-> {Head(events).path}]
           \/ loop' = [at |-> "lock", event |-> Head(events), todo |-> {}]
    BY <1>2 DEF EventLoop, HandleGo, HandleCreate, HandleRemove, Receive
  <2>2. Events = {Head(events)} \cup Events' /\ Head(events) \in Event
    BY <2>1, <1>0, ReceivedEvents
  <2>3. Queued = Events /\ Queued' \subseteq Events' \cup {Head(events)}
    BY <2>1, QueuedSplit
  <2>4. Events' \subseteq Queued'
    BY QueuedSplit
  <2> QED BY <2>1, <2>2, <2>3, <2>4, <1>2
<1> QED BY <1>1, <1>2

\* While no store fails, what a job removes from the graph had lost its Go files.
Kept ==
  /\ \A d \in steady : HasGo(d)
  /\ \A e \in Queued : e.kind = "remove" => Under(e.path) \cap steady = {}
  /\ job.stage = "clear" => job.todo \cap steady = {}
  /\ job.stage = "drop" => job.cur \notin steady
  /\ SnapshotKept

LEMMA InitKept ==
  ASSUME WatcherAssumption, Init
  PROVE  DiskOK /\ Kept
<1>1. /\ disk \in StartDisks /\ watches = {d \in Dirs : Exists(d)} /\ Root \in Dirs
      /\ disk[Root] # Absent
      /\ \A d \in Dirs : \A x \in Subtree[d] : disk[x] # Absent => disk[d] # Absent
  BY DEF Init, WatcherAssumption
<1>2. DiskOK
  BY <1>1 DEF DiskOK, Exists
<1>3. Queued = {} /\ job.stage = "idle"
  BY DEF Init, Queued, IdleLoop, IdleJob
<1>4. \A d \in steady : d \in Dirs /\ graph[d] # 0 /\ HasGo(d)
  BY DEF Init, Packages, HasGo
<1> QED BY <1>2, <1>3, <1>4 DEF Kept, SnapshotKept

LEMMA UserKept ==
  ASSUME WatcherAssumption, WellFormed, DiskOK, Kept, User
  PROVE  Kept'
<1> USE TreeFacts
<1>0. disk \in [Dirs -> Versions \cup {Absent}] /\ steady \subseteq Dirs
  BY DEF WellFormed, TypeOK
<1>1. Edit
  BY DEF User, WriteGo, RemoveGo, MakeDir, RemoveDir, ToggleFile
<1>2. ASSUME steady' \subseteq steady, \A d \in steady' : HasGo(d)',
             \A e \in Queued' : e.kind = "remove" => e \in Queued \/ Under(e.path) \cap steady' = {}
      PROVE  Kept'
  <2>1. UNCHANGED <<job, graph>>
    BY <1>1 DEF Edit
  <2>2. \A e \in Queued' : e.kind = "remove" => Under(e.path) \cap steady' = {}
    BY <1>2 DEF Kept
  <2> QED BY <2>1, <2>2, <1>2 DEF Kept, SnapshotKept
<1>3. ASSUME NEW d \in Dirs, WriteGo(d) PROVE Kept'
  <2>1. \A e \in Queued' : e \in Queued \/ e.kind = "go"
    BY <1>1, <1>3, UserQueues DEF WriteGo, Event, Paths
  <2>2. \A x \in steady : HasGo(x)'
    BY <1>0, <1>3 DEF Kept, WriteGo, HasGo, GoFiles, Exists, NewVersion, WellFormed, TypeOK
  <2> QED BY <2>1, <2>2, <1>2, <1>3 DEF WriteGo, seen
<1>4. ASSUME NEW d \in Dirs, RemoveGo(d) PROVE Kept'
  <2>1. \A e \in Queued' : e \in Queued \/ e.kind = "go"
    BY <1>1, <1>4, UserQueues DEF RemoveGo, Event, Paths
  <2>2. steady' = steady \ {d} /\ \A x \in Dirs \ {d} : disk'[x] = disk[x]
    BY <1>0, <1>4 DEF RemoveGo
  <2>3. \A x \in steady' : HasGo(x)'
    BY <1>0, <2>2 DEF Kept, HasGo, GoFiles, Exists
  <2> QED BY <2>1, <2>2, <2>3, <1>2
<1>5. ASSUME NEW d \in Dirs, MakeDir(d) PROVE Kept'
  <2>1. \A e \in Queued' : e \in Queued \/ e.kind = "create"
    BY <1>1, <1>5, UserQueues DEF MakeDir, Event, Paths
  <2>2. \A x \in Dirs : Exists(x) => disk'[x] = disk[x]
    BY <1>5, MadeDir
  <2>3. \A x \in steady : HasGo(x)'
    BY <1>0, <2>2 DEF Kept, HasGo, GoFiles, Exists
  <2> QED BY <2>1, <2>3, <1>2, <1>5 DEF MakeDir, seen
<1>6. ASSUME NEW d \in Dirs, RemoveDir(d) PROVE Kept'
  <2>1. \A e \in Queued' : e \in Queued \/ e = [kind |-> "remove", path |-> d]
    BY <1>1, <1>6, UserQueues DEF RemoveDir, Event, Paths
  <2>2. steady' = steady \ Subtree[d] /\ \A x \in Dirs \ Subtree[d] : disk'[x] = disk[x]
    BY <1>0, <1>6 DEF RemoveDir
  <2>3. \A x \in steady' : HasGo(x)'
    BY <1>0, <2>2 DEF Kept, HasGo, GoFiles, Exists
  <2>4. Under(d) \cap steady' = {}
    BY <2>2 DEF Under
  <2> QED BY <2>1, <2>2, <2>3, <2>4, <1>2
<1>7. ASSUME NEW f \in Files, ToggleFile(f) PROVE Kept'
  <2>1. \A e \in Queued' : e \in Queued \/ e.path = f
    BY <1>1, <1>7, UserQueues DEF ToggleFile, Event, Paths
  <2>2. Under(f) = {}
    BY DEF Under
  <2>3. \A x \in steady : HasGo(x)'
    BY <1>7 DEF Kept, ToggleFile, HasGo, GoFiles, Exists
  <2> QED BY <2>1, <2>2, <2>3, <1>2, <1>7 DEF ToggleFile, seen
<1> QED BY <1>3, <1>4, <1>5, <1>6, <1>7 DEF User

LEMMA NextKept ==
  ASSUME WatcherAssumption, WellFormed, DiskOK, Kept, [Next]_vars
  PROVE  Kept'
<1>0. /\ job \in Jobs /\ JobOK /\ LoopOK /\ graph \in [Dirs -> Versions] /\ steady \subseteq Dirs
      /\ disk \in [Dirs -> Versions \cup {Absent}] /\ job \in Jobs
      /\ loop \in [at: LoopStages, event: Event, todo: SUBSET Dirs]
  BY DEF WellFormed, TypeOK, Jobs
<1>1. CASE UNCHANGED vars
  BY <1>1 DEF vars, user, seen, Kept, HasGo, GoFiles, Exists, Queued, SnapshotKept
<1>2. CASE User
  BY <1>2, UserKept
<1>3. CASE EventLoop
  <2>1. UNCHANGED <<disk, job, graph, steady>>
    BY <1>3 DEF EventLoop, HandleGo, HandleCreate, HandleRemove, Receive, WatchDir, user, seen
  <2>2. Queued' \subseteq Queued
    BY <1>3, LoopQueues
  <2> QED BY <2>1, <2>2 DEF Kept, HasGo, GoFiles, Exists, SnapshotKept
<1>4. CASE Timers
  <2>1. UNCHANGED <<disk, events, loop, job, graph, steady>>
    BY <1>4 DEF Timers, Fire, CheckSuperseded, user, seen
  <2> QED BY <2>1 DEF Kept, HasGo, GoFiles, Exists, Queued, SnapshotKept
<1>5. CASE Lock
  <2>1. UNCHANGED <<disk, events, graph, steady>> /\ job.stage = "idle"
    <3>1. IdleJob.stage = "idle"
      BY DEF IdleJob
    <3>2. UNCHANGED <<disk, events, graph, steady>> /\ job = IdleJob
      BY <1>5 DEF Lock, LockForLoop, LockForTimer, user, seen
    <3> QED BY <3>1, <3>2
  <2>2. Queued' \subseteq Queued
    BY <1>5, <1>0, QueuedSplit DEF Lock, LockForLoop, LockForTimer, Events
  <2>3. \A d \in steady : graph[d] # 0
    BY <2>1 DEF Kept, SnapshotKept
  <2>4. (job'.stage = "clear" => job'.todo \cap steady = {}) /\ job'.stage # "drop"
    <3>1. CASE LockForLoop
      <4>1. CASE loop.event.kind = "create"
        BY <3>1, <4>1 DEF LockForLoop, IdleJob
      <4>2. CASE loop.event.kind # "create"
        <5>1. loop.event \in Queued /\ loop.event.kind = "remove"
          BY <3>1, <4>2, <1>0, QueuedSplit DEF LockForLoop, LoopOK
        <5>2. Under(loop.event.path) \cap steady = {}
          BY <5>1 DEF Kept
        <5> QED BY <3>1, <4>2, <5>2 DEF LockForLoop, IdleJob
      <4> QED BY <4>1, <4>2
    <3>2. CASE \E t \in Timer : LockForTimer(t)
      BY <3>2 DEF LockForTimer, IdleJob
    <3> QED BY <1>5, <3>1, <3>2 DEF Lock
  <2> QED BY <2>1, <2>2, <2>3, <2>4 DEF Kept, HasGo, GoFiles, Exists, SnapshotKept
<1>6. CASE Job
  <2>1. UNCHANGED <<disk, events>> /\ steady' \subseteq steady
    BY <1>6 DEF Job, Clear, Scan, NextDir, Begin, Parse, Recheck, Drop, Apply, Build, ReadPackages,
         Walk, ReplaceStructure, user, seen
  <2>2. (\A d \in steady : HasGo(d)') /\ (\A d \in steady : HasGo(d))
    BY <2>1 DEF Kept, HasGo, GoFiles, Exists
  <2>3. ASSUME loop' = loop \/ loop' = IdleLoop, job'.stage \notin {"clear"},
               job'.stage = "drop" => job'.cur \notin steady, SnapshotKept'
        PROVE  Kept'
    <3>1. Queued' \subseteq Queued
      BY <2>1, <2>3, QueuedSplit DEF Events, IdleLoop
    <3> QED BY <3>1, <2>1, <2>2, <2>3 DEF Kept
  <2>4. ASSUME graph' = graph, job.stage # "build" PROVE SnapshotKept'
    BY <2>1, <2>4 DEF Kept, SnapshotKept
  <2>5. \A ok : PackageDone(ok) /\ job.kind \in {"tree", "package"} =>
          job'.stage \in {"next", "structure", "idle"} /\ (loop' = loop \/ loop' = IdleLoop)
    BY <1>0, AfterPackage DEF Jobs, IdleJob
  <2>6. CASE Clear
    <3>1. PICK gone \in SUBSET job.todo : RemovePackages(gone)
      BY <2>6 DEF Clear
    <3>0. /\ job.stage = "clear" /\ loop' = loop
          /\ job' = [job EXCEPT !.stage = "scan", !.todo = {Root}]
      BY <2>6 DEF Clear
    <3>2. \A d \in steady : graph'[d] = graph[d]
      BY <3>0, <3>1, <1>0 DEF RemovePackages, Kept
    <3> QED BY <3>0, <3>2, <2>1, <2>3, <1>0 DEF Kept, SnapshotKept, Jobs
  <2>7. CASE Scan
    <3>1. job.stage = "scan" /\ graph' = graph /\ loop' = loop
      BY <2>7 DEF Scan
    <3>2. job'.stage \in {"next", "scan"}
      BY <2>7, <1>0 DEF Scan, Jobs
    <3> QED BY <3>1, <3>2, <2>3, <2>4
  <2>8. CASE NextDir
    BY <2>8, <2>3, <2>4, <1>0 DEF NextDir, Jobs
  <2>9. CASE Begin
    <3>1. /\ job.stage = "begin" /\ graph' = graph /\ loop' = loop
          /\ job'.stage \in {"parse", "drop"} /\ job'.cur = job.cur
          /\ job'.stage = "drop" => ~HasGo(job.cur)
      BY <2>9, <1>0 DEF Begin, Jobs
    <3> QED BY <3>1, <2>2, <2>3, <2>4
  <2>10. CASE Parse
    BY <2>10, <2>3, <2>4, <1>0 DEF Parse, Jobs
  <2>11. CASE Recheck
    <3>1. job.stage = "recheck" /\ graph' = graph /\ job.kind \in {"tree", "package"}
      BY <2>11, <1>0 DEF Recheck, JobOK, PackageStages
    <3>2. CASE PackageDone(FALSE)
      BY <3>1, <3>2, <2>3, <2>4, <2>5
    <3>3. CASE job' = [job EXCEPT !.stage = "drop"] /\ loop' = loop /\ ~HasGo(job.cur)
      BY <3>1, <3>3, <2>2, <2>3, <2>4, <1>0 DEF Jobs
    <3> QED BY <2>11, <3>2, <3>3 DEF Recheck, Goto
  <2>12. CASE Drop
    <3>1. /\ job.stage = "drop" /\ job.kind \in {"tree", "package"}
          /\ RemovePackages({job.cur}) \/ graph' = graph
          /\ \E ok : PackageDone(ok)
      BY <2>12, <1>0 DEF Drop, PackageChanged, JobOK, PackageStages
    <3>2. \A d \in steady : graph'[d] = graph[d]
      BY <3>1, <1>0 DEF RemovePackages, Kept
    <3>3. SnapshotKept'
      BY <3>1, <3>2, <2>1 DEF Kept, SnapshotKept
    <3> QED BY <3>1, <3>3, <2>3, <2>5
  <2>13. CASE Apply
    <3>1. job.stage = "apply" /\ job.kind \in {"tree", "package"}
      BY <2>13, <1>0 DEF Apply, JobOK, PackageStages
    <3>2. CASE PackageDone(FALSE) /\ graph' = graph
      BY <3>1, <3>2, <2>3, <2>4, <2>5
    <3>3. CASE RemovePackages({job.cur}) /\ job' = [job EXCEPT !.stage = "build"] /\ loop' = loop
      <4>1. \A d \in steady : graph'[d] = graph[d] \/ d = job.cur
        BY <3>3, <1>0 DEF RemovePackages
      <4>2. SnapshotKept'
        BY <3>1, <3>3, <4>1, <2>1, <1>0 DEF Kept, SnapshotKept, Jobs
      <4> QED BY <3>3, <4>2, <2>3, <1>0 DEF Jobs
    <3> QED BY <2>13, <3>2, <3>3 DEF Apply, Goto
  <2>14. CASE Build
    <3>1. /\ job.stage = "build" /\ job.kind \in {"tree", "package"}
          /\ \/ graph' = [graph EXCEPT ![job.cur] = job.res]
             \/ graph' = graph /\ steady' = steady \ {job.cur}
          /\ \E ok : PackageDone(ok)
      BY <2>14, <1>0 DEF Build, PackageChanged, JobOK, PackageStages
    <3>2. job.res # 0
      BY <3>1, <1>0 DEF JobOK
    <3>3. SnapshotKept'
      BY <3>1, <3>2, <2>1, <1>0 DEF Kept, SnapshotKept
    <3> QED BY <3>1, <3>3, <2>3, <2>5
  <2>15. CASE ReadPackages
    BY <2>15, <2>3, <2>4, <1>0 DEF ReadPackages, Jobs
  <2>16. CASE Walk
    <3>1. job.stage = "walk" /\ graph' = graph
      BY <2>16 DEF Walk
    <3>2. (loop' = loop \/ loop' = IdleLoop) /\ job'.stage \in {"walk", "replace", "idle"}
      <4>1. PICK x \in job.todo : (job'.stage \in {"walk", "replace"} /\ loop' = loop) \/ Unlock
        BY <2>16, <1>0, WalkStep
      <4> QED BY <4>1 DEF Unlock, IdleJob
    <3> QED BY <3>1, <3>2, <2>3, <2>4
  <2>17. CASE ReplaceStructure
    BY <2>17, <2>3, <2>4 DEF ReplaceStructure, Unlock, IdleJob
  <2> QED BY <1>6, <2>6, <2>7, <2>8, <2>9, <2>10, <2>11, <2>12, <2>13, <2>14, <2>15, <2>16, <2>17 DEF Job
<1> QED BY <1>1, <1>2, <1>3, <1>4, <1>5, <1>6 DEF Next

\* "Reparse before mutating the graph so a transient parse failure does not erase the
\* previous package snapshot": whatever fails, whatever is edited meanwhile, a package that
\* never was without Go files is missing from the graph only between RemovePackage and
\* BuildFromParseResult, or when the latter has failed.
THEOREM SnapshotsAreKept ==
  ASSUME WatcherAssumption
  PROVE  Spec => []SnapshotKept
<1> DEFINE IInv == WellFormed /\ DiskOK /\ Kept
<1>1. Init => IInv
  BY InitWellFormed, InitKept
<1>2. IInv /\ [Next]_vars => IInv'
  BY NextWellFormed, NextDisk, NextKept
<1>3. IInv => SnapshotKept
  BY DEF Kept
<1> QED BY <1>1, <1>2, <1>3, PTL DEF Spec

-----------------------------------------------------------------------------
(* No directory without a watch.                                           *)

CreateComing(d) == \E e \in Events : e.kind = "create" /\ d \in Under(e.path)
WalkComing(d) == loop.at = "watch" /\ \E x \in loop.todo : d \in Subtree[x]
Watched == \A d \in Dirs \ Blind : Exists(d) => d \in watches \/ CreateComing(d) \/ WalkComing(d)

LEMMA InBlind ==
  /\ \A d : d \in Blind <=> \E m \in missed : d \in Subtree[m]
  /\ \A d : d \in Blind' <=> \E m \in missed' : d \in Subtree[m]
BY DEF Blind

\* The directories below a directory that is there are below those in it.
LEMMA BelowCovers ==
  ASSUME WatcherAssumption, DiskOK, NEW x \in Dirs, NEW d \in Subtree[x], d # x, Exists(d)
  PROVE  \E c \in Below(x) : c \in Dirs /\ d \in Subtree[c]
<1>1. Subtree[x] = {x} \cup UNION {Subtree[y] : y \in Children(x)}
  BY DEF WatcherAssumption
<1>2. PICK c \in Children(x) : d \in Subtree[c]
  BY <1>1
<1>3. c \in Dirs
  BY DEF Children
<1>4. Exists(c)
  BY <1>2, <1>3 DEF DiskOK
<1> QED BY <1>2, <1>3, <1>4 DEF Below

LEMMA UserWatched ==
  ASSUME WatcherAssumption, WellFormed, DiskOK, Watched, User
  PROVE  Watched'
<1> USE TreeFacts, NestFacts
<1>0. /\ disk \in [Dirs -> Versions \cup {Absent}] /\ \A v \in Versions : v # Absent
      /\ missed \subseteq Dirs
  BY DEF WellFormed, TypeOK, Versions
<1>1. Edit /\ UNCHANGED <<loop, missed>>
  BY DEF User, WriteGo, RemoveGo, MakeDir, RemoveDir, ToggleFile, Edit, lost
<1>2. Blind' = Blind
  BY <1>1 DEF Blind
<1>3. ASSUME Events \subseteq Events', \A d \in Dirs : Exists(d)' => Exists(d) /\ (d \in watches => d \in watches')
      PROVE  Watched'
  BY <1>1, <1>2, <1>3 DEF Watched, CreateComing, WalkComing
<1>4. ASSUME NEW d \in Dirs, WriteGo(d) PROVE Watched'
  <2>1. Events \subseteq Events'
    BY <1>1, <1>4, UserQueues DEF WriteGo, Event, Paths
  <2>2. \A x \in Dirs : Exists(x)' => Exists(x)
    BY <1>4, <1>0 DEF WriteGo, Exists
  <2> QED BY <2>1, <2>2, <1>3, <1>4 DEF WriteGo
<1>5. ASSUME NEW d \in Dirs, RemoveGo(d) PROVE Watched'
  <2>1. Events \subseteq Events'
    BY <1>1, <1>5, UserQueues DEF RemoveGo, Event, Paths
  <2>2. \A x \in Dirs : Exists(x)' => Exists(x)
    BY <1>5, <1>0 DEF RemoveGo, Exists, HasGo, GoFiles
  <2> QED BY <2>1, <2>2, <1>3, <1>5 DEF RemoveGo
<1>6. ASSUME NEW d \in Dirs, MakeDir(d) PROVE Watched'
  <2>1. Events' = IF Parent[d] \in watches THEN Events \cup {[kind |-> "create", path |-> d]} ELSE Events
    BY <1>1, <1>6, UserQueues DEF MakeDir, Event, Paths
  <2>2. /\ \A x \in Dirs \ Subtree[d] : Exists(x)' <=> Exists(x)
        /\ d # Root /\ Exists(Parent[d]) /\ watches' = watches
    BY <1>6, MadeDir DEF Exists, MakeDir
  <2>3. Subtree[d] \subseteq Subtree[Parent[d]] /\ Parent[d] \in Dirs
    BY <2>2 DEF Children
  <2>4. ASSUME NEW x \in Subtree[d], x \notin Blind
        PROVE  CreateComing(x)' \/ WalkComing(x)'
    <3>1. CASE Parent[d] \in watches
      <4>1. [kind |-> "create", path |-> d] \in Events' /\ x \in Under(d)
        BY <2>1, <3>1 DEF Under
      <4>2. CreateComing(x)'
        BY <4>1 DEF CreateComing
      <4> QED BY <4>2
    <3>2. CASE Parent[d] \notin watches
      <4>1. Parent[d] \notin Blind
        BY <2>3, <2>4, <1>0, InBlind
      <4>2. CreateComing(Parent[d]) \/ WalkComing(Parent[d])
        BY <4>1, <3>2, <2>2, <2>3 DEF Watched
      <4>3. CASE CreateComing(Parent[d])
        <5>1. PICK e \in Events : e.kind = "create" /\ Parent[d] \in Under(e.path)
          BY <4>3 DEF CreateComing
        <5>2. x \in Under(e.path)
          BY <5>1, <2>3 DEF Under
        <5>3. CreateComing(x)'
          BY <5>1, <5>2, <2>1 DEF CreateComing
        <5> QED BY <5>3
      <4>4. CASE WalkComing(Parent[d])
        <5>1. PICK y \in loop.todo : Parent[d] \in Subtree[y] /\ loop.at = "watch"
          BY <4>4 DEF WalkComing
        <5>2. y \in Dirs
          BY DEF WellFormed, TypeOK
        <5>3. x \in Subtree[y]
          BY <5>1, <5>2, <2>3
        <5>4. WalkComing(x)'
          BY <5>1, <5>3, <1>1 DEF WalkComing
        <5> QED BY <5>4
      <4> QED BY <4>2, <4>3, <4>4
    <3> QED BY <3>1, <3>2
  <2>5. ASSUME NEW x \in Dirs, x \notin Blind, x \notin Subtree[d], Exists(x)'
        PROVE  x \in watches' \/ CreateComing(x)' \/ WalkComing(x)'
    <3>1. x \in watches \/ CreateComing(x) \/ WalkComing(x)
      BY <2>2, <2>5 DEF Watched
    <3> QED BY <3>1, <2>1, <2>2, <1>1 DEF CreateComing, WalkComing
  <2> QED BY <2>4, <2>5, <1>2 DEF Watched
<1>7. ASSUME NEW d \in Dirs, RemoveDir(d) PROVE Watched'
  <2>1. Events \subseteq Events'
    BY <1>1, <1>7, UserQueues DEF RemoveDir, Event, Paths
  <2>2. \A x \in Dirs : Exists(x)' => Exists(x) /\ x \notin Subtree[d]
    BY <1>7, <1>0 DEF RemoveDir, Exists
  <2> QED BY <2>1, <2>2, <1>3, <1>7 DEF RemoveDir
<1>8. ASSUME NEW f \in Files, ToggleFile(f) PROVE Watched'
  <2>1. Events \subseteq Events'
    BY <1>1, <1>8, UserQueues DEF ToggleFile, Event, Paths
  <2> QED BY <2>1, <1>3, <1>8 DEF ToggleFile, Exists
<1> QED BY <1>4, <1>5, <1>6, <1>7, <1>8 DEF User

LEMMA EventLoopWatched ==
  ASSUME WatcherAssumption, WellFormed, DiskOK, Watched, EventLoop
  PROVE  Watched'
<1> USE TreeFacts
<1>0. /\ UNCHANGED disk /\ loop \in [at: LoopStages, event: Event, todo: SUBSET Dirs]
      /\ missed \subseteq Dirs
  BY DEF EventLoop, HandleGo, HandleCreate, HandleRemove, Receive, WatchDir, user, WellFormed, TypeOK
<1>1. CASE WatchDir
  <2>0. Events' = Events /\ loop.at = "watch"
    BY <1>1 DEF WatchDir, Events
  <2>1. PICK x \in loop.todo :
           \/ /\ Exists(x) /\ watches' = watches \cup {x} /\ missed' = missed \ {x}
              /\ loop'.todo = (loop.todo \ {x}) \cup Below(x) /\ loop'.event = loop.event
              /\ loop'.at = IF loop'.todo = {} THEN "lock" ELSE "watch"
           \/ /\ ~Exists(x) /\ watches' = watches
              /\ missed' = missed \cup UNION {Subtree[y] : y \in loop.todo \ {x}}
              /\ loop'.todo = {} /\ loop'.event = loop.event /\ loop'.at = "lock"
    BY <1>0, <1>1, WatchStep
  <2>2. x \in Dirs
    BY <1>0
  <2>3. SUFFICES ASSUME NEW d \in Dirs, d \notin Blind', Exists(d)
                 PROVE  d \in watches' \/ CreateComing(d)' \/ WalkComing(d)'
    BY <1>0 DEF Watched, Exists
  <2>4. CASE Exists(x)
    <3>0. /\ watches' = watches \cup {x} /\ missed' = missed \ {x}
          /\ loop'.todo = (loop.todo \ {x}) \cup Below(x)
          /\ loop'.at = IF loop'.todo = {} THEN "lock" ELSE "watch"
      BY <2>1, <2>4
    <3>1. CASE d = x
      BY <3>0, <3>1
    <3>2. CASE d \in Subtree[x] /\ d # x
      <4>1. PICK c \in Below(x) : d \in Subtree[c]
        BY <3>2, <2>2, <2>3, BelowCovers
      <4>2. WalkComing(d)'
        BY <4>1, <3>0 DEF WalkComing
      <4> QED BY <4>2
    <3>3. CASE d \notin Subtree[x]
      <4>1. d \notin Blind
        BY <3>0, <3>3, <2>3, InBlind
      <4>2. d \in watches \/ CreateComing(d) \/ WalkComing(d)
        BY <4>1, <2>3 DEF Watched
      <4>3. CASE WalkComing(d)
        <5>1. PICK y \in loop.todo : d \in Subtree[y]
          BY <4>3 DEF WalkComing
        <5>2. y \in loop'.todo
          BY <5>1, <3>0, <3>3
        <5>3. WalkComing(d)'
          BY <5>1, <5>2, <3>0 DEF WalkComing
        <5> QED BY <5>3
      <4>4. CreateComing(d) => CreateComing(d)'
        BY <2>0 DEF CreateComing
      <4> QED BY <4>2, <4>3, <4>4, <3>0
    <3> QED BY <3>1, <3>2, <3>3
  <2>5. CASE ~Exists(x)
    <3>0. /\ watches' = watches
          /\ missed' = missed \cup UNION {Subtree[y] : y \in loop.todo \ {x}}
      BY <2>1, <2>5
    <3>1. d \notin Blind
      BY <3>0, <2>3, InBlind
    <3>2. ~WalkComing(d)
      <4>1. SUFFICES ASSUME NEW y \in loop.todo, d \in Subtree[y] PROVE FALSE
        BY DEF WalkComing
      <4>2. y \in Dirs /\ y # x
        BY <4>1, <1>0, <2>3, <2>5 DEF DiskOK
      <4>3. y \in UNION {Subtree[z] : z \in loop.todo \ {x}}
        BY <4>2
      <4> QED BY <4>1, <4>3, <3>0, <2>3, InBlind
    <3>3. CreateComing(d) => CreateComing(d)'
      BY <2>0 DEF CreateComing
    <3> QED BY <3>0, <3>1, <3>2, <3>3, <2>3 DEF Watched
  <2> QED BY <2>4, <2>5
<1>2. CASE ~WatchDir
  <2>1. Events = {Head(events)} \cup Events' /\ loop.at = "idle" /\ Head(events) \in Event
    BY <1>2, LoopQueues
  <2>2. UNCHANGED <<watches, missed>>
    BY <1>2 DEF EventLoop, HandleGo, HandleCreate, HandleRemove, Receive, lost
  <2>3. Blind' = Blind
    BY <2>2 DEF Blind
  <2>4. SUFFICES ASSUME NEW d \in Dirs, d \notin Blind, Exists(d)
                 PROVE  d \in watches \/ CreateComing(d)' \/ WalkComing(d)'
    BY <1>0, <2>2, <2>3 DEF Watched, Exists
  <2>5. d \in watches \/ CreateComing(d)
    BY <2>1, <2>4 DEF Watched, WalkComing
  <2>6. CASE CreateComing(d)
    <3>1. PICK e \in Events : e.kind = "create" /\ d \in Under(e.path)
      BY <2>6 DEF CreateComing
    <3>2. CASE e \in Events'
      BY <3>1, <3>2 DEF CreateComing
    <3>3. CASE e = Head(events)
      <4>1. e.path \in Dirs /\ d \in Subtree[e.path] /\ e.path \notin Files
        BY <3>1 DEF Under
      <4>2. Exists(e.path)
        BY <4>1, <2>4 DEF DiskOK
      <4>3. loop' = [at |-> "watch", event |-> e, todo |-> {e.path}]
        BY <1>2, <3>1, <3>3, <4>1, <4>2 DEF EventLoop, HandleGo, HandleCreate, HandleRemove, Receive
      <4>4. WalkComing(d)'
        BY <4>1, <4>3 DEF WalkComing
      <4> QED BY <4>4
    <3> QED BY <2>1, <3>2, <3>3
  <2> QED BY <2>5, <2>6
<1> QED BY <1>1, <1>2

LEMMA NextWatched ==
  ASSUME WatcherAssumption, WellFormed, DiskOK, Watched, [Next]_vars
  PROVE  Watched'
<1>1. CASE User
  BY <1>1, UserWatched
<1>2. CASE EventLoop
  BY <1>2, EventLoopWatched
<1>3. CASE UNCHANGED vars \/ Timers \/ Lock \/ Job
  <2>1. UNCHANGED <<disk, watches, events, missed>>
    BY <1>3 DEF vars, Timers, Fire, CheckSuperseded, Lock, LockForLoop, LockForTimer, Job, Clear, Scan,
       NextDir, Begin, Parse, Recheck, Drop, Apply, Build, ReadPackages, Walk, ReplaceStructure, user, lost
  <2>2. loop' = loop \/ loop.at # "watch"
    <3>1. CASE UNCHANGED vars \/ Timers \/ Lock
      BY <3>1 DEF vars, Timers, Fire, CheckSuperseded, Lock, LockForLoop, LockForTimer
    <3>2. CASE Job
      <4>1. loop' = loop \/ job.kind \in {"tree", "path"}
        BY <3>2 DEF Job, Clear, Scan, NextDir, Begin, Parse, Recheck, Drop, Apply, Build, ReadPackages,
           Walk, ReplaceStructure, PackageChanged, PackageDone, Goto, Unlock
      <4> QED BY <4>1 DEF WellFormed, JobOK
    <3> QED BY <1>3, <3>1, <3>2
  <2> QED BY <2>1, <2>2 DEF Watched, WalkComing, CreateComing, Events, Blind, Exists
<1> QED BY <1>1, <1>2, <1>3 DEF Next

LEMMA InitWatched == ASSUME Init PROVE Watched
BY DEF Init, Watched

\* However directories are moved in, removed and made again while the event loop walks
\* them, and whatever fails, a directory that is there has its watch, or the event that
\* will give it one is on its way; but for those below one that an aborted walk left out.
THEOREM NoDirIsBlind == ASSUME WatcherAssumption PROVE Spec => []NoBlindDir
<1> DEFINE IInv == WellFormed /\ DiskOK /\ Watched
<1>1. Init => IInv
  BY InitWellFormed, InitKept, InitWatched
<1>2. IInv /\ [Next]_vars => IInv'
  BY NextWellFormed, NextDisk, NextWatched
<1>3. IInv => NoBlindDir
  <2>1. ASSUME NEW d, CreateComing(d)
        PROVE  \E i \in 1..Len(events) : events[i].kind = "create" /\ d \in Under(events[i].path)
    BY <2>1 DEF CreateComing, Events
  <2> QED BY <2>1 DEF Watched, WalkComing, NoBlindDir
<1> QED BY <1>1, <1>2, <1>3, PTL DEF Spec

-----------------------------------------------------------------------------
(* No change to Go files gets lost.                                        *)

GoQueued(d) == \E e \in Queued : e.kind = "go" /\ e.path = d
MakeQueued(d) == \E e \in Queued : e.kind = "create" /\ d \in Under(e.path)
RemoveQueued(d) == \E e \in Queued : e.kind = "remove" /\ d \in Under(e.path)
TimerRuns(d) == \E t \in armed \cup waiting : t[1] = d

\* A later job will be told of the Go files of d: those that are there because they were
\* written or because their directory came, those that are not because they or their
\* directory were removed; or this could not be reported.
Announced(d) ==
  \/ GoQueued(d) \/ TimerRuns(d)
  \/ HasGo(d) /\ (d \in Blind \/ MakeQueued(d))
  \/ ~HasGo(d) /\ (d \in unseen \/ RemoveQueued(d))

\* The job will look at the Go files of d, or it has and they are what it has seen.
JobHas(d) ==
  \/ HasGo(d) /\ (job.stage = "clear" \/ (job.stage = "scan" /\ \E x \in job.todo : d \in Subtree[x]))
  \/ ~HasGo(d) /\ job.stage = "clear" /\ d \in job.todo
  \/ d \in job.found
  \/ job.cur = d /\ job.stage \in {"begin", "parse"}
  \/ job.cur = d /\ ~HasGo(d) /\ job.stage \in {"recheck", "drop"}
  \/ job.cur = d /\ job.stage \in {"apply", "build"} /\ job.res = GoFiles(d)

\* What a job found out before it changes the graph is still so, or it has been announced
\* that it is not.
FoundOut ==
  /\ job.stage \in {"apply", "build"} => job.res = GoFiles(job.cur) \/ Announced(job.cur)
  /\ job.stage = "drop" => ~HasGo(job.cur) \/ Announced(job.cur)

Reported ==
  /\ \A d \in Dirs \ dropped : graph[d] = GoFiles(d) \/ Announced(d) \/ JobHas(d)
  /\ FoundOut

LEMMA UnwatchedIsComing ==
  ASSUME WatcherAssumption, WellFormed, Watched, NEW d \in Dirs, Exists(d), d \notin watches
  PROVE  d \in Blind \/ MakeQueued(d)
<1> USE TreeFacts
<1>1. CASE CreateComing(d)
  BY <1>1, QueuedSplit DEF CreateComing, MakeQueued
<1>2. CASE WalkComing(d)
  <2>1. PICK x \in loop.todo : d \in Subtree[x] /\ loop.at = "watch"
    BY <1>2 DEF WalkComing
  <2>2. /\ loop.event.kind = "create" /\ loop.event.path \in Dirs
        /\ x \in Subtree[loop.event.path]
    BY <2>1 DEF WellFormed, LoopOK
  <2>3. loop.event \in Queued /\ d \in Under(loop.event.path)
    BY <2>1, <2>2, QueuedSplit DEF Under
  <2> QED BY <2>2, <2>3 DEF MakeQueued
<1> QED BY <1>1, <1>2 DEF Watched

\* Whatever the user changes is announced, and what has been announced stays so.
LEMMA UserAnnounces ==
  ASSUME WatcherAssumption, WellFormed, DiskOK, Watched, User
  PROVE  \A d \in Dirs : GoFiles(d)' # GoFiles(d) \/ Announced(d) => Announced(d)'
<1> USE TreeFacts, NestFacts
<1>0. /\ disk \in [Dirs -> Versions \cup {Absent}] /\ \A v \in Versions : v # Absent
      /\ missed \subseteq Dirs
  BY DEF WellFormed, TypeOK, Versions
<1>1. Edit /\ UNCHANGED <<loop, missed, armed, waiting, job, graph>>
  BY DEF User, WriteGo, RemoveGo, MakeDir, RemoveDir, ToggleFile, Edit, lost, timing
<1>2. Blind' = Blind
  BY <1>1 DEF Blind
<1>3. ASSUME NEW d \in Dirs, GoFiles(d)' = GoFiles(d), Announced(d), Queued \subseteq Queued',
             d \in unseen => d \in unseen' \/ RemoveQueued(d)' \/ HasGo(d)
      PROVE  Announced(d)'
  <2>1. HasGo(d)' <=> HasGo(d)
    BY <1>3 DEF HasGo
  <2>2. /\ GoQueued(d) => GoQueued(d)'
        /\ MakeQueued(d) => MakeQueued(d)'
        /\ RemoveQueued(d) => RemoveQueued(d)'
        /\ TimerRuns(d) => TimerRuns(d)'
    BY <1>1, <1>3 DEF GoQueued, MakeQueued, RemoveQueued, TimerRuns
  <2> QED BY <2>1, <2>2, <1>2, <1>3 DEF Announced
<1>4. ASSUME NEW d \in Dirs, WriteGo(d), NEW x \in Dirs, GoFiles(x)' # GoFiles(x) \/ Announced(x)
      PROVE  Announced(x)'
  <2>1. Queued' = IF d \in watches THEN Queued \cup {[kind |-> "go", path |-> d]} ELSE Queued
    BY <1>1, <1>4, UserQueues DEF WriteGo, Event, Paths
  <2>2. \A y \in Dirs : y # d => GoFiles(y)' = GoFiles(y)
    BY <1>4, <1>0 DEF WriteGo, GoFiles, Exists
  <2>3. HasGo(d)' /\ Exists(d) /\ unseen' = unseen
    BY <1>4, <1>0 DEF WriteGo, GoFiles, HasGo, Exists, NewVersion, seen, WellFormed, TypeOK
  <2>4. Announced(d)'
    <3>1. CASE d \in watches
      <4>1. [kind |-> "go", path |-> d] \in Queued'
        BY <2>1, <3>1
      <4> QED BY <4>1 DEF Announced, GoQueued
    <3>2. CASE d \notin watches
      <4>1. d \in Blind \/ MakeQueued(d)
        BY <2>3, <3>2, UnwatchedIsComing
      <4>2. MakeQueued(d) => MakeQueued(d)'
        BY <2>1 DEF MakeQueued
      <4> QED BY <4>1, <4>2, <2>3, <1>2 DEF Announced
    <3> QED BY <3>1, <3>2
  <2>5. CASE x # d
    BY <2>1, <2>2, <2>3, <2>5, <1>3, <1>4
  <2> QED BY <2>4, <2>5
<1>5. ASSUME NEW d \in Dirs, RemoveGo(d), NEW x \in Dirs, GoFiles(x)' # GoFiles(x) \/ Announced(x)
      PROVE  Announced(x)'
  <2>1. Queued' = IF d \in watches THEN Queued \cup {[kind |-> "go", path |-> d]} ELSE Queued
    BY <1>1, <1>5, UserQueues DEF RemoveGo, Event, Paths
  <2>2. \A y \in Dirs : y # d => GoFiles(y)' = GoFiles(y) /\ (y \in unseen => y \in unseen')
    BY <1>5, <1>0 DEF RemoveGo, GoFiles, Exists
  <2>3. ~HasGo(d)' /\ (d \notin watches => d \in unseen')
    BY <1>5, <1>0 DEF RemoveGo, GoFiles, HasGo, Exists
  <2>4. Announced(d)'
    <3>1. CASE d \in watches
      <4>1. [kind |-> "go", path |-> d] \in Queued'
        BY <2>1, <3>1
      <4> QED BY <4>1 DEF Announced, GoQueued
    <3>2. CASE d \notin watches
      BY <3>2, <2>3 DEF Announced
    <3> QED BY <3>1, <3>2
  <2>5. CASE x # d
    BY <2>1, <2>2, <2>5, <1>3, <1>5
  <2> QED BY <2>4, <2>5
<1>6. ASSUME NEW d \in Dirs, MakeDir(d), NEW x \in Dirs, GoFiles(x)' # GoFiles(x) \/ Announced(x)
      PROVE  Announced(x)'
  <2>1. Queued' = IF Parent[d] \in watches THEN Queued \cup {[kind |-> "create", path |-> d]} ELSE Queued
    BY <1>1, <1>6, UserQueues DEF MakeDir, Event, Paths
  <2>2. /\ \A y \in Dirs \ Subtree[d] : disk'[y] = disk[y]
        /\ \A y \in Subtree[d] : ~Exists(y)
        /\ d # Root /\ Exists(Parent[d]) /\ unseen' = unseen
    BY <1>6, MadeDir DEF MakeDir, seen
  <2>3. Subtree[d] \subseteq Subtree[Parent[d]] /\ Parent[d] \in Dirs
    BY <2>2 DEF Children
  <2>4. CASE GoFiles(x)' = GoFiles(x)
    BY <2>1, <2>2, <2>4, <1>3, <1>6
  <2>5. CASE GoFiles(x)' # GoFiles(x)
    <3>1. x \in Subtree[d] /\ HasGo(x)'
      BY <2>2, <2>5 DEF GoFiles, Exists, HasGo
    <3>2. x \in Blind \/ MakeQueued(x)'
      <4>1. CASE Parent[d] \in watches
        <5>1. [kind |-> "create", path |-> d] \in Queued' /\ x \in Under(d)
          BY <2>1, <3>1, <4>1 DEF Under
        <5> QED BY <5>1 DEF MakeQueued
      <4>2. CASE Parent[d] \notin watches
        <5>1. Parent[d] \in Blind \/ MakeQueued(Parent[d])
          BY <2>2, <2>3, <4>2, UnwatchedIsComing
        <5>2. CASE Parent[d] \in Blind
          BY <5>2, <2>3, <3>1, <1>0, InBlind
        <5>3. CASE MakeQueued(Parent[d])
          <6>1. PICK e \in Queued : e.kind = "create" /\ Parent[d] \in Under(e.path)
            BY <5>3 DEF MakeQueued
          <6>2. x \in Under(e.path)
            BY <6>1, <2>3, <3>1 DEF Under
          <6> QED BY <6>1, <6>2, <2>1 DEF MakeQueued
        <5> QED BY <5>1, <5>2, <5>3
      <4> QED BY <4>1, <4>2
    <3> QED BY <3>1, <3>2, <1>2 DEF Announced
  <2> QED BY <2>4, <2>5
<1>7. ASSUME NEW d \in Dirs, RemoveDir(d), NEW x \in Dirs, GoFiles(x)' # GoFiles(x) \/ Announced(x)
      PROVE  Announced(x)'
  <2>1. Queued' = IF Parent[d] \in watches THEN Queued \cup {[kind |-> "remove", path |-> d]} ELSE Queued
    BY <1>1, <1>7, UserQueues DEF RemoveDir, Event, Paths
  <2>2. /\ \A y \in Dirs \ Subtree[d] : GoFiles(y)' = GoFiles(y) /\ (y \in unseen => y \in unseen')
        /\ \A y \in Subtree[d] : ~HasGo(y)'
    BY <1>7, <1>0 DEF RemoveDir, GoFiles, Exists, HasGo
  <2>3. CASE x \notin Subtree[d]
    BY <2>1, <2>2, <2>3, <1>3, <1>7
  <2>4. CASE x \in Subtree[d]
    <3>1. x \in unseen' \/ RemoveQueued(x)'
      <4>1. CASE Parent[d] \in watches
        <5>1. [kind |-> "remove", path |-> d] \in Queued' /\ x \in Under(d)
          BY <2>1, <2>4, <4>1 DEF Under
        <5> QED BY <5>1 DEF RemoveQueued
      <4>2. CASE Parent[d] \notin watches
        BY <4>2, <2>4, <1>7 DEF RemoveDir
      <4> QED BY <4>1, <4>2
    <3> QED BY <3>1, <2>2, <2>4 DEF Announced
  <2> QED BY <2>3, <2>4
<1>8. ASSUME NEW f \in Files, ToggleFile(f), NEW x \in Dirs, GoFiles(x)' # GoFiles(x) \/ Announced(x)
      PROVE  Announced(x)'
  <2>1. Queued \subseteq Queued'
    BY <1>1, <1>8, UserQueues DEF ToggleFile, Event, Paths
  <2>2. GoFiles(x)' = GoFiles(x) /\ unseen' = unseen
    BY <1>8 DEF ToggleFile, GoFiles, Exists, seen
  <2> QED BY <2>1, <2>2, <1>3, <1>8
<1> QED BY <1>4, <1>5, <1>6, <1>7, <1>8 DEF User

\* What is on its way stays on its way through the event loop and the timers.
LEMMA EventLoopAnnounces ==
  ASSUME WatcherAssumption, WellFormed, DiskOK, EventLoop
  PROVE  \A d \in Dirs : Announced(d) => Announced(d)'
<1> USE TreeFacts
<1>0. /\ UNCHANGED <<disk, unseen>> /\ loop \in [at: LoopStages, event: Event, todo: SUBSET Dirs]
  BY DEF EventLoop, HandleGo, HandleCreate, HandleRemove, Receive, WatchDir, user, seen, WellFormed, TypeOK
<1>1. SUFFICES ASSUME NEW d \in Dirs, Announced(d) PROVE Announced(d)'
  OBVIOUS
<1>2. (HasGo(d)' <=> HasGo(d)) /\ (Exists(d)' <=> Exists(d))
  BY <1>0 DEF HasGo, GoFiles, Exists
<1>3. CASE WatchDir
  <2>1. Queued' = Queued /\ UNCHANGED <<armed, waiting>> /\ loop.at = "watch"
    BY <1>3, LoopQueues DEF WatchDir, timing
  <2>2. d \in Blind => d \in Blind' \/ MakeQueued(d)
    <3>1. ASSUME d \in Blind, d \notin Blind' PROVE MakeQueued(d)
      <4>1. PICK x \in loop.todo : missed \ {x} \subseteq missed'
        <5>1. PICK x \in loop.todo : missed' = missed \ {x} \/
                missed' = missed \cup UNION {Subtree[y] : y \in loop.todo \ {x}}
          BY <1>3, <1>0, WatchStep
        <5> QED BY <5>1
      <4>2. d \in Subtree[x]
        BY <3>1, <4>1, InBlind
      <4>3. loop.event.kind = "create" /\ loop.event.path \in Dirs /\ x \in Subtree[loop.event.path]
        BY <2>1 DEF WellFormed, LoopOK
      <4>4. loop.event \in Queued /\ d \in Under(loop.event.path)
        BY <2>1, <4>2, <4>3, QueuedSplit DEF Under
      <4> QED BY <4>3, <4>4 DEF MakeQueued
    <3> QED BY <3>1
  <2> QED BY <2>1, <2>2, <1>0, <1>1, <1>2
          DEF Announced, GoQueued, MakeQueued, RemoveQueued, TimerRuns
<1>4. CASE ~WatchDir
  <2> DEFINE e == Head(events)
  <2>1. /\ e \in Event /\ e \in Events /\ Queued = {e} \cup Queued' /\ loop.at = "idle"
        /\ missed' = missed
    BY <1>4, LoopQueues DEF EventLoop, HandleGo, HandleCreate, HandleRemove, Receive, lost
  <2> HIDE DEF e
  <2>2. Blind' = Blind
    BY <2>1 DEF Blind
  <2>3. ASSUME GoQueued(d) => GoQueued(d)' \/ TimerRuns(d)',
               HasGo(d) /\ MakeQueued(d) => MakeQueued(d)',
               RemoveQueued(d) => RemoveQueued(d)', TimerRuns(d) => TimerRuns(d)'
        PROVE  Announced(d)'
    BY <2>2, <2>3, <1>0, <1>1, <1>2 DEF Announced
  <2>4. ASSUME NEW s \in Slots, Debounce(s)
        PROVE  (TimerRuns(d) => TimerRuns(d)') /\ (s = d => TimerRuns(d)')
    BY <2>4 DEF Debounce, TimerRuns
  <2>5. UNCHANGED timing => (TimerRuns(d) => TimerRuns(d)')
    BY DEF timing, TimerRuns
  <2>6. CASE HandleGo
    <3>1. e.kind = "go" /\ Debounce(e.path) /\ e.path \in Slots
      BY <2>1, <2>6 DEF HandleGo, Receive, e, WellFormed, EventsOK, Slots
    <3>2. GoQueued(d) => GoQueued(d)' \/ TimerRuns(d)'
      BY <2>1, <2>4, <3>1 DEF GoQueued
    <3>3. (MakeQueued(d) => MakeQueued(d)') /\ (RemoveQueued(d) => RemoveQueued(d)')
      BY <2>1, <3>1 DEF MakeQueued, RemoveQueued
    <3> QED BY <3>1, <3>2, <3>3, <2>3, <2>4
  <2>7. CASE HandleCreate
    <3>1. e.kind = "create" /\ "structure" \in Slots
      BY <2>7 DEF HandleCreate, Receive, e, Slots
    <3>2. (GoQueued(d) => GoQueued(d)') /\ (RemoveQueued(d) => RemoveQueued(d)')
      BY <2>1, <3>1 DEF GoQueued, RemoveQueued
    <3>3. Debounce("structure") \/ UNCHANGED timing
      BY <2>7 DEF HandleCreate
    <3>4. TimerRuns(d) => TimerRuns(d)'
      BY <3>1, <3>3, <2>4, <2>5
    <3>5. ASSUME HasGo(d), MakeQueued(d) PROVE MakeQueued(d)'
      <4>1. PICK c \in Queued : c.kind = "create" /\ d \in Under(c.path)
        BY <3>5 DEF MakeQueued
      <4>2. CASE c \in Queued'
        BY <4>1, <4>2 DEF MakeQueued
      <4>3. CASE c = e
        <5>1. e.path \in Dirs /\ d \in Subtree[e.path] /\ e.path \notin Files
          BY <4>1, <4>3 DEF Under
        <5>2. Exists(e.path)
          BY <5>1, <3>5 DEF DiskOK, HasGo, GoFiles
        <5>3. loop' = [at |-> "watch", event |-> e, todo |-> {e.path}]
          BY <2>7, <5>1, <5>2 DEF HandleCreate, e
        <5>4. e \in Queued'
          BY <5>3, QueuedSplit
        <5> QED BY <4>1, <4>3, <5>4 DEF MakeQueued
      <4> QED BY <2>1, <4>2, <4>3
    <3> QED BY <3>2, <3>4, <3>5, <2>3
  <2>8. CASE HandleRemove
    <3>1. loop' = [at |-> "lock", event |-> e, todo |-> {}] /\ UNCHANGED timing
      BY <2>8 DEF HandleRemove, e
    <3>2. e \in Queued'
      BY <3>1, QueuedSplit
    <3>3. Queued' = Queued
      BY <3>2, <2>1
    <3> QED BY <3>1, <3>3, <2>3, <2>5 DEF GoQueued, MakeQueued, RemoveQueued
  <2> QED BY <1>4, <2>6, <2>7, <2>8 DEF EventLoop
<1> QED BY <1>3, <1>4

LEMMA TimersAnnounce ==
  ASSUME WatcherAssumption, Timers
  PROVE  \A d \in Dirs : Announced(d) => Announced(d)'
<1>1. PICK t \in Timer : Fire(t) \/ CheckSuperseded(t)
  BY DEF Timers
<1>2. UNCHANGED <<disk, events, loop, unseen, missed>>
  BY <1>1 DEF Fire, CheckSuperseded, user, seen, lost
<1>3. Queued' = Queued /\ Blind' = Blind /\ unseen' = unseen /\ \A d \in Dirs : HasGo(d)' <=> HasGo(d)
  BY <1>2 DEF Queued, Blind, HasGo, GoFiles, Exists
<1>4. \A d \in Dirs : TimerRuns(d) => TimerRuns(d)'
  BY <1>1, TreeFacts DEF Fire, CheckSuperseded, TimerRuns
<1> QED BY <1>3, <1>4 DEF Announced, GoQueued, MakeQueued, RemoveQueued

\* The job leaves alone what is on its way.
LEMMA JobFrame ==
  ASSUME WellFormed, Job
  PROVE  /\ UNCHANGED <<user, watches, events, armed, started, waiting, missed, unseen>>
         /\ loop' = loop \/ (loop' = IdleLoop /\ loop.at = "job")
         /\ Queued' = Queued /\ Events' = Events
<1>1. UNCHANGED <<user, watches, events, armed, started, waiting, missed, unseen>>
  BY DEF Job, Clear, Scan, NextDir, Begin, Parse, Recheck, Drop, Apply, Build, ReadPackages,
         Walk, ReplaceStructure, timing, lost, seen
<1>2. loop' = loop \/ (loop' = IdleLoop /\ job.kind \in {"tree", "path"})
  BY DEF Job, Clear, Scan, NextDir, Begin, Parse, Recheck, Drop, Apply, Build, ReadPackages,
     Walk, ReplaceStructure, PackageChanged, PackageDone, Goto, Unlock
<1>3. loop' = loop \/ (loop' = IdleLoop /\ loop.at = "job")
  BY <1>2 DEF WellFormed, JobOK
<1>4. Events' = Events
  BY <1>1 DEF Events
<1>5. Queued' = Queued
  BY <1>3, <1>4, QueuedSplit DEF IdleLoop
<1> QED BY <1>1, <1>3, <1>4, <1>5

LEMMA UserReported ==
  ASSUME WatcherAssumption, WellFormed, DiskOK, Watched, Reported, User
  PROVE  Reported'
<1>1. UNCHANGED <<job, graph, dropped>>
  BY DEF User, WriteGo, RemoveGo, MakeDir, RemoveDir, ToggleFile, Edit, lost
<1>2. \A d \in Dirs : GoFiles(d)' # GoFiles(d) \/ Announced(d) => Announced(d)'
  BY UserAnnounces
<1>3. \A d \in Dirs : GoFiles(d)' = GoFiles(d) /\ JobHas(d) => JobHas(d)'
  BY <1>1 DEF JobHas, HasGo
<1>4. job.stage \in {"apply", "build", "drop"} => job.cur \in Dirs
  BY DEF WellFormed, JobOK, PackageStages
<1>5. FoundOut'
  BY <1>1, <1>2, <1>4 DEF Reported, FoundOut, HasGo
<1> QED BY <1>1, <1>2, <1>3, <1>5 DEF Reported

LEMMA OthersReported ==
  ASSUME WatcherAssumption, WellFormed, DiskOK, Reported, EventLoop \/ Timers \/ UNCHANGED vars
  PROVE  Reported'
<1>1. UNCHANGED <<disk, job, graph, dropped>>
  BY DEF EventLoop, HandleGo, HandleCreate, HandleRemove, Receive, WatchDir, Timers, Fire,
     CheckSuperseded, vars, user, lost
<1>2. \A d \in Dirs : Announced(d) => Announced(d)'
  <2>1. CASE UNCHANGED vars
    BY <2>1 DEF vars, user, timing, lost, seen, Announced, GoQueued, MakeQueued, RemoveQueued,
       TimerRuns, Queued, Blind, HasGo, GoFiles, Exists
  <2> QED BY <2>1, EventLoopAnnounces, TimersAnnounce
<1>3. \A d \in Dirs : GoFiles(d)' = GoFiles(d) /\ (JobHas(d) => JobHas(d)') /\ (HasGo(d)' <=> HasGo(d))
  BY <1>1 DEF JobHas, HasGo, GoFiles, Exists
<1>4. job.stage \in {"apply", "build", "drop"} => job.cur \in Dirs
  BY DEF WellFormed, JobOK, PackageStages
<1>5. FoundOut'
  BY <1>1, <1>2, <1>3, <1>4 DEF Reported, FoundOut
<1> QED BY <1>1, <1>2, <1>3, <1>5 DEF Reported

\* The job that takes updateMu looks into what was announced for it.
LEMMA LockReported ==
  ASSUME WatcherAssumption, WellFormed, Reported, Lock
  PROVE  Reported'
<1> USE TreeFacts
<1>0. /\ UNCHANGED <<disk, events, graph, dropped, unseen, missed, armed>> /\ job = IdleJob
      /\ loop \in [at: LoopStages, event: Event, todo: SUBSET Dirs]
      /\ job \in Jobs /\ graph \in [Dirs -> Versions]
  BY DEF Lock, LockForLoop, LockForTimer, user, lost, seen, timing, WellFormed, TypeOK, Jobs
<1>1. \A d \in Dirs : ~JobHas(d)
  BY <1>0 DEF JobHas, IdleJob
<1>2. Blind' = Blind /\ Events' = Events /\ \A d \in Dirs : GoFiles(d)' = GoFiles(d) /\ (HasGo(d)' <=> HasGo(d))
  BY <1>0 DEF Blind, Events, HasGo, GoFiles, Exists
<1>3. ASSUME NEW t \in Timer, LockForTimer(t) PROVE Reported'
  <2>1. /\ waiting' = waiting \ {t} /\ loop' = loop
        /\ job' = IF t[1] = "structure"
                  THEN [IdleJob EXCEPT !.kind = "structure", !.stage = "structure"]
                  ELSE [IdleJob EXCEPT !.kind = "package", !.stage = "begin", !.cur = t[1]]
    BY <1>3 DEF LockForTimer
  <2>2. job'.stage \in {"structure", "begin"} /\ (t[1] # "structure" => job'.stage = "begin" /\ job'.cur = t[1])
    BY <2>1 DEF IdleJob
  <2>3. FoundOut'
    BY <2>2 DEF FoundOut
  <2>4. Queued' = Queued
    BY <2>1, <1>2, QueuedSplit
  <2>5. ASSUME NEW d \in Dirs, Announced(d) PROVE Announced(d)' \/ JobHas(d)'
    <3>1. CASE TimerRuns(d)
      <4>1. CASE t[1] = d
        BY <4>1, <2>2 DEF JobHas
      <4>2. CASE t[1] # d
        BY <3>1, <4>2, <2>1, <1>0 DEF TimerRuns, Announced
      <4> QED BY <4>1, <4>2
    <3>2. CASE ~TimerRuns(d)
      BY <3>2, <2>4, <2>5, <1>0, <1>2 DEF Announced, GoQueued, MakeQueued, RemoveQueued
    <3> QED BY <3>1, <3>2
  <2> QED BY <2>3, <2>5, <1>0, <1>1, <1>2 DEF Reported
<1>4. CASE LockForLoop
  <2> DEFINE known == Under(loop.event.path) \cap Packages
             e == loop.event
  <2>1. /\ loop.at = "lock" /\ loop' = [loop EXCEPT !.at = "job"] /\ UNCHANGED <<armed, waiting>>
        /\ job' = CASE e.kind = "create" ->
                         [IdleJob EXCEPT !.kind = "tree", !.stage = "scan", !.todo = {e.path}]
                    [] e.kind = "remove" /\ known = {} ->
                         [IdleJob EXCEPT !.kind = "path", !.stage = "structure"]
                    [] OTHER ->
                         [IdleJob EXCEPT !.kind = "tree", !.stage = "clear", !.todo = known]
    BY <1>4 DEF LockForLoop, timing
  <2>2. e.kind = "remove" \/ (e.kind = "create" /\ e.path \in Dirs)
    BY <2>1 DEF WellFormed, LoopOK
  <2>3. Queued \subseteq Queued' \cup {e}
    BY <2>1, <1>0, <1>2, QueuedSplit
  <2>4. \A d \in Dirs : d \in known <=> d \in Under(e.path) /\ graph[d] # 0
    BY DEF Packages
  <2> HIDE DEF known, e
  <2>5. job'.stage \in {"scan", "structure", "clear"}
    BY <2>1, <2>2 DEF IdleJob
  <2>6. FoundOut'
    BY <2>5 DEF FoundOut
  <2>7. ASSUME NEW d \in Dirs, Announced(d)
        PROVE  graph[d] = GoFiles(d) \/ Announced(d)' \/ JobHas(d)'
    <3>1. TimerRuns(d) => TimerRuns(d)'
      BY <2>1 DEF TimerRuns
    <3>2. GoQueued(d) => GoQueued(d)'
      BY <2>2, <2>3 DEF GoQueued
    <3>3. CASE HasGo(d) /\ MakeQueued(d)
      <4>1. PICK c \in Queued : c.kind = "create" /\ d \in Under(c.path)
        BY <3>3 DEF MakeQueued
      <4>2. CASE c \in Queued'
        BY <4>1, <4>2, <3>3, <1>2 DEF MakeQueued, Announced
      <4>3. CASE c = e
        <5>1. d \in Subtree[e.path]
          BY <4>1, <4>3 DEF Under
        <5>2. job'.stage = "scan" /\ job'.todo = {e.path}
          BY <2>1, <4>1, <4>3 DEF IdleJob
        <5> QED BY <5>1, <5>2, <3>3, <1>2 DEF JobHas
      <4> QED BY <2>3, <4>2, <4>3
    <3>4. CASE ~HasGo(d) /\ RemoveQueued(d)
      <4>1. PICK c \in Queued : c.kind = "remove" /\ d \in Under(c.path)
        BY <3>4 DEF RemoveQueued
      <4>2. CASE c \in Queued'
        BY <4>1, <4>2, <3>4, <1>2 DEF RemoveQueued, Announced
      <4>3. CASE c = e
        <5>1. CASE graph[d] = 0
          BY <5>1, <3>4 DEF HasGo
        <5>2. CASE graph[d] # 0
          <6>1. d \in known
            BY <5>2, <4>1, <4>3, <2>4
          <6>2. job'.stage = "clear" /\ job'.todo = known
            BY <6>1, <2>1, <4>1, <4>3 DEF IdleJob
          <6> QED BY <6>1, <6>2, <3>4, <1>2 DEF JobHas
        <5> QED BY <5>1, <5>2
      <4> QED BY <2>3, <4>2, <4>3
    <3>5. CASE (HasGo(d) /\ d \in Blind) \/ (~HasGo(d) /\ d \in unseen)
      BY <3>5, <1>0, <1>2 DEF Announced
    <3>6. \/ GoQueued(d) \/ TimerRuns(d)
          \/ HasGo(d) /\ MakeQueued(d)
          \/ ~HasGo(d) /\ RemoveQueued(d)
          \/ HasGo(d) /\ d \in Blind
          \/ ~HasGo(d) /\ d \in unseen
      BY <2>7 DEF Announced
    <3>7. GoQueued(d)' \/ TimerRuns(d)' => Announced(d)'
      BY DEF Announced
    <3> QED BY <3>1, <3>2, <3>3, <3>4, <3>5, <3>6, <3>7
  <2> QED BY <2>6, <2>7, <1>0, <1>1, <1>2 DEF Reported
<1> QED BY <1>3, <1>4 DEF Lock

LEMMA JobReported ==
  ASSUME WatcherAssumption, WellFormed, DiskOK, Reported, Job
  PROVE  Reported'
<1> USE TreeFacts
<1>0. /\ job \in Jobs /\ JobOK /\ graph \in [Dirs -> Versions]
      /\ UNCHANGED <<disk, armed, waiting, unseen, missed>> /\ Queued' = Queued
  BY JobFrame DEF WellFormed, TypeOK, Jobs, user, seen
<1>1. \A d : GoFiles(d)' = GoFiles(d) /\ (HasGo(d)' <=> HasGo(d)) /\ (Announced(d)' <=> Announced(d))
  BY <1>0 DEF HasGo, GoFiles, Exists, Announced, GoQueued, MakeQueued, RemoveQueued, TimerRuns, Blind
<1>2. ASSUME FoundOut',
             \A d \in Dirs \ dropped' :
               \/ graph'[d] = GoFiles(d) \/ Announced(d)
               \/ d \notin dropped /\ graph'[d] = graph[d] /\ (JobHas(d) => JobHas(d)')
      PROVE  Reported'
  BY <1>1, <1>2 DEF Reported
<1>3. ASSUME job'.stage \notin {"drop", "apply", "build"} PROVE FoundOut'
  BY <1>3 DEF FoundOut
<1>4. \A d : ~HasGo(d) <=> GoFiles(d) = 0
  BY DEF HasGo
\* The job at one package, done with it.
<1>5. ASSUME NEW ok, PackageDone(ok), job.kind \in {"tree", "package"},
             job.stage \in {"recheck", "drop", "apply", "build"},
             \A d \in Dirs \ dropped' :
               \/ graph'[d] = GoFiles(d) \/ Announced(d)
               \/ d \notin dropped /\ graph'[d] = graph[d] /\ (d # job.cur \/ d \in job.found)
      PROVE  Reported'
  <2>1. \/ job' = [job EXCEPT !.stage = "next"] /\ job.kind = "tree"
        \/ job'.stage \in {"structure", "idle"} /\ job.kind = "package"
    BY <1>0, <1>5, AfterPackage DEF IdleJob, Jobs
  <2>2. job'.stage \in {"next", "structure", "idle"} /\ (job.found = {} \/ job'.found = job.found)
    BY <2>1, <1>0 DEF JobOK, Jobs
  <2>3. FoundOut'
    BY <2>2, <1>3
  <2>4. \A d : d # job.cur \/ d \in job.found => (JobHas(d) => JobHas(d)')
    BY <2>2, <1>5 DEF JobHas
  <2> QED BY <2>3, <2>4, <1>2, <1>5
<1>10. CASE Clear
  <2>1. PICK gone \in SUBSET job.todo : /\ RemovePackages(gone)
                                        /\ dropped' = (dropped \ gone) \cup (job.todo \ gone)
    BY <1>10 DEF Clear
  <2>2. job.stage = "clear" /\ job' = [job EXCEPT !.stage = "scan", !.todo = {Root}]
    BY <1>10 DEF Clear
  <2>3. job'.stage = "scan" /\ job'.todo = {Root} /\ job'.found = job.found
    BY <2>2, <1>0 DEF Jobs
  <2>4. ASSUME NEW d \in Dirs \ dropped'
        PROVE  Reported' \/ graph'[d] = GoFiles(d) \/ Announced(d) \/ JobHas(d)'
    <3>1. HasGo(d) => JobHas(d)'
      BY <2>3, <1>1 DEF JobHas
    <3>2. CASE d \in gone
      <4>1. graph'[d] = 0
        BY <3>2, <2>1 DEF RemovePackages
      <4> QED BY <4>1, <3>1, <1>4
    <3>3. CASE d \notin gone
      <4>1. d \notin job.todo /\ d \notin dropped /\ graph'[d] = graph[d]
        BY <3>3, <2>1, <2>4, <1>0 DEF RemovePackages
      <4>2. JobHas(d) => HasGo(d) \/ d \in job.found
        BY <4>1, <2>2 DEF JobHas
      <4>3. d \in job.found => JobHas(d)'
        BY <2>3 DEF JobHas
      <4> QED BY <4>1, <4>2, <4>3, <3>1 DEF Reported
    <3> QED BY <3>2, <3>3
  <2>5. FoundOut'
    BY <2>3, <1>3
  <2> QED BY <2>4, <2>5, <1>1 DEF Reported
<1>11. CASE Scan
  <2>1. job.stage = "scan" /\ graph' = graph
    BY <1>11 DEF Scan
  <2>2. /\ job'.stage = IF job'.todo = {} THEN "next" ELSE "scan"
        /\ \E x \in job.todo :
              \/ /\ Exists(x) /\ dropped' = dropped
                 /\ job'.todo = (job.todo \ {x}) \cup Below(x)
                 /\ job'.found = IF HasGo(x) THEN job.found \cup {x} ELSE job.found
              \/ /\ ~Exists(x) /\ job'.todo = {} /\ job'.found = job.found
                 /\ dropped' = dropped \cup UNION {Subtree[y] : y \in job.todo \ {x}}
    BY <1>0, <1>11, ScanStep
  <2>3. PICK x \in job.todo :
              \/ /\ Exists(x) /\ dropped' = dropped
                 /\ job'.todo = (job.todo \ {x}) \cup Below(x)
                 /\ job'.found = IF HasGo(x) THEN job.found \cup {x} ELSE job.found
              \/ /\ ~Exists(x) /\ job'.todo = {} /\ job'.found = job.found
                 /\ dropped' = dropped \cup UNION {Subtree[y] : y \in job.todo \ {x}}
    BY <2>2
  <2>4. \A y \in job.todo : y \in Dirs
    BY <1>0 DEF Jobs
  <2>5. ASSUME NEW d \in Dirs \ dropped', JobHas(d) PROVE JobHas(d)'
    <3>1. CASE d \in job.found
      BY <3>1, <2>3 DEF JobHas
    <3>2. CASE HasGo(d) /\ \E y \in job.todo : d \in Subtree[y]
      <4>0. PICK y \in job.todo : d \in Subtree[y]
        BY <3>2
      <4>1. CASE Exists(x)
        <5>0. job'.todo = (job.todo \ {x}) \cup Below(x)
              /\ job'.found = IF HasGo(x) THEN job.found \cup {x} ELSE job.found
          BY <4>1, <2>3
        <5>1. CASE y # x
          BY <5>1, <4>0, <5>0, <3>2, <2>2, <1>1 DEF JobHas
        <5>2. CASE d = x
          BY <5>2, <5>0, <3>2 DEF JobHas
        <5>3. CASE y = x /\ d # x
          <6>1. Exists(d)
            BY <3>2 DEF HasGo, GoFiles
          <6>2. PICK c \in Below(x) : d \in Subtree[c]
            BY <6>1, <5>3, <4>0, <2>4, BelowCovers
          <6> QED BY <6>2, <5>0, <3>2, <2>2, <1>1 DEF JobHas
        <5> QED BY <5>1, <5>2, <5>3
      <4>2. CASE ~Exists(x)
        <5>1. y # x
          BY <4>0, <4>2, <3>2, <2>4 DEF DiskOK, HasGo, GoFiles
        <5>2. d \in UNION {Subtree[z] : z \in job.todo \ {x}}
          BY <5>1, <4>0
        <5> QED BY <5>2, <4>2, <2>3, <2>5
      <4> QED BY <4>1, <4>2
    <3> QED BY <3>1, <3>2, <2>1, <2>5 DEF JobHas
  <2>6. dropped \subseteq dropped'
    BY <2>3
  <2>7. FoundOut'
    BY <2>2, <1>3
  <2> QED BY <2>1, <2>5, <2>6, <2>7, <1>2
<1>12. CASE NextDir
  <2>1. job.stage = "next" /\ UNCHANGED <<graph, dropped>>
    BY <1>12 DEF NextDir, lost
  <2>2. CASE job.found = {}
    <3>1. job'.stage = "structure"
      BY <2>2, <1>12, <1>0 DEF NextDir, Jobs
    <3>2. \A d : ~JobHas(d)
      BY <2>1, <2>2 DEF JobHas
    <3> QED BY <3>1, <3>2, <2>1, <1>2, <1>3
  <2>3. CASE job.found # {}
    <3>1. PICK c \in job.found : job' = [job EXCEPT !.stage = "begin", !.cur = c, !.found = @ \ {c}]
      BY <2>3, <1>12 DEF NextDir
    <3>2. job'.stage = "begin" /\ job'.cur = c /\ job'.found = job.found \ {c}
      BY <3>1, <1>0 DEF Jobs
    <3>3. \A d : JobHas(d) => JobHas(d)'
      BY <3>2, <2>1 DEF JobHas
    <3> QED BY <3>2, <3>3, <2>1, <1>2, <1>3
  <2> QED BY <2>2, <2>3
<1>13. CASE Begin
  <2>1. job.stage = "begin" /\ UNCHANGED <<graph, dropped>>
    BY <1>13 DEF Begin, lost
  <2>2. /\ job'.stage \in {"drop", "parse"} /\ job'.cur = job.cur /\ job'.found = job.found
        /\ job'.stage = "drop" => ~HasGo(job.cur)
    BY <1>13, <1>0 DEF Begin, Jobs
  <2>3. FoundOut'
    BY <2>2, <1>1 DEF FoundOut
  <2>4. \A d : JobHas(d) => JobHas(d)'
    BY <2>1, <2>2, <1>1 DEF JobHas
  <2> QED BY <2>1, <2>3, <2>4, <1>2
<1>14. CASE Parse
  <2>1. job.stage = "parse" /\ graph' = graph
    BY <1>14 DEF Parse
  <2>2. /\ job'.cur = job.cur /\ job'.found = job.found
        /\ \/ HasGo(job.cur) /\ job'.stage = "apply" /\ job'.res = disk[job.cur] /\ dropped' = dropped
           \/ ~HasGo(job.cur) /\ job'.stage = "recheck" /\ dropped' = dropped
           \/ job'.stage = "recheck" /\ dropped' = dropped \cup {job.cur}
    <3>1. \/ /\ HasGo(job.cur) /\ dropped' = dropped
             /\ job' = [job EXCEPT !.stage = "apply", !.res = disk[job.cur]]
          \/ ~HasGo(job.cur) /\ job' = [job EXCEPT !.stage = "recheck"] /\ dropped' = dropped
          \/ job' = [job EXCEPT !.stage = "recheck"] /\ dropped' = dropped \cup {job.cur}
      BY <1>14 DEF Parse
    <3> QED BY <3>1, <1>0 DEF Jobs
  <2>3. HasGo(job.cur) => disk[job.cur] = GoFiles(job.cur)
    BY DEF HasGo, GoFiles
  <2>4. FoundOut'
    BY <2>2, <2>3, <1>1 DEF FoundOut
  <2>5. \A d \in Dirs \ dropped' : JobHas(d) => JobHas(d)'
    BY <2>1, <2>2, <2>3, <1>1 DEF JobHas
  <2> QED BY <2>1, <2>2, <2>4, <2>5, <1>2
<1>15. CASE Recheck
  <2>1. /\ job.stage = "recheck" /\ UNCHANGED <<graph, dropped>>
        /\ job.cur \in Dirs /\ job.kind \in {"tree", "package"} /\ (job.known <=> graph[job.cur] # 0)
    BY <1>15, <1>0 DEF Recheck, lost, JobOK, PackageStages
  <2>2. CASE job.known /\ ~HasGo(job.cur)
    <3>1. job' = [job EXCEPT !.stage = "drop"]
      BY <2>2, <1>15 DEF Recheck, Goto
    <3>2. job'.stage = "drop" /\ job'.cur = job.cur /\ job'.found = job.found
      BY <3>1, <1>0 DEF Jobs
    <3>3. FoundOut'
      BY <3>2, <2>2, <1>1 DEF FoundOut
    <3>4. \A d : JobHas(d) => JobHas(d)'
      BY <2>1, <3>2, <1>1 DEF JobHas
    <3> QED BY <2>1, <3>3, <3>4, <1>2
  <2>3. CASE ~(job.known /\ ~HasGo(job.cur))
    <3>1. PackageDone(FALSE)
      BY <2>3, <1>15 DEF Recheck
    <3>2. ASSUME job.cur \notin dropped
          PROVE  graph[job.cur] = GoFiles(job.cur) \/ Announced(job.cur) \/ job.cur \in job.found
      <4>1. CASE ~HasGo(job.cur)
        BY <4>1, <2>1, <2>3, <1>4
      <4>2. CASE HasGo(job.cur)
        <5>1. JobHas(job.cur) => job.cur \in job.found
          BY <4>2, <2>1 DEF JobHas
        <5> QED BY <5>1, <2>1, <3>2 DEF Reported
      <4> QED BY <4>1, <4>2
    <3> QED BY <3>1, <3>2, <2>1, <1>5
  <2> QED BY <2>2, <2>3
<1>16. CASE Drop
  <2>1. /\ job.stage = "drop" /\ job.cur \in Dirs /\ job.kind \in {"tree", "package"}
    BY <1>16, <1>0 DEF Drop, JobOK, PackageStages
  <2>2. ~HasGo(job.cur) \/ Announced(job.cur)
    BY <2>1 DEF Reported, FoundOut
  <2>3. \/ RemovePackages({job.cur}) /\ dropped' = dropped \ {job.cur}
        \/ graph' = graph /\ dropped' = dropped \cup {job.cur}
    BY <1>16 DEF Drop, PackageChanged
  <2>4. PICK ok : PackageDone(ok)
    BY <1>16 DEF Drop, PackageChanged
  <2>5. ASSUME NEW d \in Dirs \ dropped'
        PROVE  \/ graph'[d] = GoFiles(d) \/ Announced(d)
               \/ d \notin dropped /\ graph'[d] = graph[d] /\ d # job.cur
    BY <2>2, <2>3, <2>5, <1>4 DEF RemovePackages
  <2> QED BY <2>1, <2>4, <2>5, <1>5
<1>17. CASE Apply
  <2>1. job.stage = "apply" /\ job.cur \in Dirs /\ job.kind \in {"tree", "package"}
    BY <1>17, <1>0 DEF Apply, JobOK, PackageStages
  <2>2. CASE RemovePackages({job.cur}) /\ Goto("build") /\ UNCHANGED dropped
    <3>1. job'.stage = "build" /\ job'.cur = job.cur /\ job'.found = job.found /\ job'.res = job.res
      BY <2>2, <1>0 DEF Goto, Jobs
    <3>2. FoundOut'
      BY <2>1, <3>1, <1>1 DEF Reported, FoundOut
    <3>3. ASSUME NEW d \in Dirs \ dropped', d # job.cur PROVE graph'[d] = graph[d]
      BY <2>2, <3>3 DEF RemovePackages
    <3>4. \A d : d # job.cur => (JobHas(d) => JobHas(d)')
      BY <2>1, <3>1 DEF JobHas
    <3>5. \A d : d = job.cur => JobHas(d)' \/ Announced(d)
      BY <2>1, <3>1, <1>1 DEF Reported, FoundOut, JobHas
    <3>6. ASSUME NEW d \in Dirs \ dropped'
          PROVE  graph'[d] = GoFiles(d) \/ Announced(d) \/ JobHas(d)'
      <4>1. CASE d = job.cur
        BY <4>1, <3>5
      <4>2. CASE d # job.cur
        <5>1. graph[d] = GoFiles(d) \/ Announced(d) \/ JobHas(d)
          BY <2>2, <3>6 DEF Reported
        <5> QED BY <4>2, <5>1, <3>3, <3>4, <3>6
      <4> QED BY <4>1, <4>2
    <3> QED BY <3>2, <3>6, <1>1 DEF Reported
  <2>3. CASE /\ PackageDone(FALSE) /\ graph' = graph
             /\ dropped' = dropped \cup {job.cur}
    BY <2>1, <2>3, <1>5
  <2> QED BY <1>17, <2>2, <2>3 DEF Apply
<1>18. CASE Build
  <2>1. job.stage = "build" /\ job.cur \in Dirs /\ job.kind \in {"tree", "package"}
    BY <1>18, <1>0 DEF Build, JobOK, PackageStages
  <2>2. job.res = GoFiles(job.cur) \/ Announced(job.cur)
    BY <2>1 DEF Reported, FoundOut
  <2>3. \/ graph' = [graph EXCEPT ![job.cur] = job.res] /\ dropped' = dropped \ {job.cur}
        \/ graph' = graph /\ dropped' = dropped \cup {job.cur}
    BY <1>18 DEF Build, PackageChanged
  <2>4. PICK ok : PackageDone(ok)
    BY <1>18 DEF Build, PackageChanged
  <2>5. ASSUME NEW d \in Dirs \ dropped'
        PROVE  \/ graph'[d] = GoFiles(d) \/ Announced(d)
               \/ d \notin dropped /\ graph'[d] = graph[d] /\ d # job.cur
    BY <2>2, <2>3, <2>5, <1>0
  <2> QED BY <2>1, <2>4, <2>5, <1>5
<1>19. CASE ReadPackages \/ Walk \/ ReplaceStructure
  <2>1. job.stage \in {"structure", "walk", "replace"} /\ UNCHANGED <<graph, dropped>>
    BY <1>19 DEF ReadPackages, Walk, ReplaceStructure, lost
  <2>2. \A d : ~JobHas(d)
    BY <2>1, <1>0 DEF JobHas, JobOK
  <2>3. job'.stage \in {"walk", "replace", "idle"}
    <3>1. CASE ReadPackages
      BY <3>1, <1>0 DEF ReadPackages, Jobs
    <3>2. CASE Walk
      BY <3>2, <1>0, WalkStep DEF Unlock, IdleJob
    <3>3. CASE ReplaceStructure
      BY <3>3 DEF ReplaceStructure, Unlock, IdleJob
    <3> QED BY <1>19, <3>1, <3>2, <3>3
  <2> QED BY <2>1, <2>2, <2>3, <1>2, <1>3
<1> QED BY <1>10, <1>11, <1>12, <1>13, <1>14, <1>15, <1>16, <1>17, <1>18, <1>19 DEF Job

LEMMA InitReported == ASSUME Init PROVE Reported
BY DEF Init, Reported, FoundOut, IdleJob

\* No change to Go files is lost, in any order of edits, events, timers and jobs, and
\* whatever fails: while graph and disk disagree about a directory, something is on its
\* way that will make a job read the directory again; but for directories an error was
\* logged for, those below one without a watch, and Go files removed when there was none.
THEOREM NoChangeIsLost == ASSUME WatcherAssumption PROVE Spec => []NoLostChange
<1> DEFINE IInv == WellFormed /\ DiskOK /\ Watched /\ Reported
<1>1. Init => IInv
  BY InitWellFormed, InitKept, InitWatched, InitReported
<1>2. IInv /\ [Next]_vars => IInv'
  BY NextWellFormed, NextDisk, NextWatched, UserReported, OthersReported, LockReported, JobReported
     DEF Next
<1>3. IInv => NoLostChange
  <2> SUFFICES ASSUME IInv, NEW d \in Dirs \ (Blind \cup dropped)
               PROVE  \/ graph[d] = GoFiles(d)
                      \/ ChangePending(d)
                      \/ d \in unseen /\ ~HasGo(d)
    BY DEF NoLostChange
  <2>1. graph[d] = GoFiles(d) \/ Announced(d) \/ JobHas(d)
    BY DEF Reported
  <2>2. JobHas(d) => JobCovers(d)
    BY DEF JobHas, JobCovers, HasGo
  <2>3. \A e \in Queued : e.kind \in {"go", "create", "remove"}
    <3>1. loop.event \in Event /\ Events \subseteq Event
      BY DEF WellFormed, TypeOK, Events
    <3> QED BY <3>1, QueuedSplit DEF Event
  <2>4. GoQueued(d) \/ TimerRuns(d) \/ MakeQueued(d) \/ RemoveQueued(d) => ChangePending(d)
    BY <2>3 DEF GoQueued, TimerRuns, MakeQueued, RemoveQueued, ChangePending
  <2> QED BY <2>1, <2>2, <2>4 DEF Announced, ChangePending
<1> QED BY <1>1, <1>2, <1>3, PTL DEF Spec

-----------------------------------------------------------------------------
(* No path is forgotten by the folder tree.                                *)

\* A refresh of the folder tree is on its way: an event will start one, the timer in the
\* slot will, or its callback waits for updateMu ...
InSlot == <<"structure", timers["structure"]>>
EventRefreshes == \E e \in Queued : e.kind = "remove" \/ (e.kind = "create" /\ e.path \in OnDisk)
RefreshQueued ==
  \/ EventRefreshes
  \/ loop.at \in {"watch", "lock"}
  \/ InSlot \in armed \cup started
  \/ \E t \in waiting : t[1] = "structure"
\* ... or the job is going to do one.
RefreshInJob ==
  job.kind \in {"tree", "path", "structure"} /\ job.stage \notin {"walk", "replace"}

\* A structure timer that has not fired is the one in the slot.
SlotOK ==
  /\ \A t \in armed : t[1] = "structure" => t = InSlot
  /\ armed \cap started = {}

\* The walk visits no path twice.
ToVisit(x, p) == p \in Under(x) \/ (x = Root /\ p \in Files)
WalkOK ==
  job.stage = "walk" =>
    /\ \A x \in job.todo : \A p \in job.seen.paths : ~ToVisit(x, p)
    /\ \A x, y \in job.todo : x # y => Subtree[x] \cap Subtree[y] = {}

\* What the walk has seen is still so, or it has yet to see it.
WillShow(p) ==
  \/ job.stage = "walk" /\ \E x \in job.todo : ToVisit(x, p)
  \/ p \in job.seen.paths <=> p \in OnDisk

Shows ==
  IF job.stage \in {"walk", "replace"}
  THEN /\ \A p \in Paths : WillShow(p)
       /\ job.stage = "walk" => \A x \in job.todo : Exists(x)
  ELSE treeLost \/ \A p \in Paths : p \in tree.paths <=> p \in OnDisk

Shown == missed # {} \/ RefreshQueued \/ RefreshInJob \/ Shows

LEMMA SlotStep ==
  ASSUME WatcherAssumption, WellFormed, SlotOK, [Next]_vars
  PROVE  SlotOK'
<1> USE TreeFacts
<1>0. /\ timers \in [Slots -> 0..MaxTimers] /\ "structure" \in Slots
      /\ armed \subseteq Timer /\ started \subseteq Timer
  BY DEF WellFormed, TypeOK, Slots
<1>1. ASSUME UNCHANGED <<armed, started>>, timers'["structure"] = timers["structure"]
      PROVE  SlotOK'
  BY <1>1 DEF SlotOK, InSlot
<1>2. ASSUME NEW s \in Slots, Debounce(s)
      PROVE  SlotOK'
  <2>1. PICK k \in TimerIDs :
          /\ <<s, k>> \notin armed \cup started \cup waiting
          /\ armed' = (armed \ {<<s, timers[s]>>}) \cup {<<s, k>>}
          /\ timers' = [timers EXCEPT ![s] = k]
          /\ started' = started
    BY <1>2 DEF Debounce
  <2>2. armed' \cap started' = {}
    BY <2>1 DEF SlotOK
  <2>3. CASE s = "structure"
    <3>1. timers'["structure"] = k
      BY <2>1, <2>3, <1>0
    <3>2. \A t \in armed' : t[1] = "structure" => t = <<"structure", k>>
      BY <2>1, <2>3 DEF SlotOK, InSlot
    <3> QED BY <2>2, <3>1, <3>2 DEF SlotOK, InSlot
  <2>4. CASE s # "structure"
    <3>1. timers'["structure"] = timers["structure"]
      BY <2>1, <2>4, <1>0
    <3>2. \A t \in armed' : t[1] = "structure" => t \in armed
      BY <2>1, <2>4
    <3> QED BY <2>2, <3>1, <3>2 DEF SlotOK, InSlot
  <2> QED BY <2>3, <2>4
<1>3. CASE UNCHANGED vars \/ User \/ Lock
  BY <1>1, <1>3 DEF vars, timing, User, WriteGo, RemoveGo, MakeDir, RemoveDir, ToggleFile, Edit,
     Lock, LockForLoop, LockForTimer
<1>4. CASE EventLoop
  <2>1. CASE HandleGo
    <3>1. Head(events) \in Events /\ Debounce(Head(events).path) /\ Head(events).kind = "go"
      BY <2>1, LoopQueues DEF HandleGo, Receive, EventLoop, WatchDir
    <3>2. Head(events).path \in Slots
      BY <3>1 DEF WellFormed, EventsOK, Slots
    <3> QED BY <3>1, <3>2, <1>2
  <2>2. CASE HandleCreate
    <3>1. Debounce("structure") \/ UNCHANGED timing
      BY <2>2 DEF HandleCreate
    <3> QED BY <3>1, <1>0, <1>1, <1>2 DEF timing
  <2>3. CASE HandleRemove \/ WatchDir
    BY <2>3, <1>1 DEF HandleRemove, WatchDir, timing
  <2> QED BY <1>4, <2>1, <2>2, <2>3 DEF EventLoop
<1>5. CASE Timers
  <2>1. PICK t \in Timer : Fire(t) \/ CheckSuperseded(t)
    BY <1>5 DEF Timers
  <2>2. CASE Fire(t)
    BY <2>2 DEF Fire, SlotOK, InSlot
  <2>3. CASE CheckSuperseded(t)
    <3>1. armed' = armed /\ started' = started \ {t} /\ t \in started
      BY <2>3 DEF CheckSuperseded
    <3>2. CASE timers'["structure"] = timers["structure"]
      BY <3>1, <3>2 DEF SlotOK, InSlot
    <3>3. CASE timers'["structure"] # timers["structure"]
      <4>1. t[1] = "structure" /\ timers["structure"] = t[2]
        BY <3>3, <2>3, <1>0 DEF CheckSuperseded
      <4>2. t = InSlot
        BY <4>1 DEF InSlot, Timer
      <4>3. \A s \in armed : s[1] # "structure"
        BY <4>2, <3>1 DEF SlotOK
      <4> QED BY <4>3, <3>1 DEF SlotOK
    <3> QED BY <3>2, <3>3
  <2> QED BY <2>1, <2>2, <2>3
<1>6. CASE Job
  <2>1. UNCHANGED <<armed, started>>
    BY <1>6, JobFrame
  <2>2. CASE Begin
    <3>1. job.cur \in Dirs /\ timers' = [timers EXCEPT ![job.cur] = 0]
      BY <2>2 DEF Begin, WellFormed, JobOK, PackageStages
    <3>2. timers'["structure"] = timers["structure"]
      BY <3>1, <1>0
    <3> QED BY <2>1, <3>2, <1>1
  <2>3. CASE ~Begin
    <3>1. timers' = timers
      BY <1>6, <2>3 DEF Job, Clear, Scan, NextDir, Parse, Recheck, Drop, Apply, Build, ReadPackages,
         Walk, ReplaceStructure, timing
    <3> QED BY <2>1, <3>1, <1>1
  <2> QED BY <2>2, <2>3
<1> QED BY <1>3, <1>4, <1>5, <1>6 DEF Next

\* Whatever comes to the disk or leaves it, a refresh is on its way.
LEMMA UserRefreshes ==
  ASSUME WatcherAssumption, WellFormed, DiskOK, Watched, User, missed = {}
  PROVE  \/ RefreshQueued'
         \/ OnDisk' = OnDisk /\ ~RefreshQueued
<1> USE TreeFacts, NestFacts
<1>0. /\ disk \in [Dirs -> Versions \cup {Absent}] /\ \A v \in Versions : v # Absent
      /\ others \subseteq Files
  BY DEF WellFormed, TypeOK, Versions
<1>1. Edit /\ UNCHANGED <<loop, armed, started, waiting, timers>>
  BY DEF User, WriteGo, RemoveGo, MakeDir, RemoveDir, ToggleFile, Edit, timing
<1>2. ASSUME OnDisk' = OnDisk, Queued \subseteq Queued', RefreshQueued PROVE RefreshQueued'
  BY <1>1, <1>2 DEF RefreshQueued, InSlot, EventRefreshes
<1>3. ASSUME NEW e \in Queued', e.kind = "remove" \/ (e.kind = "create" /\ e.path \in OnDisk')
      PROVE  RefreshQueued'
  BY <1>3 DEF RefreshQueued, EventRefreshes
\* A directory without a watch is about to get one.
<1>4. ASSUME NEW d \in Dirs, Exists(d), d \notin watches, Queued \subseteq Queued',
             \A x \in Dirs : d \in Subtree[x] /\ Exists(x) => Exists(x)'
      PROVE  RefreshQueued'
  <2>1. d \notin Blind
    BY InBlind
  <2>2. CASE WalkComing(d)
    BY <2>2, <1>1 DEF WalkComing, RefreshQueued
  <2>3. CASE CreateComing(d)
    <3>1. PICK e \in Events : e.kind = "create" /\ d \in Under(e.path)
      BY <2>3 DEF CreateComing
    <3>2. e.path \in Dirs /\ d \in Subtree[e.path] /\ Exists(e.path)
      BY <3>1, <1>4 DEF Under, DiskOK
    <3>3. e \in Queued' /\ Exists(e.path)'
      BY <3>2, <1>4, QueuedSplit
    <3>4. e.path \in OnDisk'
      BY <3>2, <3>3 DEF OnDisk
    <3> QED BY <3>1, <3>3, <3>4, <1>3
  <2> QED BY <2>1, <2>2, <2>3, <1>4 DEF Watched
<1>5. ASSUME NEW d \in Dirs, WriteGo(d) PROVE RefreshQueued' \/ (OnDisk' = OnDisk /\ ~RefreshQueued)
  <2>1. Queued \subseteq Queued'
    BY <1>1, <1>5, UserQueues DEF WriteGo, Event, Paths
  <2>2. (\A x \in Dirs : Exists(x)' <=> Exists(x)) /\ others' = others
    BY <1>5, <1>0 DEF WriteGo, Exists, NewVersion, WellFormed, TypeOK
  <2>3. OnDisk' = OnDisk
    BY <2>2 DEF OnDisk
  <2> QED BY <2>1, <2>3, <1>2
<1>6. ASSUME NEW d \in Dirs, RemoveGo(d) PROVE RefreshQueued' \/ (OnDisk' = OnDisk /\ ~RefreshQueued)
  <2>1. Queued \subseteq Queued'
    BY <1>1, <1>6, UserQueues DEF RemoveGo, Event, Paths
  <2>2. (\A x \in Dirs : Exists(x)' <=> Exists(x)) /\ others' = others
    BY <1>6, <1>0 DEF RemoveGo, Exists, HasGo, GoFiles
  <2>3. OnDisk' = OnDisk
    BY <2>2 DEF OnDisk
  <2> QED BY <2>1, <2>3, <1>2
<1>7. ASSUME NEW d \in Dirs, MakeDir(d) PROVE RefreshQueued'
  <2>1. Queued' = IF Parent[d] \in watches THEN Queued \cup {[kind |-> "create", path |-> d]} ELSE Queued
    BY <1>1, <1>7, UserQueues DEF MakeDir, Event, Paths
  <2>2. /\ \A x \in Dirs : Exists(x) => Exists(x)'
        /\ d # Root /\ Exists(Parent[d]) /\ Exists(d)'
    BY <1>7, MadeDir DEF Exists
  <2>3. CASE Parent[d] \in watches
    <3>1. d \in OnDisk'
      BY <2>2 DEF OnDisk
    <3> QED BY <2>1, <2>3, <3>1, <1>3
  <2>4. CASE Parent[d] \notin watches
    <3>1. Parent[d] \in Dirs
      BY <2>2
    <3> QED BY <2>1, <2>2, <2>4, <3>1, <1>4
  <2> QED BY <2>3, <2>4
<1>8. ASSUME NEW d \in Dirs, RemoveDir(d) PROVE RefreshQueued'
  <2>1. Queued' = IF Parent[d] \in watches THEN Queued \cup {[kind |-> "remove", path |-> d]} ELSE Queued
    BY <1>1, <1>8, UserQueues DEF RemoveDir, Event, Paths
  <2>2. /\ d # Root /\ Exists(d) /\ Parent[d] \in Dirs
        /\ \A x \in Dirs \ Subtree[d] : Exists(x) => Exists(x)'
    BY <1>8, <1>0 DEF RemoveDir, Exists
  <2>3. d \in Subtree[Parent[d]]
    BY <2>2 DEF Children
  <2>4. Exists(Parent[d])
    BY <2>2, <2>3 DEF DiskOK
  <2>5. CASE Parent[d] \in watches
    BY <2>1, <2>5, <1>3
  <2>6. CASE Parent[d] \notin watches
    <3>1. ASSUME NEW x \in Dirs, Parent[d] \in Subtree[x], Exists(x) PROVE Exists(x)'
      <4>1. x \notin Subtree[d]
        BY <3>1, <2>2
      <4> QED BY <4>1, <3>1, <2>2
    <3> QED BY <2>1, <2>2, <2>4, <2>6, <3>1, <1>4
  <2> QED BY <2>5, <2>6
<1>9. ASSUME NEW f \in Files, ToggleFile(f) PROVE RefreshQueued'
  <2>0. [kind |-> IF f \in others THEN "remove" ELSE "create", path |-> f] \in Event
    BY DEF Event, Paths
  <2>1. [kind |-> IF f \in others THEN "remove" ELSE "create", path |-> f] \in Queued'
    BY <1>1, <1>9, <2>0, UserQueues DEF ToggleFile, DiskOK
  <2>2. f \notin others => f \in OnDisk'
    BY <1>9 DEF ToggleFile, OnDisk
  <2> QED BY <2>1, <2>2, <1>3
<1> QED BY <1>5, <1>6, <1>7, <1>8, <1>9 DEF User

LEMMA UserShown ==
  ASSUME WatcherAssumption, WellFormed, DiskOK, Watched, WalkOK, Shown, User
  PROVE  WalkOK' /\ Shown'
<1>1. UNCHANGED <<job, tree, missed, treeLost>>
  BY DEF User, WriteGo, RemoveGo, MakeDir, RemoveDir, ToggleFile, Edit, lost
<1>2. WalkOK'
  BY <1>1 DEF WalkOK
<1>3. CASE missed # {}
  BY <1>1, <1>2, <1>3 DEF Shown
<1>4. CASE missed = {}
  <2>1. RefreshQueued' \/ (OnDisk' = OnDisk /\ ~RefreshQueued)
    BY <1>4, UserRefreshes
  <2>2. RefreshInJob' <=> RefreshInJob
    BY <1>1 DEF RefreshInJob
  <2>3. ASSUME OnDisk' = OnDisk, Shows PROVE Shows'
    <3>1. \A x \in Dirs : Exists(x) <=> x \in OnDisk
      <4>1. others \subseteq Files
        BY DEF WellFormed, TypeOK
      <4> QED BY <4>1, TreeFacts DEF OnDisk
    <3>2. \A x \in Dirs : Exists(x)' <=> x \in OnDisk'
      <4>1. others' \subseteq Files
        BY UserWellFormed DEF WellFormed, TypeOK
      <4> QED BY <4>1, TreeFacts DEF OnDisk
    <3>3. job.todo \subseteq Dirs
      BY DEF WellFormed, TypeOK
    <3>4. \A x \in job.todo : Exists(x) => Exists(x)'
      BY <2>3, <3>1, <3>2, <3>3
    <3>5. \A p : WillShow(p) => WillShow(p)'
      BY <1>1, <2>3 DEF WillShow
    <3> QED BY <1>1, <2>3, <3>4, <3>5 DEF Shows
  <2> QED BY <1>2, <1>4, <2>1, <2>2, <2>3 DEF Shown
<1> QED BY <1>3, <1>4

\* The event loop and the timers keep a refresh on its way.
LEMMA EventLoopRefreshes ==
  ASSUME WatcherAssumption, WellFormed, EventLoop, RefreshQueued
  PROVE  RefreshQueued'
<1> USE TreeFacts
<1>0. /\ UNCHANGED <<disk, others, started, waiting>>
      /\ timers \in [Slots -> 0..MaxTimers] /\ "structure" \in Slots /\ others \subseteq Files
      /\ loop \in [at: LoopStages, event: Event, todo: SUBSET Dirs]
  BY DEF EventLoop, HandleGo, HandleCreate, HandleRemove, Receive, WatchDir, user, timing, Debounce,
     WellFormed, TypeOK, Slots
<1>1. CASE WatchDir
  <2>1. loop'.at \in {"watch", "lock"}
    BY <1>0, <1>1, WatchStep
  <2> QED BY <2>1 DEF RefreshQueued
<1>2. CASE ~WatchDir
  <2> DEFINE e == Head(events)
  <2>1. /\ e \in Event /\ e \in Events /\ Queued = {e} \cup Queued' /\ loop.at = "idle"
    BY <1>2, LoopQueues
  <2> HIDE DEF e
  <2>2. OnDisk' = OnDisk
    BY <1>0 DEF OnDisk, Exists
  <2>3. ASSUME NEW s \in Slots, Debounce(s)
        PROVE  /\ s = "structure" => RefreshQueued'
               /\ InSlot \in armed \cup started => InSlot' \in armed' \cup started'
    <3>1. PICK k \in TimerIDs : /\ armed' = (armed \ {<<s, timers[s]>>}) \cup {<<s, k>>}
                                /\ timers' = [timers EXCEPT ![s] = k]
      BY <2>3 DEF Debounce
    <3>2. CASE s = "structure"
      <4>1. InSlot' = <<s, k>>
        BY <3>1, <3>2, <1>0 DEF InSlot
      <4> QED BY <4>1, <3>1 DEF RefreshQueued
    <3>3. CASE s # "structure"
      <4>1. InSlot' = InSlot
        BY <3>1, <3>3, <1>0 DEF InSlot
      <4> QED BY <4>1, <3>1, <3>3, <1>0 DEF InSlot
    <3> QED BY <3>2, <3>3
  <2>4. UNCHANGED timing => (InSlot \in armed \cup started => InSlot' \in armed' \cup started')
    BY DEF timing, InSlot
  <2>5. ASSUME e.kind = "go" \/ (e.kind = "create" /\ e.path \notin OnDisk),
               InSlot \in armed \cup started => InSlot' \in armed' \cup started'
        PROVE  RefreshQueued'
    <3>1. EventRefreshes => EventRefreshes'
      BY <2>1, <2>2, <2>5 DEF EventRefreshes
    <3> QED BY <3>1, <2>1, <2>5, <1>0 DEF RefreshQueued
  <2>6. CASE HandleGo
    <3>1. e.kind = "go" /\ Debounce(e.path) /\ e.path \in Slots
      BY <2>1, <2>6 DEF HandleGo, Receive, e, WellFormed, EventsOK, Slots
    <3> QED BY <3>1, <2>3, <2>5
  <2>7. CASE HandleCreate
    <3>1. e.kind = "create" /\ e.path \in Paths
      BY <2>1, <2>7 DEF HandleCreate, Receive, e, Event
    <3>2. CASE e.path \in Files
      <4>1. IF e.path \in others THEN Debounce("structure") ELSE UNCHANGED timing
        BY <2>7, <3>2 DEF HandleCreate, e
      <4>2. e.path \notin others => e.path \notin OnDisk
        BY <3>2 DEF OnDisk
      <4> QED BY <3>1, <4>1, <4>2, <2>3, <2>4, <2>5, <1>0
    <3>3. CASE e.path \notin Files
      <4>1. /\ UNCHANGED timing
            /\ loop' = IF Exists(e.path) THEN [at |-> "watch", event |-> e, todo |-> {e.path}] ELSE loop
        BY <2>7, <3>3 DEF HandleCreate, e
      <4>2. CASE Exists(e.path)
        BY <4>1, <4>2 DEF RefreshQueued
      <4>3. CASE ~Exists(e.path)
        <5>1. e.path \notin OnDisk
          BY <4>3, <3>3, <1>0 DEF OnDisk
        <5> QED BY <5>1, <3>1, <4>1, <2>4, <2>5
      <4> QED BY <4>2, <4>3
    <3> QED BY <3>2, <3>3
  <2>8. CASE HandleRemove
    <3>1. loop'.at = "lock"
      BY <2>8 DEF HandleRemove
    <3> QED BY <3>1 DEF RefreshQueued
  <2> QED BY <1>2, <2>6, <2>7, <2>8 DEF EventLoop
<1> QED BY <1>1, <1>2

LEMMA TimersRefresh ==
  ASSUME WatcherAssumption, WellFormed, Timers, RefreshQueued
  PROVE  RefreshQueued'
<1>1. PICK t \in Timer : Fire(t) \/ CheckSuperseded(t)
  BY DEF Timers
<1>2. /\ UNCHANGED <<disk, others, events, loop>>
      /\ timers \in [Slots -> 0..MaxTimers] /\ "structure" \in Slots
  BY <1>1 DEF Fire, CheckSuperseded, user, WellFormed, TypeOK, Slots
<1>3. EventRefreshes' <=> EventRefreshes
  BY <1>2 DEF EventRefreshes, Queued, OnDisk, Exists
<1>4. waiting \subseteq waiting'
  BY <1>1 DEF Fire, CheckSuperseded
<1>5. ASSUME InSlot \in armed \cup started
      PROVE  InSlot' \in armed' \cup started' \/ \E s \in waiting' : s[1] = "structure"
  <2>1. CASE Fire(t)
    <3>1. InSlot' = InSlot
      BY <2>1 DEF Fire, InSlot
    <3>2. t = InSlot => t[1] = "structure"
      BY DEF InSlot
    <3> QED BY <3>1, <3>2, <2>1, <1>5 DEF Fire
  <2>2. CASE CheckSuperseded(t)
    <3>1. CASE t[1] = "structure" /\ timers[t[1]] = t[2]
      BY <2>2, <3>1 DEF CheckSuperseded
    <3>2. CASE t[1] # "structure" \/ timers[t[1]] # t[2]
      <4>1. t # InSlot
        BY <3>2 DEF InSlot
      <4>2. InSlot' = InSlot
        BY <2>2, <3>2, <1>2 DEF CheckSuperseded, InSlot
      <4> QED BY <4>1, <4>2, <2>2, <1>5 DEF CheckSuperseded
    <3> QED BY <3>1, <3>2
  <2> QED BY <1>1, <2>1, <2>2
<1> QED BY <1>2, <1>3, <1>4, <1>5 DEF RefreshQueued

LEMMA OthersShown ==
  ASSUME WatcherAssumption, WellFormed, WalkOK, Shown, EventLoop \/ Timers \/ UNCHANGED vars
  PROVE  WalkOK' /\ Shown'
<1>1. UNCHANGED <<disk, others, job, tree, treeLost>>
  BY DEF EventLoop, HandleGo, HandleCreate, HandleRemove, Receive, WatchDir, Timers, Fire,
     CheckSuperseded, vars, user, lost
<1>2. WalkOK' /\ (RefreshInJob' <=> RefreshInJob) /\ (Shows' <=> Shows)
  BY <1>1 DEF WalkOK, RefreshInJob, Shows, WillShow, OnDisk, Exists
<1>3. RefreshQueued => RefreshQueued'
  <2>1. CASE UNCHANGED vars
    BY <2>1 DEF vars, user, timing, RefreshQueued, EventRefreshes, InSlot, Queued, OnDisk, Exists
  <2> QED BY <2>1, EventLoopRefreshes, TimersRefresh
<1>4. missed # {} => missed' # {} \/ RefreshQueued'
  <2>1. CASE WatchDir
    <3>1. loop'.at \in {"watch", "lock"}
      BY <2>1, WatchStep DEF WellFormed, TypeOK
    <3> QED BY <3>1 DEF RefreshQueued
  <2>2. CASE ~WatchDir
    BY <2>2 DEF EventLoop, HandleGo, HandleCreate, HandleRemove, Receive, Timers, Fire,
       CheckSuperseded, vars, lost
  <2> QED BY <2>1, <2>2
<1> QED BY <1>2, <1>3, <1>4 DEF Shown

LEMMA LockShown ==
  ASSUME WatcherAssumption, WellFormed, WalkOK, Shown, Lock
  PROVE  WalkOK' /\ Shown'
<1>0. /\ UNCHANGED <<disk, others, events, tree, treeLost, missed, armed, started, timers>>
      /\ job = IdleJob
  BY DEF Lock, LockForLoop, LockForTimer, user, lost, timing
<1>1. CASE LockForLoop
  <2>1. job'.kind \in {"tree", "path"} /\ job'.stage \in {"scan", "clear", "structure"}
    BY <1>1 DEF LockForLoop, IdleJob
  <2> QED BY <2>1 DEF WalkOK, Shown, RefreshInJob
<1>2. ASSUME NEW t \in Timer, LockForTimer(t) PROVE WalkOK' /\ Shown'
  <2>1. /\ waiting' = waiting \ {t} /\ loop' = loop
        /\ job' = IF t[1] = "structure"
                  THEN [IdleJob EXCEPT !.kind = "structure", !.stage = "structure"]
                  ELSE [IdleJob EXCEPT !.kind = "package", !.stage = "begin", !.cur = t[1]]
    BY <1>2 DEF LockForTimer
  <2>2. CASE t[1] = "structure"
    <3>1. job'.kind = "structure" /\ job'.stage = "structure"
      BY <2>1, <2>2 DEF IdleJob
    <3> QED BY <3>1 DEF WalkOK, Shown, RefreshInJob
  <2>3. CASE t[1] # "structure"
    <3>1. job'.stage = "begin" /\ job.stage = "idle" /\ job.kind = "none"
      BY <2>1, <2>3, <1>0 DEF IdleJob
    <3>2. OnDisk' = OnDisk
      BY <1>0 DEF OnDisk, Exists
    <3>3. RefreshQueued => RefreshQueued'
      BY <2>1, <2>3, <3>2, <1>0 DEF RefreshQueued, EventRefreshes, Queued, InSlot
    <3>4. Shows => Shows'
      BY <3>1, <3>2, <1>0 DEF Shows
    <3>5. ~RefreshInJob
      BY <3>1 DEF RefreshInJob
    <3> QED BY <3>1, <3>3, <3>4, <3>5, <1>0 DEF WalkOK, Shown
  <2> QED BY <2>2, <2>3
<1> QED BY <1>1, <1>2 DEF Lock

\* One directory of the walk that is still there.
LEMMA WalkShows ==
  ASSUME WatcherAssumption, WellFormed, DiskOK, WalkOK, Walk, NEW x \in job.todo, Exists(x),
         job'.todo = (job.todo \ {x}) \cup Below(x),
         job'.seen.paths = job.seen.paths \cup {x} \cup (IF x = Root THEN others ELSE {}),
         job'.stage = IF job'.todo = {} THEN "replace" ELSE "walk"
  PROVE  /\ WalkOK'
         /\ Shows => Shows'
<1> USE TreeFacts, NestFacts
<1>0. /\ job.todo \subseteq Dirs /\ x \in Dirs /\ others \subseteq Files /\ job.stage = "walk"
      /\ UNCHANGED <<disk, others, tree, treeLost>>
  BY DEF WellFormed, TypeOK, Walk, user, lost
<1>1. \A y \in Below(x) : /\ y \in Dirs /\ y # Root /\ Parent[y] = x /\ Exists(y)
                          /\ Subtree[y] \subseteq Subtree[x] /\ x \notin Subtree[y]
  BY <1>0 DEF Below, Children
<1>2. (\A y \in job.todo : \A p \in job.seen.paths : ~ToVisit(y, p))
      /\ \A y, z \in job.todo : y # z => Subtree[y] \cap Subtree[z] = {}
  BY <1>0 DEF WalkOK
<1>3. OnDisk' = OnDisk /\ \A y \in Dirs : (Exists(y)' <=> Exists(y)) /\ (y \in OnDisk <=> Exists(y))
  BY <1>0 DEF OnDisk, Exists
<1>4. ASSUME NEW y \in job'.todo, NEW p \in job'.seen.paths PROVE ~ToVisit(y, p)
  <2>1. CASE y \in job.todo \ {x}
    <3>1. y \in Dirs /\ Subtree[x] \cap Subtree[y] = {}
      BY <2>1, <1>0, <1>2
    <3>2. CASE p \in job.seen.paths
      BY <2>1, <3>2, <1>2
    <3>3. CASE p = x
      BY <3>1, <3>3, <1>0 DEF ToVisit, Under
    <3>4. CASE x = Root /\ p \in others
      BY <3>1, <3>4, <1>0
    <3> QED BY <1>4, <3>2, <3>3, <3>4
  <2>2. CASE y \in Below(x)
    <3>1. \A q : ToVisit(y, q) => q \in Subtree[x] /\ q \in Dirs
      BY <2>2, <1>1 DEF ToVisit, Under
    <3>2. CASE p \in job.seen.paths
      BY <3>1, <3>2, <1>0, <1>2 DEF ToVisit, Under
    <3>3. CASE p = x
      BY <2>2, <3>3, <1>0, <1>1 DEF ToVisit, Under
    <3>4. CASE x = Root /\ p \in others
      BY <3>1, <3>4, <1>0
    <3> QED BY <1>4, <3>2, <3>3, <3>4
  <2> QED BY <1>4, <2>1, <2>2
<1>5. ASSUME NEW y \in job'.todo, NEW z \in job'.todo, y # z PROVE Subtree[y] \cap Subtree[z] = {}
  <2>1. ASSUME NEW a \in job.todo \ {x}, NEW b \in Below(x) PROVE Subtree[a] \cap Subtree[b] = {}
    BY <1>1, <1>2
  <2>2. ASSUME NEW a \in Below(x), NEW b \in Below(x), a # b PROVE a \notin Subtree[b]
    <3>1. a \in Subtree[b] => Parent[a] \in Subtree[b]
      BY <1>1, <2>2
    <3> QED BY <3>1, <1>1
  <2>3. CASE y \in Below(x) /\ z \in Below(x)
    BY <2>2, <2>3, <1>1, <1>5
  <2> QED BY <2>1, <2>3, <1>2, <1>5
<1>6. WalkOK'
  BY <1>4, <1>5 DEF WalkOK, ToVisit
<1>7. ASSUME Shows PROVE Shows'
  <2>1. (\A p \in Paths : WillShow(p)) /\ \A y \in job.todo : Exists(y)
    BY <1>0, <1>7 DEF Shows
  <2>2. \A y \in job'.todo : Exists(y)'
    BY <2>1, <1>0, <1>1, <1>3
  <2>3. ASSUME NEW p \in Paths PROVE WillShow(p)'
    <3>1. ASSUME NEW y \in job'.todo, ToVisit(y, p) PROVE WillShow(p)'
      <4>1. job'.stage = "walk"
        BY <3>1
      <4> QED BY <3>1, <4>1 DEF WillShow, ToVisit
    <3>2. ASSUME p \in job'.seen.paths <=> p \in OnDisk PROVE WillShow(p)'
      BY <3>2, <1>3 DEF WillShow
    <3>3. CASE p \in Subtree[x] /\ p # x
      <4>1. p \in Dirs /\ p \notin job.seen.paths /\ p \notin others
        BY <3>3, <1>0, <1>2 DEF ToVisit, Under
      <4>2. CASE Exists(p)
        <5>1. PICK c \in Below(x) : c \in Dirs /\ p \in Subtree[c]
          BY <3>3, <4>2, <1>0, BelowCovers
        <5>2. c \in job'.todo /\ ToVisit(c, p)
          BY <5>1 DEF ToVisit, Under
        <5> QED BY <5>2, <3>1
      <4>3. CASE ~Exists(p)
        BY <4>1, <4>3, <3>2, <3>3, <1>3
      <4> QED BY <4>2, <4>3
    <3>4. CASE p = x
      BY <3>2, <3>4, <1>0, <1>3
    <3>5. CASE x = Root /\ p \in Files
      <4>1. p \notin job.seen.paths /\ p # x /\ p \notin Dirs
        BY <3>5, <1>0, <1>2 DEF ToVisit
      <4>2. p \in OnDisk <=> p \in others
        BY <4>1 DEF OnDisk
      <4> QED BY <3>2, <3>5, <4>1, <4>2
    <3>6. CASE p \notin Subtree[x] /\ ~(x = Root /\ p \in Files)
      <4>1. x # Root /\ p # x /\ ~ToVisit(x, p)
        BY <3>6, <1>0 DEF Paths, ToVisit, Under
      <4>2. CASE \E y \in job.todo : ToVisit(y, p)
        BY <4>1, <4>2, <3>1
      <4>3. CASE p \in job.seen.paths <=> p \in OnDisk
        BY <4>1, <4>3, <3>2
      <4> QED BY <4>2, <4>3, <2>1 DEF WillShow
    <3> QED BY <3>3, <3>4, <3>5, <3>6
  <2> QED BY <2>2, <2>3 DEF Shows
<1> QED BY <1>6, <1>7

LEMMA JobShown ==
  ASSUME WatcherAssumption, WellFormed, DiskOK, WalkOK, Shown, Job
  PROVE  WalkOK' /\ Shown'
<1> USE TreeFacts
<1>0. /\ job \in Jobs /\ JobOK /\ timers \in [Slots -> 0..MaxTimers] /\ "structure" \in Slots
      /\ UNCHANGED <<disk, others, armed, started, waiting, missed>>
      /\ Queued' = Queued /\ (loop' = loop \/ loop.at = "job")
  BY JobFrame DEF WellFormed, TypeOK, Jobs, user, Slots
<1>1. OnDisk' = OnDisk
  BY <1>0 DEF OnDisk, Exists
<1>2. timers'["structure"] = timers["structure"]
  <2>1. CASE Begin
    <3>1. job.cur \in Dirs /\ timers' = [timers EXCEPT ![job.cur] = 0]
      BY <2>1, <1>0 DEF Begin, JobOK, PackageStages
    <3> QED BY <3>1, <1>0
  <2>2. CASE ~Begin
    BY <2>2 DEF Job, Clear, Scan, NextDir, Parse, Recheck, Drop, Apply, Build, ReadPackages,
       Walk, ReplaceStructure, timing
  <2> QED BY <2>1, <2>2
<1>3. RefreshQueued => RefreshQueued'
  BY <1>0, <1>1, <1>2 DEF RefreshQueued, EventRefreshes, InSlot
<1>4. ASSUME WalkOK', RefreshInJob => RefreshInJob' \/ Shows', Shows => RefreshInJob' \/ Shows'
      PROVE  WalkOK' /\ Shown'
  BY <1>0, <1>3, <1>4 DEF Shown
\* The job goes on without having got to the refresh.
<1>5. ASSUME job.stage \notin {"walk", "replace"}, job'.stage \notin {"walk", "replace"},
             RefreshInJob => RefreshInJob', UNCHANGED <<tree, treeLost>>
      PROVE  WalkOK' /\ Shown'
  <2>1. Shows => Shows'
    BY <1>1, <1>5 DEF Shows
  <2> QED BY <2>1, <1>4, <1>5 DEF WalkOK
<1>6. ASSUME NEW ok, PackageDone(ok), job.stage \in {"recheck", "drop", "apply", "build"},
             UNCHANGED <<tree, treeLost>>
      PROVE  WalkOK' /\ Shown'
  <2>1. job.kind \in {"tree", "package"}
    BY <1>0, <1>6 DEF JobOK, PackageStages
  <2>2. \/ job'.stage = "next" /\ job'.kind = "tree"
        \/ job'.stage \in {"structure", "idle"} /\ job.kind = "package"
    BY <2>1, <1>0, <1>6, AfterPackage DEF IdleJob, Jobs
  <2>3. RefreshInJob => RefreshInJob'
    BY <2>2 DEF RefreshInJob
  <2> QED BY <2>2, <2>3, <1>5, <1>6
<1>7. ASSUME job'.stage \in {"scan", "next", "structure", "begin"}, job'.kind = "tree"
      PROVE  WalkOK' /\ Shown'
  BY <1>7 DEF WalkOK, Shown, RefreshInJob
<1>8. ASSUME job.stage \in {"begin", "parse", "recheck", "apply"}, UNCHANGED <<tree, treeLost>>,
             NEW stage \in {"drop", "parse", "apply", "recheck", "build"},
             job'.stage = stage, job'.kind = job.kind
      PROVE  WalkOK' /\ Shown'
  BY <1>5, <1>8 DEF RefreshInJob
<1>10. CASE Clear \/ Scan \/ NextDir
  <2>1. job.kind = "tree"
    BY <1>0, <1>10 DEF JobOK, Clear, Scan, NextDir
  <2>2. job'.kind = job.kind /\ job'.stage \in {"scan", "next", "structure", "begin"}
    <3>1. CASE Clear
      BY <3>1, <1>0 DEF Clear, Jobs
    <3>2. CASE Scan
      BY <3>2, <1>0, ScanStep
    <3>3. CASE NextDir
      <4>1. \/ job' = [job EXCEPT !.stage = "structure", !.cur = NoDir]
            \/ \E d \in job.found : job' = [job EXCEPT !.stage = "begin", !.cur = d, !.found = @ \ {d}]
        BY <3>3 DEF NextDir
      <4> QED BY <4>1, <1>0 DEF Jobs
    <3> QED BY <1>10, <3>1, <3>2, <3>3
  <2> QED BY <2>1, <2>2, <1>7
<1>11. CASE Begin
  <2>1. job.stage = "begin" /\ UNCHANGED <<tree, treeLost>>
    BY <1>11 DEF Begin, lost
  <2>2. job'.stage \in {"drop", "parse"} /\ job'.kind = job.kind
    BY <1>11, <1>0 DEF Begin, Jobs
  <2> QED BY <2>1, <2>2, <1>8
<1>12. CASE Parse
  <2>1. job.stage = "parse" /\ UNCHANGED <<tree, treeLost>>
    BY <1>12 DEF Parse
  <2>2. \/ job' = [job EXCEPT !.stage = "apply", !.res = disk[job.cur]]
        \/ job' = [job EXCEPT !.stage = "recheck"]
    BY <1>12 DEF Parse
  <2>3. job'.stage \in {"apply", "recheck"} /\ job'.kind = job.kind
    BY <2>2, <1>0 DEF Jobs
  <2> QED BY <2>1, <2>3, <1>8
<1>13. CASE Recheck
  <2>1. job.stage = "recheck" /\ UNCHANGED <<tree, treeLost>>
    BY <1>13 DEF Recheck, lost
  <2>2. CASE PackageDone(FALSE)
    BY <2>1, <2>2, <1>6
  <2>3. CASE job' = [job EXCEPT !.stage = "drop"]
    BY <2>1, <2>3, <1>0, <1>8 DEF Jobs
  <2> QED BY <2>2, <2>3, <1>13 DEF Recheck, Goto
<1>14. CASE Apply
  <2>1. job.stage = "apply" /\ UNCHANGED <<tree, treeLost>>
    BY <1>14 DEF Apply
  <2>2. CASE PackageDone(FALSE)
    BY <2>1, <2>2, <1>6
  <2>3. CASE job' = [job EXCEPT !.stage = "build"]
    BY <2>1, <2>3, <1>0, <1>8 DEF Jobs
  <2> QED BY <2>2, <2>3, <1>14 DEF Apply, Goto
<1>15. CASE Drop \/ Build
  <2>1. job.stage \in {"drop", "build"} /\ UNCHANGED <<tree, treeLost>> /\ \E ok : PackageDone(ok)
    BY <1>15 DEF Drop, Build, PackageChanged
  <2> QED BY <2>1, <1>6
<1>16. CASE ReadPackages
  <2>1. /\ job.stage = "structure"
        /\ job' = [job EXCEPT !.stage = "walk", !.todo = {Root},
                              !.seen = [paths |-> {}, packages |-> Packages]]
    BY <1>16 DEF ReadPackages
  <2>2. job'.stage = "walk" /\ job'.todo = {Root} /\ job'.seen.paths = {}
    BY <2>1, <1>0 DEF Jobs
  <2>3. WalkOK'
    BY <2>2 DEF WalkOK
  <2>4. ASSUME NEW p \in Paths PROVE WillShow(p)'
    <3>1. ToVisit(Root, p)
      BY DEF ToVisit, Under, Paths
    <3> QED BY <3>1, <2>2 DEF WillShow, ToVisit
  <2>5. Exists(Root)'
    BY <1>0 DEF DiskOK, Exists
  <2>6. Shows'
    BY <2>2, <2>4, <2>5 DEF Shows
  <2> QED BY <2>3, <2>6, <1>4
<1>17. CASE Walk
  <2>1. job.stage = "walk" /\ UNCHANGED <<tree, treeLost>>
    BY <1>17 DEF Walk, lost
  <2>2. ~RefreshInJob
    BY <2>1 DEF RefreshInJob
  <2>3. PICK x \in job.todo :
           \/ /\ Exists(x) /\ loop' = loop
              /\ job'.todo = (job.todo \ {x}) \cup Below(x)
              /\ job'.seen.paths = job.seen.paths \cup {x} \cup (IF x = Root THEN others ELSE {})
              /\ job'.stage = IF job'.todo = {} THEN "replace" ELSE "walk"
              /\ job'.kind = job.kind /\ job'.cur = job.cur /\ job'.found = job.found
           \/ ~Exists(x) /\ Unlock
    BY <1>0, <1>17, WalkStep
  <2>4. CASE Exists(x)
    BY <2>2, <2>3, <2>4, <1>4, <1>17, WalkShows
  <2>5. CASE ~Exists(x)
    <3>1. ~Shows
      BY <2>1, <2>5 DEF Shows
    <3>2. job'.stage = "idle"
      BY <2>3, <2>5 DEF Unlock, IdleJob
    <3>3. WalkOK'
      BY <3>2 DEF WalkOK
    <3> QED BY <2>2, <3>1, <3>3, <1>4
  <2> QED BY <2>4, <2>5
<1>18. CASE ReplaceStructure
  <2>1. job.stage = "replace" /\ ~RefreshInJob
    BY <1>18 DEF ReplaceStructure, RefreshInJob
  <2>2. job'.stage = "idle"
    BY <1>18 DEF ReplaceStructure, Unlock, IdleJob
  <2>3. \/ tree'.paths = job.seen.paths
        \/ treeLost'
    <3>1. [job.seen EXCEPT !.packages = @ \cap job.seen.paths].paths = job.seen.paths
      BY <1>0 DEF Jobs, Tree
    <3> QED BY <3>1, <1>18 DEF ReplaceStructure
  <2>4. Shows => Shows'
    BY <2>1, <2>2, <2>3, <1>1 DEF Shows, WillShow
  <2> QED BY <2>1, <2>2, <2>4, <1>4 DEF WalkOK
<1> QED BY <1>10, <1>11, <1>12, <1>13, <1>14, <1>15, <1>16, <1>17, <1>18 DEF Job

LEMMA InitShown ==
  ASSUME WatcherAssumption, Init
  PROVE  SlotOK /\ WalkOK /\ Shown
<1>1. job.stage = "idle" /\ tree.paths = OnDisk /\ armed = {}
  BY DEF Init, IdleJob
<1>2. Shows
  BY <1>1 DEF Shows
<1> QED BY <1>1, <1>2 DEF SlotOK, WalkOK, Shown

\* The folder tree forgets no path, although refreshes are debounced in a single slot,
\* callbacks give up when they are superseded, and a refresh is abandoned when a directory
\* vanishes under its walk: while the tree disagrees with the disk about a path, a refresh
\* that will see the path is on its way; but where a directory has no watch or replacing
\* the tree failed.
THEOREM NoPathIsLost == ASSUME WatcherAssumption PROVE Spec => []NoLostPath
<1> DEFINE IInv == WellFormed /\ DiskOK /\ Watched /\ SlotOK /\ WalkOK /\ Shown
<1>1. Init => IInv
  BY InitWellFormed, InitKept, InitWatched, InitShown
<1>2. IInv /\ [Next]_vars => IInv'
  BY NextWellFormed, NextDisk, NextWatched, SlotStep, UserShown, OthersShown, LockShown, JobShown
     DEF Next
<1>3. IInv => NoLostPath
  <2> SUFFICES ASSUME IInv, NEW p \in Paths, ~treeLost, missed = {},
                      ~(p \in tree.paths <=> p \in OnDisk),
                      ~EventRefreshes, loop.at \notin {"watch", "lock"},
                      ~\E t \in armed \cup started \cup waiting : t[1] = "structure"
               PROVE  JobWillShow(p)
    BY DEF NoLostPath, EventRefreshes
  <2>1. ~RefreshQueued
    <3>1. InSlot[1] = "structure"
      BY DEF InSlot
    <3> QED BY <3>1 DEF RefreshQueued
  <2>2. CASE RefreshInJob
    BY <2>2 DEF RefreshInJob, JobWillShow
  <2>3. CASE Shows
    <3>1. job.stage \in {"walk", "replace"} /\ WillShow(p)
      BY <2>3 DEF Shows
    <3> QED BY <3>1 DEF WillShow, ToVisit, JobWillShow
  <2> QED BY <2>1, <2>2, <2>3 DEF Shown
<1> QED BY <1>1, <1>2, <1>3, PTL DEF Spec

=============================================================================
