--------------------------- MODULE WorkspaceProofs ---------------------------
(***************************************************************************)
(* The commands on disk.  Whatever commands overlap, fail or are killed:   *)
(* the configuration that a command reads never gives two repositories one *)
(* database.  The last part carries what AnalyzeRunProofs and              *)
(* FreshnessProofs show, of analyses and of freshness reports, over to     *)
(* these commands.                                                         *)
(***************************************************************************)
EXTENDS DiskCommands, TLAPS

Commands ==
  [pc : {"idle", "delete", "save", "write", "analyze", "open", "close"},
   op : {"none", "init", "add", "remove", "analyze", "open"},
   repo : Repos \cup {"none"}, copy : SUBSET Repos, open : SUBSET Repos, alone : BOOLEAN]

\* What the argument needs to know of the types.
Shapes ==
  /\ file \in [state : {"absent", "torn", "whole"}, repos : SUBSET Repos]
  /\ cmd \in [Procs -> Commands]

\* What a command is about to write is free of collisions too.
CopiesValid == \A p \in Procs : cmd[p].pc \in {"delete", "save", "write"} => Valid(cmd[p].copy)

IInv == Shapes /\ CopiesValid /\ NoCollision

LEMMA SubsetValid ==
  ASSUME NEW S, NEW T \in SUBSET S, Valid(S) PROVE Valid(T)
  BY DEF Valid

LEMMA IdleIsCommand == Idle \in Commands /\ Idle.pc = "idle" /\ Idle.op = "none"
  BY DEF Idle, Commands

\* The initial states satisfy the invariant.
LEMMA InitHolds == Init => IInv
  BY IdleIsCommand DEF Init, IInv, Shapes, CopiesValid, NoCollision

\* A step of one process that leaves the file alone and is about to write only what
\* is free of collisions.
LEMMA CommandKeeps ==
  ASSUME IInv, NEW p \in Procs, NEW c \in Commands, file' = file, cmd' = [cmd EXCEPT ![p] = c],
         c.pc \in {"delete", "save", "write"} => Valid(c.copy)
  PROVE IInv'
<1>1. Shapes'
  BY DEF IInv, Shapes
<1>2. CopiesValid'
  BY DEF IInv, Shapes, CopiesValid
<1>3. NoCollision'
  BY DEF IInv, NoCollision
<1> QED BY <1>1, <1>2, <1>3 DEF IInv

\* The commands that begin, each on a copy of a valid configuration or on none.
LEMMA BeginKeeps ==
  ASSUME IInv, NEW p \in Procs,
         InitWorkspace(p) \/ (\E r \in Repos : AddRepo(p, r) \/ RemoveRepo(p, r))
           \/ Analyze(p) \/ OpenStores(p)
  PROVE IInv'
<1> USE DEF Begin
<1>1. CASE InitWorkspace(p)
  <2> DEFINE c == [Idle EXCEPT !.pc = "save", !.op = "init"]
  <2>1. c \in Commands /\ c.copy = {}
    BY DEF Idle, Commands
  <2>2. Valid({})
    BY DEF Valid
  <2> QED BY <1>1, <2>1, <2>2, CommandKeeps DEF InitWorkspace
<1>2. ASSUME NEW r \in Repos, AddRepo(p, r) PROVE IInv'
  <2> DEFINE c == [Idle EXCEPT !.pc = "save", !.op = "add", !.repo = r, !.copy = file.repos \cup {r}]
  <2>1. c \in Commands /\ c.copy = file.repos \cup {r}
    BY DEF Idle, Commands, IInv, Shapes
  <2> QED BY <1>2, <2>1, CommandKeeps DEF AddRepo
<1>3. ASSUME NEW r \in Repos, RemoveRepo(p, r) PROVE IInv'
  <2> DEFINE c == [Idle EXCEPT !.pc = "delete", !.op = "remove", !.repo = r, !.copy = file.repos]
  <2>1. c \in Commands /\ c.copy = file.repos
    BY DEF Idle, Commands, IInv, Shapes
  <2> QED BY <1>3, <2>1, CommandKeeps DEF RemoveRepo, Loaded
<1>4. CASE Analyze(p)
  <2> DEFINE c == [Idle EXCEPT !.pc = "analyze", !.op = "analyze", !.copy = file.repos]
  <2>1. c \in Commands /\ c.pc = "analyze"
    BY DEF Idle, Commands, IInv, Shapes
  <2> QED BY <1>4, <2>1, CommandKeeps DEF Analyze
<1>5. CASE OpenStores(p)
  <2> DEFINE c == [Idle EXCEPT !.pc = "open", !.op = "open", !.copy = file.repos]
  <2>1. c \in Commands /\ c.pc = "open" /\ c.op = "open"
    BY DEF Idle, Commands, IInv, Shapes
  <2> QED BY <1>5, <2>1, CommandKeeps DEF OpenStores
<1> QED BY <1>1, <1>2, <1>3, <1>4, <1>5

\* The deletion of a database: what is saved afterwards is a part of the copy.
LEMMA DeleteKeeps ==
  ASSUME IInv, NEW p \in Procs, Delete(p)
  PROVE IInv'
<1> DEFINE copy == cmd[p].copy \ {cmd[p].repo}
<1>1. cmd[p] \in Commands /\ cmd[p].pc = "delete" /\ Valid(cmd[p].copy)
  BY DEF Delete, IInv, Shapes, CopiesValid
<1>2. Valid(copy)
  BY <1>1, SubsetValid
<1>3. [cmd[p] EXCEPT !.pc = "save", !.copy = copy] \in Commands
  BY <1>1 DEF Commands
<1>4. cmd' = [cmd EXCEPT ![p] = [cmd[p] EXCEPT !.pc = "save", !.copy = copy]]
  BY <1>1 DEF Delete, IInv, Shapes, Commands
<1> QED BY <1>1, <1>2, <1>3, <1>4, CommandKeeps DEF Delete, Commands

\* A write in two steps: the file is torn, then it is what was copied, or still torn.
LEMMA TruncateKeeps ==
  ASSUME IInv, NEW p \in Procs, Truncate(p)
  PROVE IInv'
<1>1. \A q \in Procs : cmd[q] \in Commands
  BY DEF IInv, Shapes
<1>2. \A q \in Procs : /\ cmd'[q] \in Commands /\ cmd'[q].copy = cmd[q].copy
                       /\ cmd'[q].pc \in {"delete", "save", "write"}
                            => cmd[q].pc \in {"delete", "save", "write"}
  BY <1>1 DEF Truncate, Commands
<1>3. Shapes'
  BY <1>2 DEF Truncate, Shapes, Torn
<1>4. CopiesValid'
  BY <1>2 DEF IInv, CopiesValid
<1>5. NoCollision'
  BY DEF Truncate, NoCollision, Torn
<1> QED BY <1>3, <1>4, <1>5 DEF IInv

LEMMA WriteKeeps ==
  ASSUME IInv, NEW p \in Procs, Write(p)
  PROVE IInv'
<1>1. \A q \in Procs : cmd[q] \in Commands
  BY DEF IInv, Shapes
<1>2. \A q \in Procs : /\ cmd'[q] \in Commands
                       /\ cmd'[q].pc \in {"delete", "save", "write"}
                            => cmd[q].pc \in {"delete", "save", "write"} /\ cmd'[q].copy = cmd[q].copy
  <2> SUFFICES ASSUME NEW q \in Procs
               PROVE  /\ cmd'[q] \in Commands
                      /\ cmd'[q].pc \in {"delete", "save", "write"}
                           => cmd[q].pc \in {"delete", "save", "write"} /\ cmd'[q].copy = cmd[q].copy
    OBVIOUS
  <2>1. CASE q = p
    BY <2>1, IdleIsCommand DEF Write
  <2>2. CASE q # p /\ cmd[q].pc = "write"
    <3>1. cmd'[q] = [cmd[q] EXCEPT !.alone = FALSE]
      BY <2>2 DEF Write
    <3> QED BY <1>1, <2>2, <3>1 DEF Commands
  <2>3. CASE q # p /\ cmd[q].pc # "write"
    BY <1>1, <2>3 DEF Write
  <2> QED BY <2>1, <2>2, <2>3
<1>3. Valid(cmd[p].copy) /\ cmd[p].copy \in SUBSET Repos
  BY <1>1 DEF Write, IInv, CopiesValid, Commands
<1>4. file' = Whole(cmd[p].copy) \/ file' = Torn
  BY DEF Write
<1>5. Shapes'
  <2>1. file' \in [state : {"absent", "torn", "whole"}, repos : SUBSET Repos]
    BY <1>3, <1>4 DEF Torn, Whole
  <2>2. DOMAIN cmd' = Procs /\ cmd' = [q \in Procs |-> cmd'[q]]
    BY DEF Write
  <2> QED BY <1>2, <2>1, <2>2 DEF Shapes
<1>6. CopiesValid'
  BY <1>2 DEF IInv, CopiesValid
<1>7. NoCollision'
  BY <1>3, <1>4 DEF NoCollision, Torn, Whole
<1> QED BY <1>5, <1>6, <1>7 DEF IInv

\* The commands that only read the configuration.
LEMMA DatabasesKeep ==
  ASSUME IInv, NEW p \in Procs,
         MakeDatabase(p) \/ OpenStore(p) \/ OpenStoreFails(p)
  PROVE IInv'
<1>1. cmd[p] \in Commands
  BY DEF IInv, Shapes
<1>2. PICK c \in Commands : /\ cmd' = [cmd EXCEPT ![p] = c] /\ file' = file
                            /\ c.pc \in {"idle", "analyze", "open", "close"}
  <2>1. CASE MakeDatabase(p)
    <3>1. PICK r \in cmd[p].copy :
            cmd' = [cmd EXCEPT ![p] = IF cmd[p].copy = {r} THEN Idle ELSE [cmd[p] EXCEPT !.copy = @ \ {r}]]
      BY <2>1 DEF MakeDatabase
    <3> DEFINE c == IF cmd[p].copy = {r} THEN Idle ELSE [cmd[p] EXCEPT !.copy = @ \ {r}]
    <3>2. c \in Commands /\ c.pc \in {"idle", "analyze"}
      BY <1>1, <2>1, IdleIsCommand DEF MakeDatabase, Commands
    <3>3. cmd' = [cmd EXCEPT ![p] = c] /\ file' = file
      BY <2>1, <3>1 DEF MakeDatabase, IInv, Shapes
    <3> QED BY <3>2, <3>3
  <2>2. CASE OpenStore(p)
    <3>1. PICK r \in cmd[p].copy :
            cmd' = [cmd EXCEPT ![p].open = @ \cup {r}, ![p].copy = @ \ {r},
                               ![p].pc = IF cmd[p].copy = {r} THEN "close" ELSE "open"]
      BY <2>2 DEF OpenStore
    <3> DEFINE c == [cmd[p] EXCEPT !.open = @ \cup {r}, !.copy = @ \ {r},
                                   !.pc = IF cmd[p].copy = {r} THEN "close" ELSE "open"]
    <3>2. c \in Commands /\ c.pc \in {"close", "open"}
      BY <1>1 DEF Commands
    <3>3. cmd' = [cmd EXCEPT ![p] = c] /\ file' = file
      BY <1>1, <2>2, <3>1 DEF OpenStore, IInv, Shapes, Commands
    <3> QED BY <3>2, <3>3
  <2>3. CASE OpenStoreFails(p)
    <3> DEFINE c == [cmd[p] EXCEPT !.pc = "close"]
    <3>1. c \in Commands /\ c.pc = "close"
      BY <1>1 DEF Commands
    <3>2. cmd' = [cmd EXCEPT ![p] = c] /\ file' = file
      BY <2>3 DEF OpenStoreFails, IInv, Shapes
    <3> QED BY <3>1, <3>2
  <2> QED BY <2>1, <2>2, <2>3
<1> QED BY <1>2, CommandKeeps

\* A command that ends, is killed or fails is idle again.
LEMMA IdleKeeps ==
  ASSUME IInv, NEW p \in Procs,
         DeleteFails(p) \/ SaveFails(p) \/ CloseStores(p) \/ Killed(p)
  PROVE IInv'
  BY IdleIsCommand, CommandKeeps DEF DeleteFails, SaveFails, CloseStores, Killed

\* Every step keeps the invariant.
LEMMA NextKeeps == IInv /\ [Next]_vars => IInv'
<1> SUFFICES ASSUME IInv, [Next]_vars PROVE IInv'
  OBVIOUS
<1>1. CASE UNCHANGED vars
  BY <1>1 DEF vars, IInv, Shapes, CopiesValid, NoCollision
<1>2. CASE Next
  BY <1>2, BeginKeeps, DeleteKeeps, TruncateKeeps, WriteKeeps, DatabasesKeep, IdleKeeps DEF Next, Step
<1> QED BY <1>1, <1>2

\* A configuration that parses never gives two repositories one database, for any number
\* of commands at the same time: the check of AddRepo on its own copy is enough.
THEOREM NoCollisionHolds == Spec => []NoCollision
<1>1. IInv => NoCollision
  BY DEF IInv
<1> QED BY <1>1, InitHolds, NextKeeps, PTL DEF Spec

-----------------------------------------------------------------------------
(* A torn file has a cause, and commands one after the other keep what was *)
(* configured.                                                             *)

\* A file that does not parse is being written, or a write of it went wrong.
TornHasCause == file.state = "torn" => broken \/ \E p \in Procs : cmd[p].pc = "write"

\* A repository that is being added is one.
Adds == \A p \in Procs : cmd[p].op = "add" => cmd[p].repo \in Repos

Typed == IInv /\ TypeOK /\ Adds /\ TornHasCause

DBsOf(repos) == {DBPath[r] : r \in repos}

\* While the file is whole, it names every database and what was added.
FileKeeps ==
  /\ file.state = "absent" => databases = {} /\ added = {}
  /\ file.state = "whole" => databases \subseteq DBsOf(file.repos) /\ added \subseteq file.repos

\* The copy of the command that runs alone is what the file says, or is about to say.
CopyKeeps(c) ==
  /\ c.pc = "delete" => databases \subseteq DBsOf(c.copy) /\ added \subseteq c.copy \ {c.repo} /\ c.op = "remove"
  /\ c.pc \in {"save", "write"} =>
       /\ databases \subseteq DBsOf(c.copy) /\ added \subseteq c.copy
       /\ c.op = "add" => c.repo \in c.copy
  /\ c.pc = "analyze" => file.state = "whole" /\ c.copy \subseteq file.repos

Kept == FileKeeps /\ \A p \in Procs : CopyKeeps(cmd[p])

Solo(p) == \A q \in Procs \ {p} : cmd[q] = Idle

LEMMA TypedInitially == Init => Typed /\ Kept
<1> SUFFICES ASSUME Init PROVE Typed /\ Kept
  OBVIOUS
<1>1. TypeOK
  <2>1. 0 \in 0..MaxCommands
    BY WorkspaceAssumption
  <2>2. Idle.pc = "idle" /\ Idle.op = "none" /\ Idle.copy = {} /\ Idle.open = {}
    BY DEF Idle
  <2> QED BY <2>1, <2>2 DEF Init, TypeOK
<1>2. Adds /\ TornHasCause /\ Kept
  BY IdleIsCommand DEF Init, Idle, Adds, TornHasCause, Kept, FileKeeps, CopyKeeps
<1> QED BY <1>1, <1>2, InitHolds DEF Typed

\* A step of one process that leaves the file alone.
LEMMA CommandIsTyped ==
  ASSUME Typed, NEW p \in Procs, NEW c \in Commands, cmd' = [cmd EXCEPT ![p] = c], file' = file,
         c.pc = "idle" => c = Idle,
         c.op # "add" \/ c.repo \in Repos \/ (c.op = cmd[p].op /\ c.repo = cmd[p].repo),
         databases' \subseteq Paths, commands' \in 0..MaxCommands, added' \subseteq Repos,
         broken' \in BOOLEAN, broken \/ cmd[p].pc = "write" => broken'
  PROVE TypeOK' /\ Adds' /\ TornHasCause'
<1>1. \A q \in Procs : cmd'[q] \in Commands /\ (cmd'[q].pc = "idle" <=> cmd'[q] = Idle)
  BY IdleIsCommand DEF Typed, TypeOK, IInv, Shapes
<1>2. TypeOK'
  BY <1>1 DEF Typed, TypeOK, Commands
<1>3. TornHasCause'
  BY DEF Typed, TornHasCause, IInv, Shapes
<1>4. Adds'
  BY DEF Typed, Adds, IInv, Shapes
<1> QED BY <1>2, <1>3, <1>4

LEMMA CommandKeepsAlone ==
  ASSUME Typed, Kept, NEW p \in Procs, Solo(p), NEW c \in Commands, cmd' = [cmd EXCEPT ![p] = c],
         FileKeeps', CopyKeeps(c)'
  PROVE Kept'
<1> SUFFICES ASSUME NEW q \in Procs PROVE CopyKeeps(cmd[q])'
  BY DEF Kept
<1>1. CASE q = p
  BY <1>1 DEF Typed, IInv, Shapes, CopyKeeps
<1>2. CASE q # p
  <2>1. cmd'[q] = Idle
    BY <1>2 DEF Typed, IInv, Shapes, Solo
  <2> QED BY <2>1, IdleIsCommand DEF CopyKeeps
<1> QED BY <1>1, <1>2

\* Commands that begin.
LEMMA BeginIsTyped ==
  ASSUME Typed, NEW p \in Procs,
         InitWorkspace(p) \/ (\E r \in Repos : AddRepo(p, r) \/ RemoveRepo(p, r))
           \/ Analyze(p) \/ OpenStores(p)
  PROVE /\ TypeOK' /\ Adds' /\ TornHasCause'
        /\ Kept /\ Solo(p) => Kept'
<1>0. ASSUME NEW c \in Commands, Begin(p, c), c.pc # "idle", c.op = "add" => c.repo \in Repos, file' = file, databases' = databases,
             broken' = broken, added' \subseteq added
      PROVE TypeOK' /\ Adds' /\ TornHasCause'
  <2>1. commands' \in 0..MaxCommands /\ cmd' = [cmd EXCEPT ![p] = c]
    BY <1>0, WorkspaceAssumption DEF Begin, Typed, TypeOK
  <2>2. databases' \subseteq Paths /\ added' \subseteq Repos /\ broken' \in BOOLEAN /\ cmd[p].pc # "write"
    BY <1>0, IdleIsCommand DEF Begin, Typed, TypeOK
  <2> QED BY <1>0, <2>1, <2>2, CommandIsTyped
<1>1. CASE InitWorkspace(p)
  <2>1. PICK c \in Commands :
          /\ c = [Idle EXCEPT !.pc = "save", !.op = "init"]
          /\ c.pc = "save" /\ c.op = "init" /\ c.copy = {}
    <3> DEFINE e == [Idle EXCEPT !.pc = "save", !.op = "init"]
    <3>1. /\ e \in Commands
          /\ e.pc = "save" /\ e.op = "init" /\ e.copy = {}
      BY DEF Idle, Commands
    <3> QED BY <3>1
  <2>2. Begin(p, c) /\ file.state = "absent" /\ UNCHANGED <<file, databases, added, broken>>
    BY <1>1, <2>1 DEF InitWorkspace
  <2>3. Kept /\ Solo(p) => FileKeeps' /\ CopyKeeps(c)'
    BY <2>1, <2>2 DEF Kept, FileKeeps, CopyKeeps
  <2>4. ASSUME Kept, Solo(p) PROVE Kept'
    BY <2>1, <2>2, <2>3, <2>4, CommandKeepsAlone DEF Begin
  <2> QED BY <1>0, <2>1, <2>2, <2>4
<1>2. ASSUME NEW r \in Repos, AddRepo(p, r) PROVE TypeOK' /\ Adds' /\ TornHasCause' /\ (Kept /\ Solo(p) => Kept')
  <2>1. PICK c \in Commands :
          /\ c = [Idle EXCEPT !.pc = "save", !.op = "add", !.repo = r, !.copy = file.repos \cup {r}]
          /\ c.pc = "save" /\ c.op = "add" /\ c.copy = file.repos \cup {r} /\ c.repo = r
    <3> DEFINE e == [Idle EXCEPT !.pc = "save", !.op = "add", !.repo = r, !.copy = file.repos \cup {r}]
    <3>1. /\ e \in Commands
          /\ e.pc = "save" /\ e.op = "add" /\ e.copy = file.repos \cup {r} /\ e.repo = r
      BY DEF Idle, Commands, Typed, IInv, Shapes
    <3> QED BY <3>1
  <2>2. Begin(p, c) /\ file.state = "whole" /\ UNCHANGED <<file, databases, added, broken>>
    BY <1>2, <2>1 DEF AddRepo, Loaded
  <2>3. Kept /\ Solo(p) => FileKeeps' /\ CopyKeeps(c)'
    BY <2>1, <2>2 DEF Kept, FileKeeps, CopyKeeps, DBsOf
  <2>4. ASSUME Kept, Solo(p) PROVE Kept'
    BY <2>1, <2>2, <2>3, <2>4, CommandKeepsAlone DEF Begin
  <2> QED BY <1>0, <2>1, <2>2, <2>4
<1>3. ASSUME NEW r \in Repos, RemoveRepo(p, r) PROVE TypeOK' /\ Adds' /\ TornHasCause' /\ (Kept /\ Solo(p) => Kept')
  <2>1. PICK c \in Commands :
          /\ c = [Idle EXCEPT !.pc = "delete", !.op = "remove", !.repo = r, !.copy = file.repos]
          /\ c.pc = "delete" /\ c.op = "remove" /\ c.copy = file.repos /\ c.repo = r
    <3> DEFINE e == [Idle EXCEPT !.pc = "delete", !.op = "remove", !.repo = r, !.copy = file.repos]
    <3>1. /\ e \in Commands
          /\ e.pc = "delete" /\ e.op = "remove" /\ e.copy = file.repos /\ e.repo = r
      BY DEF Idle, Commands, Typed, IInv, Shapes
    <3> QED BY <3>1
  <2>2. Begin(p, c) /\ file.state = "whole" /\ UNCHANGED <<file, databases, broken>> /\ added' = added \ {r}
    BY <1>3, <2>1 DEF RemoveRepo, Loaded
  <2>3. Kept /\ Solo(p) => FileKeeps' /\ CopyKeeps(c)'
    BY <2>1, <2>2 DEF Kept, FileKeeps, CopyKeeps
  <2>4. ASSUME Kept, Solo(p) PROVE Kept'
    BY <2>1, <2>2, <2>3, <2>4, CommandKeepsAlone DEF Begin
  <2> QED BY <1>0, <2>1, <2>2, <2>4
<1>4. CASE Analyze(p)
  <2>1. PICK c \in Commands :
          /\ c = [Idle EXCEPT !.pc = "analyze", !.op = "analyze", !.copy = file.repos]
          /\ c.pc = "analyze" /\ c.op = "analyze" /\ c.copy = file.repos
    <3> DEFINE e == [Idle EXCEPT !.pc = "analyze", !.op = "analyze", !.copy = file.repos]
    <3>1. /\ e \in Commands
          /\ e.pc = "analyze" /\ e.op = "analyze" /\ e.copy = file.repos
      BY DEF Idle, Commands, Typed, IInv, Shapes
    <3> QED BY <3>1
  <2>2. Begin(p, c) /\ file.state = "whole" /\ UNCHANGED <<file, databases, added, broken>>
    BY <1>4, <2>1 DEF Analyze, Loaded
  <2>3. Kept /\ Solo(p) => FileKeeps' /\ CopyKeeps(c)'
    BY <2>1, <2>2 DEF Kept, FileKeeps, CopyKeeps
  <2>4. ASSUME Kept, Solo(p) PROVE Kept'
    BY <2>1, <2>2, <2>3, <2>4, CommandKeepsAlone DEF Begin
  <2> QED BY <1>0, <2>1, <2>2, <2>4
<1>5. CASE OpenStores(p)
  <2>1. PICK c \in Commands :
          /\ c = [Idle EXCEPT !.pc = "open", !.op = "open", !.copy = file.repos]
          /\ c.pc = "open" /\ c.op = "open"
    <3> DEFINE e == [Idle EXCEPT !.pc = "open", !.op = "open", !.copy = file.repos]
    <3>1. /\ e \in Commands
          /\ e.pc = "open" /\ e.op = "open"
      BY DEF Idle, Commands, Typed, IInv, Shapes
    <3> QED BY <3>1
  <2>2. Begin(p, c) /\ UNCHANGED <<file, databases, added, broken>>
    BY <1>5, <2>1 DEF OpenStores
  <2>3. Kept /\ Solo(p) => FileKeeps' /\ CopyKeeps(c)'
    BY <2>1, <2>2 DEF Kept, FileKeeps, CopyKeeps
  <2>4. ASSUME Kept, Solo(p) PROVE Kept'
    BY <2>1, <2>2, <2>3, <2>4, CommandKeepsAlone DEF Begin
  <2> QED BY <1>0, <2>1, <2>2, <2>4
<1> QED BY <1>1, <1>2, <1>3, <1>4, <1>5

\* Steps of a command that has begun and leave the file alone.
LEMMA RunsTyped ==
  ASSUME Typed, NEW p \in Procs,
         Delete(p) \/ MakeDatabase(p) \/ OpenStore(p) \/ OpenStoreFails(p)
           \/ DeleteFails(p) \/ SaveFails(p) \/ CloseStores(p) \/ Killed(p)
  PROVE /\ TypeOK' /\ Adds' /\ TornHasCause'
        /\ Kept /\ Solo(p) => Kept'
<1>0. cmd[p] \in Commands /\ cmd[p] # Idle /\ cmd[p].pc # "idle"
  BY IdleIsCommand DEF Typed, TypeOK, IInv, Shapes, Delete, MakeDatabase, OpenStore, OpenStoreFails,
     DeleteFails, SaveFails, CloseStores, Killed
<1>1. CASE Delete(p)
  <2>1. PICK c \in Commands :
          /\ c = [cmd[p] EXCEPT !.pc = "save", !.copy = @ \ {cmd[p].repo}]
          /\ c.pc = "save" /\ c.op = cmd[p].op /\ c.repo = cmd[p].repo
          /\ c.copy = cmd[p].copy \ {cmd[p].repo}
    <3> DEFINE e == [cmd[p] EXCEPT !.pc = "save", !.copy = @ \ {cmd[p].repo}]
    <3>1. /\ e \in Commands
          /\ e.pc = "save" /\ e.op = cmd[p].op /\ e.repo = cmd[p].repo
          /\ e.copy = cmd[p].copy \ {cmd[p].repo}
      BY <1>0 DEF Commands
    <3> QED BY <3>1
  <2>2. /\ cmd' = [cmd EXCEPT ![p] = c] /\ cmd[p].pc = "delete"
        /\ databases' = databases \ {DBPath[cmd[p].repo]} /\ UNCHANGED <<file, commands, added, broken>>
    BY <1>0, <1>1, <2>1 DEF Delete, Typed, IInv, Shapes, Commands
  <2>3. TypeOK' /\ Adds' /\ TornHasCause'
    <3>1. databases' \subseteq Paths /\ commands' \in 0..MaxCommands /\ added' \subseteq Repos /\ broken' \in BOOLEAN
      BY <2>2 DEF Typed, TypeOK
    <3> QED BY <2>1, <2>2, <3>1, CommandIsTyped
  <2>4. ASSUME Kept, Solo(p) PROVE FileKeeps' /\ CopyKeeps(c)'
    BY <2>1, <2>2, <2>4 DEF Kept, FileKeeps, CopyKeeps, DBsOf
  <2> QED BY <2>1, <2>2, <2>3, <2>4, CommandKeepsAlone
<1>2. CASE MakeDatabase(p)
  <2>1. PICK r \in cmd[p].copy :
          /\ databases' = databases \cup {DBPath[r]}
          /\ cmd' = [cmd EXCEPT ![p] = IF cmd[p].copy = {r} THEN Idle ELSE [cmd[p] EXCEPT !.copy = @ \ {r}]]
    BY <1>2 DEF MakeDatabase
  <2>2. PICK c \in Commands :
          /\ c = IF cmd[p].copy = {r} THEN Idle ELSE [cmd[p] EXCEPT !.copy = @ \ {r}]
          /\ c.pc \in {"idle", "analyze"} /\ (c.pc = "idle" => c = Idle)
          /\ c.copy \subseteq cmd[p].copy
          /\ c.op # "add" \/ (c.op = cmd[p].op /\ c.repo = cmd[p].repo)
    <3> DEFINE e == IF cmd[p].copy = {r} THEN Idle ELSE [cmd[p] EXCEPT !.copy = @ \ {r}]
    <3>1. /\ e \in Commands
          /\ e.pc \in {"idle", "analyze"} /\ (e.pc = "idle" => e = Idle)
          /\ e.copy \subseteq cmd[p].copy
          /\ e.op # "add" \/ (e.op = cmd[p].op /\ e.repo = cmd[p].repo)
      BY <1>0, <1>2, IdleIsCommand DEF MakeDatabase, Commands, Idle
    <3> QED BY <3>1
  <2>3. /\ cmd' = [cmd EXCEPT ![p] = c] /\ cmd[p].pc = "analyze" /\ UNCHANGED <<file, commands, added, broken>>
    BY <1>2, <2>1, <2>2 DEF MakeDatabase
  <2>4. TypeOK' /\ Adds' /\ TornHasCause'
    <3>1. r \in Repos /\ DBPath[r] \in Paths
      BY <1>0, WorkspaceAssumption DEF Commands
    <3>2. databases' \subseteq Paths /\ commands' \in 0..MaxCommands /\ added' \subseteq Repos /\ broken' \in BOOLEAN
      BY <2>1, <2>3, <3>1 DEF Typed, TypeOK
    <3> QED BY <2>2, <2>3, <3>2, CommandIsTyped
  <2>5. ASSUME Kept, Solo(p) PROVE FileKeeps' /\ CopyKeeps(c)'
    <3>1. file.state = "whole" /\ cmd[p].copy \subseteq file.repos
      BY <2>3, <2>5 DEF Kept, CopyKeeps
    <3>2. databases \subseteq DBsOf(file.repos) /\ added \subseteq file.repos
      BY <2>5, <3>1 DEF Kept, FileKeeps
    <3>3. databases' \subseteq DBsOf(file.repos)
      BY <2>1, <3>1, <3>2 DEF DBsOf
    <3> QED BY <2>2, <2>3, <3>1, <3>2, <3>3 DEF FileKeeps, CopyKeeps
  <2> QED BY <2>2, <2>3, <2>4, <2>5, CommandKeepsAlone
<1>3. CASE OpenStore(p) \/ OpenStoreFails(p)
  <2>1. PICK c \in Commands : /\ cmd' = [cmd EXCEPT ![p] = c] /\ c.pc \in {"open", "close"}
                              /\ c.op = cmd[p].op /\ c.repo = cmd[p].repo
                              /\ cmd[p].pc = "open" /\ UNCHANGED <<file, databases, commands, added, broken>>
    <3>1. CASE OpenStore(p)
      <4>1. PICK r \in cmd[p].copy :
              cmd' = [cmd EXCEPT ![p].open = @ \cup {r}, ![p].copy = @ \ {r},
                                 ![p].pc = IF cmd[p].copy = {r} THEN "close" ELSE "open"]
        BY <3>1 DEF OpenStore
      <4> DEFINE c == [cmd[p] EXCEPT !.open = @ \cup {r}, !.copy = @ \ {r},
                                     !.pc = IF cmd[p].copy = {r} THEN "close" ELSE "open"]
      <4>2. c \in Commands /\ c.pc \in {"close", "open"} /\ c.op = cmd[p].op /\ c.repo = cmd[p].repo
        BY <1>0 DEF Commands
      <4>3. cmd' = [cmd EXCEPT ![p] = c]
        BY <1>0, <4>1 DEF Typed, IInv, Shapes, Commands
      <4> QED BY <3>1, <4>2, <4>3 DEF OpenStore
    <3>2. CASE OpenStoreFails(p)
      <4> DEFINE c == [cmd[p] EXCEPT !.pc = "close"]
      <4>1. c \in Commands /\ c.pc = "close" /\ c.op = cmd[p].op /\ c.repo = cmd[p].repo
        BY <1>0 DEF Commands
      <4>2. cmd' = [cmd EXCEPT ![p] = c]
        BY <3>2 DEF OpenStoreFails, Typed, IInv, Shapes
      <4> QED BY <3>2, <4>1, <4>2 DEF OpenStoreFails
    <3> QED BY <1>3, <3>1, <3>2
  <2>2. databases' \subseteq Paths /\ commands' \in 0..MaxCommands /\ added' \subseteq Repos /\ broken' \in BOOLEAN
    BY <2>1 DEF Typed, TypeOK
  <2>3. TypeOK' /\ Adds' /\ TornHasCause'
    BY <2>1, <2>2, CommandIsTyped
  <2>4. Kept => FileKeeps' /\ CopyKeeps(c)'
    BY <2>1 DEF Kept, FileKeeps, CopyKeeps
  <2> QED BY <2>1, <2>3, <2>4, CommandKeepsAlone
<1>4. CASE DeleteFails(p) \/ SaveFails(p) \/ CloseStores(p) \/ Killed(p)
  <2>1. /\ cmd' = [cmd EXCEPT ![p] = Idle] /\ UNCHANGED <<file, databases, commands, added>>
        /\ broken' = (broken \/ cmd[p].pc = "write")
    BY <1>4, <1>0 DEF DeleteFails, SaveFails, CloseStores, Killed, Typed, TypeOK
  <2>2. databases' \subseteq Paths /\ commands' \in 0..MaxCommands /\ added' \subseteq Repos /\ broken' \in BOOLEAN
    BY <2>1 DEF Typed, TypeOK
  <2>3. TypeOK' /\ Adds' /\ TornHasCause'
    BY <2>1, <2>2, IdleIsCommand, CommandIsTyped
  <2>4. Kept => FileKeeps' /\ CopyKeeps(Idle)'
    BY <2>1, IdleIsCommand DEF Kept, FileKeeps, CopyKeeps
  <2> QED BY <2>1, <2>3, <2>4, IdleIsCommand, CommandKeepsAlone
<1> QED BY <1>1, <1>2, <1>3, <1>4

\* The two halves of os.WriteFile.
LEMMA WritesTyped ==
  ASSUME Typed, NEW p \in Procs, Truncate(p) \/ Write(p)
  PROVE /\ TypeOK' /\ Adds' /\ TornHasCause'
        /\ Kept /\ Solo(p) => Kept'
<1>0. \A q \in Procs : cmd[q] \in Commands /\ (cmd[q].pc = "idle" <=> cmd[q] = Idle)
                       /\ (cmd[q].op = "add" => cmd[q].repo \in Repos)
  BY DEF Typed, TypeOK, Adds, IInv, Shapes
<1>1. CASE Truncate(p)
  <2>1. /\ cmd[p].pc = "save" /\ file' = Torn /\ UNCHANGED <<databases, commands, added, broken>>
        /\ cmd'[p] = [cmd[p] EXCEPT !.pc = "write"]
    BY <1>1 DEF Truncate
  <2>2. /\ cmd'[p] \in Commands /\ cmd'[p].pc = "write" /\ cmd'[p].copy = cmd[p].copy
        /\ cmd'[p].op = cmd[p].op /\ cmd'[p].repo = cmd[p].repo
    BY <1>0, <2>1 DEF Commands
  <2>3. ASSUME NEW q \in Procs PROVE cmd'[q] \in Commands /\ (cmd'[q].pc = "idle" <=> cmd'[q] = Idle)
                              /\ (cmd'[q].op = "add" => cmd'[q].repo \in Repos)
    <3>1. CASE q = p
      BY <1>0, <2>2, <3>1, IdleIsCommand
    <3>2. CASE q # p /\ cmd[q].pc = "write"
      <4>1. cmd'[q] = [cmd[q] EXCEPT !.alone = FALSE]
        BY <1>1, <3>2 DEF Truncate
      <4>2. cmd'[q] \in Commands /\ cmd'[q].pc = "write" /\ cmd'[q].op = cmd[q].op /\ cmd'[q].repo = cmd[q].repo
        BY <1>0, <3>2, <4>1 DEF Commands
      <4> QED BY <1>0, <4>2, IdleIsCommand
    <3>3. CASE q # p /\ cmd[q].pc # "write"
      BY <1>0, <1>1, <3>3 DEF Truncate
    <3> QED BY <3>1, <3>2, <3>3
  <2>4. TypeOK'
    BY <2>1, <2>3 DEF Typed, TypeOK, Commands, Torn
  <2>5. TornHasCause'
    BY <2>2 DEF TornHasCause
  <2>6. ASSUME Kept, Solo(p) PROVE Kept'
    <3>1. FileKeeps'
      BY <2>1 DEF FileKeeps, Torn
    <3>2. ASSUME NEW q \in Procs PROVE CopyKeeps(cmd[q])'
      <4>1. CASE q = p
        BY <2>1, <2>2, <2>6, <4>1 DEF Kept, CopyKeeps
      <4>2. CASE q # p
        <5>1. cmd[q] = Idle /\ cmd'[q] = Idle
          BY <1>1, <2>6, <4>2, IdleIsCommand DEF Solo, Truncate
        <5> QED BY <5>1, IdleIsCommand DEF CopyKeeps
      <4> QED BY <4>1, <4>2
    <3> QED BY <3>1, <3>2 DEF Kept
  <2> QED BY <2>3, <2>4, <2>5, <2>6 DEF Adds
<1>2. CASE Write(p)
  <2> DEFINE overlaps == ~cmd[p].alone \/ \E q \in Procs \ {p} : cmd[q].pc = "write"
  <2>1. /\ cmd[p].pc = "write" /\ file' \in {Whole(cmd[p].copy)} \cup (IF overlaps THEN {Torn} ELSE {})
        /\ broken' = (broken \/ overlaps) /\ cmd'[p] = Idle
        /\ added' = IF cmd[p].op = "add" THEN added \cup {cmd[p].repo} ELSE added
        /\ UNCHANGED <<databases, commands>>
    BY <1>2 DEF Write
  <2>2. ASSUME NEW q \in Procs PROVE cmd'[q] \in Commands /\ (cmd'[q].pc = "idle" <=> cmd'[q] = Idle)
                              /\ (cmd'[q].op = "add" => cmd'[q].repo \in Repos)
    <3>1. CASE q = p
      BY <2>1, <3>1, IdleIsCommand
    <3>2. CASE q # p /\ cmd[q].pc = "write"
      <4>1. cmd'[q] = [cmd[q] EXCEPT !.alone = FALSE]
        BY <1>2, <3>2 DEF Write
      <4>2. cmd'[q] \in Commands /\ cmd'[q].pc = "write" /\ cmd'[q].op = cmd[q].op /\ cmd'[q].repo = cmd[q].repo
        BY <1>0, <3>2, <4>1 DEF Commands
      <4> QED BY <1>0, <4>2, IdleIsCommand
    <3>3. CASE q # p /\ cmd[q].pc # "write"
      BY <1>0, <1>2, <3>3 DEF Write
    <3> QED BY <3>1, <3>2, <3>3
  <2>3. TornHasCause'
    <3>1. file'.state = "torn" => overlaps
      BY <2>1 DEF Whole, Torn
    <3> QED BY <2>1, <3>1 DEF TornHasCause
  <2> HIDE DEF overlaps
  <2>4. TypeOK'
    <3>1. file'.state \in {"absent", "torn", "whole"} /\ file'.repos \subseteq Repos
      BY <1>0, <2>1 DEF Whole, Torn, Commands
    <3>2. added' \subseteq Repos /\ broken' \in BOOLEAN
      BY <2>1 DEF Typed, TypeOK, Adds
    <3> QED BY <2>1, <2>2, <3>1, <3>2 DEF Typed, TypeOK, Commands
  <2>5. ASSUME Kept, Solo(p) PROVE Kept'
    <3>1. databases \subseteq DBsOf(cmd[p].copy) /\ added' \subseteq cmd[p].copy
      BY <2>1, <2>5 DEF Kept, CopyKeeps
    <3>2. FileKeeps'
      BY <2>1, <3>1 DEF FileKeeps, Whole, Torn
    <3>3. ASSUME NEW q \in Procs PROVE CopyKeeps(cmd[q])'
      <4>1. cmd'[q] = Idle
        BY <1>2, <2>1, <2>5, IdleIsCommand DEF Solo, Write
      <4> QED BY <4>1, IdleIsCommand DEF CopyKeeps
    <3> QED BY <3>2, <3>3 DEF Kept
  <2> QED BY <2>2, <2>3, <2>4, <2>5 DEF Adds
<1> QED BY <1>1, <1>2

\* Every step keeps types and the cause of a torn file; a step while the others are idle
\* keeps what was configured.
LEMMA StepTyped ==
  ASSUME Typed, NEW p \in Procs, Step(p)
  PROVE Typed' /\ (Kept /\ Solo(p) => Kept')
<1>1. IInv'
  BY NextKeeps DEF Typed, Next
<1> QED BY <1>1, BeginIsTyped, RunsTyped, WritesTyped DEF Step, Typed

LEMMA NextTyped == Typed /\ [Next]_vars => Typed'
<1>1. Typed /\ UNCHANGED vars => Typed'
  BY DEF vars, Typed, IInv, Shapes, CopiesValid, NoCollision, TypeOK, Adds, TornHasCause
<1> QED BY <1>1, StepTyped DEF Next

LEMMA NextAloneKeeps == Typed /\ Kept /\ [NextAlone]_vars => (Typed /\ Kept)'
<1>1. Typed /\ Kept /\ UNCHANGED vars => (Typed /\ Kept)'
  BY DEF vars, Typed, IInv, Shapes, CopiesValid, NoCollision, TypeOK, Adds, TornHasCause, Kept, FileKeeps,
     CopyKeeps
<1> QED BY <1>1, StepTyped DEF NextAlone, Solo

\* Every reachable state of configuration, databases and commands is well-typed.
THEOREM WorkspaceTypesHold == Spec => []TypeOK
<1>1. Typed => TypeOK
  BY DEF Typed
<1> QED BY <1>1, TypedInitially, NextTyped, PTL DEF Spec

\* A configuration that does not parse is the trace of a write that was cut short or of two
\* that overlapped (Save in workspace.go), for any number of commands at the same time.
THEOREM TornOnlyIfBrokenHolds == Spec => []TornOnlyIfBroken
<1>1. Typed => TornOnlyIfBroken
  BY DEF Typed, TornHasCause, TornOnlyIfBroken, Quiet
<1> QED BY <1>1, TypedInitially, NextTyped, PTL DEF Spec

\* Commands one after the other, failing or killed anywhere, leave no database that nobody
\* is configured for, and lose no repository that was added (AddRepo and RemoveRepo).
THEOREM AloneIsKept == SpecAlone => [](NoOrphan /\ AddedStays)
<1>1. Kept => NoOrphan /\ AddedStays
  BY DEF Kept, FileKeeps, NoOrphan, AddedStays, DBsOf
<1> QED BY <1>1, TypedInitially, NextAloneKeeps, PTL DEF SpecAlone

-----------------------------------------------------------------------------
(* The commands beside each other: what was proved of analyses and reports *)
(* holds of them here, under the names of DiskCommands.                    *)

AP == INSTANCE AnalyzeRunProofs WITH
  Repos <- AnalyzedRepos, Found <- FoundDirs,
  dir <- s1, pc <- s2, result <- s3, lock <- s4, rebuild <- s5, command <- s6, cancelled <- s7,
  runs <- s8, atStart <- s9, torn <- s10, refused <- s11
RP == INSTANCE FreshnessProofs WITH
  Modes <- {"rebuild", "plain"}, Server <- FALSE,
  disk <- s1, commits <- s2, head <- s3, graph <- s4, served <- s5, meta <- s6, writer <- s7,
  pending <- s8, report <- s9, changes <- s10, whole <- s11, exact <- s12, same <- s13, index <- s14
SP == INSTANCE FreshnessProofs WITH
  Modes <- {"rebuild", "watch"}, Server <- TRUE, Files <- ServedFiles, Ignored <- ServedIgnored,
  disk <- s1, commits <- s2, head <- s3, graph <- s4, served <- s5, meta <- s6, writer <- s7,
  pending <- s8, report <- s9, changes <- s10, whole <- s11, exact <- s12, same <- s13, index <- s14

\* The analyses of DiskCommands are those of AnalyzeRunProofs.
LEMMA SameAnalyses ==
  /\ AP!AnalyzeAssumption
  /\ Analyses!Init <=> AP!Init
  /\ Analyses!Next <=> AP!Next
<1>1. AP!AnalyzeAssumption
  BY Inputs DEF Analyses!AnalyzeAssumption, AP!AnalyzeAssumption, Analyses!Dirs, AP!Dirs, Analyses!Absent,
       AP!Absent, Analyses!Entries, AP!Entries, Analyses!Markers, AP!Markers
<1>2. Analyses!Init <=> AP!Init
  BY DEF Analyses!Init, AP!Init, Analyses!Removable, AP!Removable, Analyses!Complete,
         AP!Complete, Analyses!Markers, AP!Markers
<1>3. Analyses!Next <=> AP!Next
  BY DEF Analyses!Next, AP!Next, Analyses!Start, AP!Start, Analyses!Wait, AP!Wait,
         Analyses!Killed, AP!Killed, Analyses!Worker, AP!Worker, Analyses!Aged, AP!Aged,
         Analyses!Goto, AP!Goto, Analyses!Return, AP!Return, Analyses!Check, AP!Check,
         Analyses!Remove, AP!Remove, Analyses!Remains, AP!Remains, Analyses!RemoveFails,
         AP!RemoveFails, Analyses!Opened, AP!Opened, Analyses!Open, AP!Open,
         Analyses!Merge, AP!Merge, Analyses!MergeFails, AP!MergeFails, Analyses!Parse,
         AP!Parse, Analyses!Save, AP!Save, Analyses!Done, AP!Done, Analyses!Fails,
         AP!Fails, Analyses!Removable, AP!Removable, Analyses!Absent, AP!Absent,
         Analyses!Markers, AP!Markers, Analyses!Entries, AP!Entries, Analyses!Complete, AP!Complete,
         Analyses!Beginnings, AP!Beginnings, Analyses!HalfMade, AP!HalfMade, Analyses!OpenFails,
         AP!OpenFails, Analyses!PartlyMerged, AP!PartlyMerged, Analyses!Locked, AP!Locked,
         Analyses!LeftBy, AP!LeftBy, Analyses!vars, AP!vars
<1> QED BY <1>1, <1>2, <1>3

\* The reports of gokg impact are those of FreshnessProofs.
LEMMA SameReports ==
  /\ RP!FreshnessAssumption
  /\ Reports!Init <=> RP!Init
  /\ Reports!Next <=> RP!Next
<1>1. RP!FreshnessAssumption
  BY Inputs DEF Reports!FreshnessAssumption, RP!FreshnessAssumption
<1>2. Reports!Init <=> RP!Init
  BY DEF Reports!Init, RP!Init, Reports!Tracked, RP!Tracked, Reports!Trees, RP!Trees,
         Reports!Idle, RP!Idle, Reports!NoMeta,
         RP!NoMeta, Reports!NoReport, RP!NoReport
<1>3. Reports!Next <=> RP!Next
  BY DEF Reports!Next, RP!Next, Reports!Edit, RP!Edit, Reports!Commit, RP!Commit,
         Reports!Checkout, RP!Checkout, Reports!Disturb, RP!Disturb, Reports!Status,
         RP!Status, Reports!Captured, RP!Captured, Reports!CaptureFailed,
         RP!CaptureFailed, Reports!NoMeta, RP!NoMeta, Reports!Idle, RP!Idle,
         Reports!NoReport, RP!NoReport, Reports!Starts, RP!Starts, Reports!AnalyzeStarts,
         RP!AnalyzeStarts, Reports!AnalyzeCaptures, RP!AnalyzeCaptures,
         Reports!AnalyzeMerges, RP!AnalyzeMerges, Reports!AnalyzeFails, RP!AnalyzeFails,
         Reports!AnalyzeSaves, RP!AnalyzeSaves, Reports!Merged, RP!Merged, Reports!Save,
         RP!Save, Reports!WatchStarts, RP!WatchStarts, Reports!WatchBuilds,
         RP!WatchBuilds, Reports!WatchReadsHead, RP!WatchReadsHead, Reports!WatchSaves,
         RP!WatchSaves, Reports!WatchFails, RP!WatchFails, Reports!ServerStarts,
         RP!ServerStarts, Reports!MayBeLocked, RP!MayBeLocked, Reports!MayBeOpened,
         RP!MayBeOpened, Reports!ReportStarts, RP!ReportStarts, Reports!ReportReadsHead,
         RP!ReportReadsHead, Reports!ReportEnds, RP!ReportEnds,
         Reports!ReportCaptureFails, RP!ReportCaptureFails, Reports!Verdict, RP!Verdict,
         Reports!Stale, RP!Stale, Reports!vars, RP!vars,
         Reports!Stage, RP!Stage, Reports!Changed, RP!Changed, Reports!Line, RP!Line,
         Reports!Kind, RP!Kind
<1> QED BY <1>1, <1>2, <1>3

\* Those of a server are those of FreshnessProofs.
LEMMA SameServed ==
  /\ SP!FreshnessAssumption
  /\ Served!Init <=> SP!Init
  /\ Served!Next <=> SP!Next
<1>1. SP!FreshnessAssumption
  BY Inputs DEF Served!FreshnessAssumption, SP!FreshnessAssumption
<1>2. Served!Init <=> SP!Init
  BY DEF Served!Init, SP!Init, Served!Tracked, SP!Tracked, Served!Trees, SP!Trees,
         Served!Idle, SP!Idle, Served!NoMeta,
         SP!NoMeta, Served!NoReport, SP!NoReport
<1>3. Served!Next <=> SP!Next
  BY DEF Served!Next, SP!Next, Served!Edit, SP!Edit, Served!Commit, SP!Commit, Served!Checkout,
         SP!Checkout, Served!Disturb, SP!Disturb, Served!Status, SP!Status,
         Served!Captured, SP!Captured, Served!CaptureFailed, SP!CaptureFailed,
         Served!NoMeta, SP!NoMeta, Served!Idle, SP!Idle, Served!NoReport, SP!NoReport,
         Served!Starts, SP!Starts, Served!AnalyzeStarts, SP!AnalyzeStarts,
         Served!AnalyzeCaptures, SP!AnalyzeCaptures, Served!AnalyzeMerges,
         SP!AnalyzeMerges, Served!AnalyzeFails, SP!AnalyzeFails, Served!AnalyzeSaves,
         SP!AnalyzeSaves, Served!Merged, SP!Merged, Served!Save, SP!Save,
         Served!WatchStarts, SP!WatchStarts, Served!WatchBuilds, SP!WatchBuilds,
         Served!WatchReadsHead, SP!WatchReadsHead, Served!WatchSaves, SP!WatchSaves,
         Served!WatchFails, SP!WatchFails, Served!ServerStarts, SP!ServerStarts,
         Served!MayBeLocked, SP!MayBeLocked, Served!MayBeOpened, SP!MayBeOpened,
         Served!ReportStarts, SP!ReportStarts, Served!ReportReadsHead,
         SP!ReportReadsHead, Served!ReportEnds, SP!ReportEnds, Served!ReportCaptureFails,
         SP!ReportCaptureFails, Served!Verdict, SP!Verdict, Served!Stale, SP!Stale,
         Served!vars, SP!vars, Served!Stage, SP!Stage, Served!Changed, SP!Changed,
         Served!Line, SP!Line, Served!Kind, SP!Kind
<1> QED BY <1>1, <1>2, <1>3

\* Each part has the invariant of its proofs.
PartsInv ==
  /\ Typed /\ (part = "alone" => Kept)
  /\ part = "analyze" => AP!IInv
  /\ part = "reports" => RP!IInv /\ RP!MergedOK
  /\ part = "served" => SP!IInv

LEMMA PartsInitially == CommandsInit => PartsInv
<1> SUFFICES ASSUME CommandsInit PROVE PartsInv
  OBVIOUS
<1>1. Typed /\ Kept
  BY TypedInitially DEF CommandsInit
<1>2. part = "analyze" => AP!IInv
  BY SameAnalyses, AP!InitHolds DEF CommandsInit
<1>3. part = "reports" => RP!IInv /\ RP!MergedOK
  BY SameReports, RP!InitHolds, RP!MergedInitially DEF CommandsInit
<1>4. part = "served" => SP!IInv
  BY SameServed, SP!InitHolds DEF CommandsInit
<1> QED BY <1>1, <1>2, <1>3, <1>4 DEF PartsInv

LEMMA PartsKeep == PartsInv /\ [CommandsNext]_commandVars => PartsInv'
<1> SUFFICES ASSUME PartsInv, [CommandsNext]_commandVars PROVE PartsInv'
  OBVIOUS
<1>0. part' = part
  BY DEF CommandsNext, commandVars
<1>1. Typed' /\ (part = "alone" => Kept')
  <2>1. CASE part = "alone"
    <3>1. [NextAlone]_vars
      BY <2>1 DEF CommandsNext, commandVars
    <3> QED BY <2>1, <3>1, NextAloneKeeps DEF PartsInv
  <2>2. CASE part # "alone"
    <3>1. [Next]_vars
      BY <2>2 DEF CommandsNext, commandVars
    <3> QED BY <2>2, <3>1, NextTyped DEF PartsInv
  <2> QED BY <2>1, <2>2
<1>2. ASSUME part = "analyze" PROVE AP!IInv'
  <2>1. [AP!Next]_(AP!vars)
    BY <1>2, SameAnalyses DEF CommandsNext, commandVars, Rest1, AP!vars
  <2> QED BY <1>2, <2>1, SameAnalyses, AP!NextKeeps DEF PartsInv
<1>3. ASSUME part = "reports" PROVE RP!IInv' /\ RP!MergedOK'
  <2>1. [RP!Next]_(RP!vars)
    BY <1>3, SameReports DEF CommandsNext, commandVars, Rest1, Rest12, RP!vars
  <2>2. s7 \in RP!Writers
    BY <1>3 DEF PartsInv, RP!IInv, RP!Shapes
  <2> QED BY <1>3, <2>1, <2>2, SameReports, RP!NextKeeps, RP!MergedKeeps DEF PartsInv
<1>4. ASSUME part = "served" PROVE SP!IInv'
  <2>1. [SP!Next]_(SP!vars)
    BY <1>4, SameServed DEF CommandsNext, commandVars, Rest1, Rest12, SP!vars
  <2> QED BY <1>4, <2>1, SameServed, SP!NextKeeps DEF PartsInv
<1> QED BY <1>0, <1>1, <1>2, <1>3, <1>4 DEF PartsInv

LEMMA PartsInvHolds == CommandsSpec => []PartsInv
  BY PartsInitially, PartsKeep, PTL DEF CommandsSpec

\* Workspace commands, whatever fails or is killed, one at a time or together: a file that
\* does not parse was cut short or written twice at once, no configuration a command reads
\* gives two repositories one database, and commands one at a time lose nothing and leave
\* nothing behind (workspace.go).
THEOREM ConfigurationHolds == CommandsSpec => [](NoCollision /\ ConfigurationIsKept)
<1>1. PartsInv => NoCollision /\ ConfigurationIsKept
  <2>1. Typed => TypeOK /\ TornOnlyIfBroken /\ NoCollision
    BY DEF Typed, IInv, TornHasCause, TornOnlyIfBroken, Quiet
  <2>2. Kept => NoOrphan /\ AddedStays
    BY DEF Kept, FileKeeps, NoOrphan, AddedStays, DBsOf
  <2> QED BY <2>1, <2>2 DEF PartsInv, ConfigurationIsKept
<1> QED BY <1>1, PartsInvHolds, PTL

\* Analyses that fail, are cancelled, refused or killed at any point, the opening of a database
\* and its removal included, for any number of repositories and of commands, and the metadata
\* that reports read (analyze.go).
THEOREM AnalysesHold == CommandsSpec => []AnalysesAreWhole
<1>1. ASSUME PartsInv, part = "analyze"
      PROVE /\ Analyses!TypeOK /\ Analyses!SuccessIsComplete /\ Analyses!MetaNeverAhead
            /\ Analyses!ReleasesLocks /\ Analyses!RefusedOnlyIfTorn /\ Analyses!RefusalKeeps
  <2>1. /\ AP!TypeOK /\ AP!SuccessIsComplete /\ AP!MetaNeverAhead
        /\ AP!ReleasesLocks /\ AP!RefusedOnlyIfTorn /\ AP!RefusalKeeps
    BY <1>1, SameAnalyses, AP!InvariantImplies DEF PartsInv
  <2> QED
    BY <2>1
    DEF Analyses!SuccessIsComplete, AP!SuccessIsComplete, Analyses!MetaNeverAhead,
        AP!MetaNeverAhead, Analyses!ReleasesLocks, AP!ReleasesLocks,
        Analyses!RefusedOnlyIfTorn, AP!RefusedOnlyIfTorn, Analyses!RefusalKeeps,
        AP!RefusalKeeps, Analyses!TypeOK, AP!TypeOK, Analyses!Dirs, AP!Dirs,
        Analyses!Stages, AP!Stages, Analyses!Absent, AP!Absent, Analyses!Entries,
        AP!Entries, Analyses!Markers, AP!Markers
<1>2. ASSUME PartsInv, part = "reports" PROVE Reports!TypeOK /\ Reports!MetadataOfWhole
  <2>1. RP!TypeOK /\ RP!MetadataOfWhole
    BY <1>2, SameReports, RP!InvariantTypes, RP!MergedMeansWhole DEF PartsInv
  <2> QED
    BY <2>1
    DEF Reports!TypeOK, RP!TypeOK, Reports!Lines, RP!Lines, Reports!Kinds, RP!Kinds,
        Reports!Trees, RP!Trees, Reports!MetadataOfWhole, RP!MetadataOfWhole
<1>3. ASSUME PartsInv, part = "served" PROVE Served!TypeOK
  <2>1. SP!TypeOK
    BY <1>3, SameServed, SP!InvariantTypes DEF PartsInv
  <2> QED
    BY <2>1
    DEF Served!TypeOK, SP!TypeOK, Served!Lines, SP!Lines, Served!Kinds, SP!Kinds,
        Served!Trees, SP!Trees
<1>4. PartsInv => AnalysesAreWhole
  BY <1>1, <1>2, <1>3 DEF AnalysesAreWhole
<1> QED BY <1>4, PartsInvHolds, PTL

\* A report that says fresh of a graph that was rebuilt from a clean tree is right about every
\* file that Git does not ignore, and none says stale while tree, index and HEAD are what the
\* writer of the metadata saw, on the command line and in a server that watches, whatever is
\* edited, staged, committed and checked out (evaluateFreshness).
THEOREM FreshnessHolds == CommandsSpec => FreshnessIsHonest
<1>1. ASSUME PartsInv, part = "reports" PROVE Reports!CleanFreshMatches /\ Reports!NoFalseAlarm
  <2>1. RP!CleanFreshMatches /\ RP!NoFalseAlarm
    BY <1>1, SameReports, RP!CleanFresh, RP!NoAlarm DEF PartsInv
  <2> QED
    BY <2>1
    DEF Reports!CleanFreshMatches, RP!CleanFreshMatches, Reports!NoFalseAlarm, RP!NoFalseAlarm,
        Reports!Ends, RP!Ends, Reports!ReportEnds, RP!ReportEnds, Reports!Verdict,
        RP!Verdict, Reports!Stale, RP!Stale, Reports!Status, RP!Status, Reports!NoReport,
        RP!NoReport, Reports!NoMeta, RP!NoMeta, Reports!Declarations, RP!Declarations,
        Reports!Changed, RP!Changed, Reports!Line, RP!Line, Reports!Kind, RP!Kind
<1>2. ASSUME PartsInv, part = "served" PROVE Served!CleanFreshMatches /\ Served!NoFalseAlarm
  <2>1. SP!CleanFreshMatches /\ SP!NoFalseAlarm
    BY <1>2, SameServed, SP!CleanFresh, SP!NoAlarm DEF PartsInv
  <2> QED
    BY <2>1
    DEF Served!CleanFreshMatches, SP!CleanFreshMatches, Served!NoFalseAlarm, SP!NoFalseAlarm,
        Served!Ends, SP!Ends, Served!ReportEnds, SP!ReportEnds, Served!Verdict,
        SP!Verdict, Served!Stale, SP!Stale, Served!Status, SP!Status, Served!NoReport,
        SP!NoReport, Served!NoMeta, SP!NoMeta, Served!Declarations, SP!Declarations,
        Served!Changed, SP!Changed, Served!Line, SP!Line, Served!Kind, SP!Kind
<1>3. PartsInv =>
        /\ part = "reports" => Reports!CleanFreshMatches /\ Reports!NoFalseAlarm
        /\ part = "served" => Served!CleanFreshMatches /\ Served!NoFalseAlarm
  BY <1>1, <1>2
<1> QED BY <1>3, PartsInvHolds, PTL DEF FreshnessIsHonest

=============================================================================
