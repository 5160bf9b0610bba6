------------------------------ MODULE Workspace ------------------------------
(***************************************************************************)
(* The configuration of a workspace and the databases it names             *)
(* (internal/workspace/workspace.go, cmd/gokg/workspace.go,                *)
(* cmd/gokg/workspace_runtime.go).  Commands are processes: each reads     *)
(* workspace.json, works on its copy and, if it changes it, writes the     *)
(* whole file back with os.WriteFile, which truncates first.  There is no  *)
(* lock between them, and any of them may be killed.                       *)
(***************************************************************************)
EXTENDS Integers, FiniteSets

CONSTANTS
  Procs,         \* commands that may run at the same time
  Repos,         \* repository ids
  Paths, DBPath, \* database directories; GetRepoDBPath maps '/' to '_', so ids may share one
  MaxCommands    \* bound: commands

ASSUME WorkspaceAssumption == DBPath \in [Repos -> Paths] /\ MaxCommands \in Nat

VARIABLES
  file,        \* workspace.json: absent, torn (not JSON), or whole
  databases,   \* directories that exist
  cmd,         \* what each process does
  commands,    \* commands begun
  added,       \* history: repositories whose add succeeded and whose removal has not begun
  broken       \* history: a write was cut short, or two writes overlapped

vars == <<file, databases, cmd, commands, added, broken>>

Idle == [pc |-> "idle", op |-> "none", repo |-> "none", copy |-> {}, open |-> {}, alone |-> TRUE]
Whole(repos) == [state |-> "whole", repos |-> repos]
Torn == [state |-> "torn", repos |-> {}]

Init ==
  /\ file = [state |-> "absent", repos |-> {}] /\ databases = {}
  /\ cmd = [p \in Procs |-> Idle]
  /\ commands = 0 /\ added = {} /\ broken = FALSE

\* validateConfig.
Valid(repos) == \A r, s \in repos : DBPath[r] = DBPath[s] => r = s

Begin(p, command) ==
  /\ cmd[p] = Idle /\ commands < MaxCommands
  /\ commands' = commands + 1 /\ cmd' = [cmd EXCEPT ![p] = command]

\* Load: a command whose configuration is missing or does not parse fails at once.
Loaded == file.state = "whole" /\ Valid(file.repos)

-----------------------------------------------------------------------------
(* workspace init, add, remove.                                            *)

InitWorkspace(p) ==
  /\ file.state = "absent"
  /\ Begin(p, [Idle EXCEPT !.pc = "save", !.op = "init"])
  /\ UNCHANGED <<file, databases, added, broken>>

\* Faulty variant: ids with one database path are taken.
AddColliding(p, r) ==
  /\ Loaded /\ r \notin file.repos
  /\ Begin(p, [Idle EXCEPT !.pc = "save", !.op = "add", !.repo = r, !.copy = file.repos \cup {r}])
  /\ UNCHANGED <<file, databases, added, broken>>
AddRepo(p, r) ==
  /\ Loaded /\ r \notin file.repos /\ Valid(file.repos \cup {r})
  /\ Begin(p, [Idle EXCEPT !.pc = "save", !.op = "add", !.repo = r, !.copy = file.repos \cup {r}])
  /\ UNCHANGED <<file, databases, added, broken>>

RemoveRepo(p, r) ==
  /\ Loaded /\ r \in file.repos
  /\ Begin(p, [Idle EXCEPT !.pc = "delete", !.op = "remove", !.repo = r, !.copy = file.repos])
  /\ added' = added \ {r}
  /\ UNCHANGED <<file, databases, broken>>

\* os.RemoveAll of the database, then the copy without the repository is saved.  Faulty
\* variant: the path is not the one of the database, which RemoveAll does not mind.
DeleteElsewhere(p) ==
  /\ cmd[p].pc = "delete"
  /\ cmd' = [cmd EXCEPT ![p].pc = "save", ![p].copy = @ \ {cmd[p].repo}]
  /\ UNCHANGED <<file, databases, commands, added, broken>>
Delete(p) ==
  /\ cmd[p].pc = "delete"
  /\ databases' = databases \ {DBPath[cmd[p].repo]}
  /\ cmd' = [cmd EXCEPT ![p].pc = "save", ![p].copy = @ \ {cmd[p].repo}]
  /\ UNCHANGED <<file, commands, added, broken>>
DeleteFails(p) ==
  /\ cmd[p].pc = "delete"
  /\ cmd' = [cmd EXCEPT ![p] = Idle]
  /\ UNCHANGED <<file, databases, commands, added, broken>>

\* Save.  Whoever opens the file truncates it under the others.
Truncate(p) ==
  /\ cmd[p].pc = "save"
  /\ file' = Torn
  /\ cmd' = [q \in Procs |-> IF q = p THEN [cmd[p] EXCEPT !.pc = "write"]
                              ELSE IF cmd[q].pc = "write" THEN [cmd[q] EXCEPT !.alone = FALSE]
                              ELSE cmd[q]]
  /\ UNCHANGED <<databases, commands, added, broken>>

\* A write over another one leaves its own text, or that with the tail of a longer one.
Write(p) ==
  /\ cmd[p].pc = "write"
  /\ LET overlaps == ~cmd[p].alone \/ \E q \in Procs \ {p} : cmd[q].pc = "write"
     IN  /\ file' \in {Whole(cmd[p].copy)} \cup (IF overlaps THEN {Torn} ELSE {})
         /\ broken' = (broken \/ overlaps)
  /\ added' = IF cmd[p].op = "add" THEN added \cup {cmd[p].repo} ELSE added
  /\ cmd' = [q \in Procs |-> IF q = p THEN Idle
                              ELSE IF cmd[q].pc = "write" THEN [cmd[q] EXCEPT !.alone = FALSE]
                              ELSE cmd[q]]
  /\ UNCHANGED <<databases, commands>>

SaveFails(p) ==
  /\ cmd[p].pc \in {"save", "write"}
  /\ broken' = (broken \/ cmd[p].pc = "write")
  /\ cmd' = [cmd EXCEPT ![p] = Idle]
  /\ UNCHANGED <<file, databases, commands, added>>

-----------------------------------------------------------------------------
(* Commands that use the databases.                                        *)

\* analyze --workspace: a database for each repository of the copy.
Analyze(p) ==
  /\ Loaded /\ file.repos # {}
  /\ Begin(p, [Idle EXCEPT !.pc = "analyze", !.op = "analyze", !.copy = file.repos])
  /\ UNCHANGED <<file, databases, added, broken>>
MakeDatabase(p) ==
  /\ cmd[p].pc = "analyze"
  /\ \E r \in cmd[p].copy :
       /\ databases' = databases \cup {DBPath[r]}
       /\ cmd' = [cmd EXCEPT ![p] = IF cmd[p].copy = {r} THEN Idle ELSE [cmd[p] EXCEPT !.copy = @ \ {r}]]
  /\ UNCHANGED <<file, commands, added, broken>>

\* openWorkspaceStores, in the order of the ids (any order here), and closeStores.
OpenStores(p) ==
  /\ Loaded /\ file.repos # {}
  /\ Begin(p, [Idle EXCEPT !.pc = "open", !.op = "open", !.copy = file.repos])
  /\ UNCHANGED <<file, databases, added, broken>>
OpenStore(p) ==
  /\ cmd[p].pc = "open"
  /\ \E r \in cmd[p].copy :
       /\ DBPath[r] \in databases
       /\ cmd' = [cmd EXCEPT ![p].open = @ \cup {r}, ![p].copy = @ \ {r},
                             ![p].pc = IF cmd[p].copy = {r} THEN "close" ELSE "open"]
  /\ UNCHANGED <<file, databases, commands, added, broken>>

\* A database that is missing or cannot be opened: close what is open and fail.
OpenStoreFails(p) ==
  /\ cmd[p].pc = "open"
  /\ cmd' = [cmd EXCEPT ![p].pc = "close"]
  /\ UNCHANGED <<file, databases, commands, added, broken>>
CloseStores(p) ==
  /\ cmd[p].pc = "close"
  /\ cmd' = [cmd EXCEPT ![p] = Idle]
  /\ UNCHANGED <<file, databases, commands, added, broken>>

Killed(p) ==
  /\ cmd[p] # Idle
  /\ broken' = (broken \/ cmd[p].pc = "write")
  /\ cmd' = [cmd EXCEPT ![p] = Idle]
  /\ UNCHANGED <<file, databases, commands, added>>

Step(p) ==
  \/ InitWorkspace(p) \/ \E r \in Repos : AddRepo(p, r) \/ RemoveRepo(p, r)
  \/ Delete(p) \/ DeleteFails(p) \/ Truncate(p) \/ Write(p) \/ SaveFails(p)
  \/ Analyze(p) \/ MakeDatabase(p)
  \/ OpenStores(p) \/ OpenStore(p) \/ OpenStoreFails(p) \/ CloseStores(p)
  \/ Killed(p)
Next == \E p \in Procs : Step(p)

\* Commands one after the other.
NextAlone == \E p \in Procs : (\A q \in Procs \ {p} : cmd[q] = Idle) /\ Step(p)

Spec == Init /\ [][Next]_vars
SpecAlone == Init /\ [][NextAlone]_vars

-----------------------------------------------------------------------------
Quiet == \A p \in Procs : cmd[p].pc = "idle"

TypeOK ==
  /\ file.state \in {"absent", "torn", "whole"} /\ file.repos \subseteq Repos
  /\ databases \subseteq Paths
  /\ \A p \in Procs :
       /\ cmd[p].pc \in {"idle", "delete", "save", "write", "analyze", "open", "close"}
       /\ cmd[p].op \in {"none", "init", "add", "remove", "analyze", "open"}
       /\ cmd[p].copy \cup cmd[p].open \subseteq Repos
       /\ cmd[p].pc = "idle" <=> cmd[p] = Idle
  /\ commands \in 0..MaxCommands /\ added \subseteq Repos /\ broken \in BOOLEAN

\* Whatever commands overlap: a configuration that parses never gives two repositories
\* one database ("database path collides with existing repo"), so Load takes it.
NoCollision == file.state = "whole" => Valid(file.repos)

\* Commands one after the other, killed or failing anywhere: RemoveRepo deletes before it
\* saves, so a database that nobody is configured for is never left behind.
NoOrphan ==
  Quiet /\ file.state = "whole" => databases \subseteq {DBPath[r] : r \in file.repos}

\* "AddRepo adds a repository to the workspace": what was added is in the configuration
\* until a command removes it.
AddedStays == Quiet /\ file.state = "whole" => added \subseteq file.repos

\* A configuration that does not parse is the trace of a write that was cut short or of
\* two that overlapped; no command that fails its checks touches the file.
TornOnlyIfBroken == Quiet /\ file.state = "torn" => broken
=============================================================================
