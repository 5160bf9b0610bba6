---------------------------- MODULE WatchStorage ----------------------------
(***************************************************************************)
(* The databases of a watching MCP server (cmd/gokg/mcp.go).  The server   *)
(* loads its graph once and keeps every database closed while idle; each   *)
(* update of a watcher opens it again, registers it with the graph,        *)
(* changes the graph, saves the metadata, closes it and takes it out of    *)
(* the graph, in the order of Go's deferred calls.  The impact tool of the *)
(* same server opens it read-only to load metadata, other gokg commands    *)
(* open it in either mode.  Badger lets one writer or many readers in.     *)
(*                                                                         *)
(* Time is counted in ticks; timers fire promptly.                         *)
(***************************************************************************)
EXTENDS Integers, FiniteSets

CONSTANTS
  Repos,        \* repositories with a watcher
  DBs, DBOf,    \* database directories and the one of each repository
  Loaders,      \* concurrent requests to the impact tool
  Shared,       \* pairs <<r, s>>: packages of r hold nodes discovered by s
  Timeout,      \* watchStorageOpenTimeout
  Delay,        \* watchStorageOpenDelay
  MaxUpdates    \* bound: updates per repository

ASSUME StorageAssumption ==
  /\ DBOf \in [Repos -> DBs] /\ Shared \subseteq Repos \X Repos
  /\ Timeout \in Nat \ {0} /\ Delay \in Nat \ {0} /\ MaxUpdates \in Nat

VARIABLES
  pc,         \* watcher: "idle", "opening", "register", "remove", "build", "meta", "close", "unregister"
  waited,     \* ticks since openWatchStorageWithRetry was called
  since,      \* ticks since its last attempt
  handle,     \* the store registered for a repository: "none", "open" or "closed"
  holders,    \* who has the directory of a database open
  loader,     \* what a loader does: "idle", or the database it reads
  quiet,      \* history: ticks nobody else had the watcher's database open, at most Delay + 1
  updates,    \* updates begun
  cancelled,  \* ctx.Done
  closedUse   \* history: repositories whose update failed on another repository's closed store

vars == <<pc, waited, since, handle, holders, loader, quiet, updates, cancelled, closedUse>>

Steps == {"idle", "opening", "register", "remove", "build", "meta", "close", "unregister"}
Foreign == {"analyze", "export"}    \* another process: a writer, a reader
Writers == Repos \cup {"analyze"}

\* Who holds a directory is told apart by name.
ASSUME NamesAssumption ==
  /\ Repos \cap (Loaders \cup Foreign) = {} /\ Loaders \cap Foreign = {}
  /\ "idle" \notin DBs

-----------------------------------------------------------------------------
(* The directory lock of Badger.                                           *)

\* NewBadgerStorage, NewBadgerStorageReadOnly.  Faulty variant: the lock is bypassed.
CanWriteUnlocked(db) == TRUE
CanWrite(db) == holders[db] = {}
CanRead(db) == holders[db] \cap Writers = {}

Take(db, who) ==
  /\ holders' = [holders EXCEPT ![db] = @ \cup {who}]
  /\ quiet' = [r \in Repos |-> IF DBOf[r] = db /\ who # r THEN 0 ELSE quiet[r]]
Leave(db, who) == holders' = [holders EXCEPT ![db] = @ \ {who}]

Goto(r, step) == pc' = [pc EXCEPT ![r] = step]

Init ==
  /\ pc = [r \in Repos |-> "idle"]
  /\ waited = [r \in Repos |-> 0] /\ since = [r \in Repos |-> 0]
  /\ handle = [r \in Repos |-> "none"]
  /\ holders = [db \in DBs |-> {}]
  /\ loader = [l \in Loaders |-> "idle"]
  /\ quiet = [r \in Repos |-> Delay + 1]
  /\ updates = [r \in Repos |-> 0]
  /\ cancelled = FALSE /\ closedUse = {}

-----------------------------------------------------------------------------
(* openWatchStorageWithRetry.                                              *)

Begin(r) ==
  /\ pc[r] = "idle" /\ updates[r] < MaxUpdates /\ ~cancelled
  /\ Goto(r, "opening")
  /\ waited' = [waited EXCEPT ![r] = 0]
  /\ since' = [since EXCEPT ![r] = Delay]
  /\ updates' = [updates EXCEPT ![r] = @ + 1]
  /\ UNCHANGED <<handle, holders, loader, quiet, cancelled, closedUse>>

\* The first attempt is made at once, the others a delay apart.  Faulty variant: the
\* next one only when the time is up.
Attempted(r) == waited[r] > 0 \/ since[r] = 0
DueOnce(r) == since[r] >= IF Attempted(r) THEN Timeout ELSE Delay
Due(r) == since[r] >= Delay

Open(r) ==
  /\ pc[r] = "opening" /\ Due(r) /\ CanWrite(DBOf[r])
  /\ Take(DBOf[r], r) /\ Goto(r, "register")
  /\ UNCHANGED <<waited, since, handle, loader, updates, cancelled, closedUse>>

\* The lock is taken: wait and try again.
OpenLocked(r) ==
  /\ pc[r] = "opening" /\ Due(r) /\ ~CanWrite(DBOf[r])
  /\ since' = [since EXCEPT ![r] = 0]
  /\ UNCHANGED <<pc, waited, handle, holders, loader, quiet, updates, cancelled, closedUse>>

\* Any other error of Open is returned at once.
OpenFails(r) ==
  /\ pc[r] = "opening" /\ Due(r) /\ CanWrite(DBOf[r])
  /\ Goto(r, "idle")
  /\ UNCHANGED <<waited, since, handle, holders, loader, quiet, updates, cancelled, closedUse>>

\* The deadline may win over a delay that is over too; the update is dropped.
GiveUp(r) ==
  /\ pc[r] = "opening" /\ waited[r] >= Timeout
  /\ Goto(r, "idle")
  /\ UNCHANGED <<waited, since, handle, holders, loader, quiet, updates, cancelled, closedUse>>

OpenCancelled(r) ==
  /\ pc[r] = "opening" /\ cancelled /\ Attempted(r)
  /\ Goto(r, "idle")
  /\ UNCHANGED <<waited, since, handle, holders, loader, quiet, updates, cancelled, closedUse>>

-----------------------------------------------------------------------------
(* The update runner.                                                      *)

\* SetRepoStore(repoID, store) or SetStore(store).
Register(r) ==
  /\ pc[r] = "register"
  /\ handle' = [handle EXCEPT ![r] = "open"] /\ Goto(r, "remove")
  /\ UNCHANGED <<waited, since, holders, loader, quiet, updates, cancelled, closedUse>>

\* RemovePackage and BuildFromParseResult write through the store of each node's
\* repository, the closed one of another watcher included.
MeetsClosed(r) == \E s \in Repos : <<r, s>> \in Shared /\ handle[s] = "closed"

Change(r, step, next) ==
  /\ pc[r] = step /\ ~cancelled /\ ~MeetsClosed(r)
  /\ Goto(r, next)
  /\ UNCHANGED <<waited, since, handle, holders, loader, quiet, updates, cancelled, closedUse>>
Remove(r) == Change(r, "remove", "build")
Build(r) == Change(r, "build", "meta")

\* A write fails, or the context is done: the deferred calls run.
ChangeFails(r) ==
  /\ pc[r] \in {"remove", "build", "meta"}
  /\ closedUse' = IF pc[r] # "meta" /\ MeetsClosed(r) THEN closedUse \cup {r} ELSE closedUse
  /\ Goto(r, "close")
  /\ UNCHANGED <<waited, since, handle, holders, loader, quiet, updates, cancelled>>

SaveMetadata(r) ==
  /\ pc[r] = "meta" /\ ~cancelled
  /\ Goto(r, "close")
  /\ UNCHANGED <<waited, since, handle, holders, loader, quiet, updates, cancelled, closedUse>>

\* defer store.Close() was registered last and runs first.  Faulty variant: the store
\* is only taken out of the graph.
CloseForgotten(r) ==
  /\ pc[r] = "close"
  /\ Goto(r, "unregister")
  /\ UNCHANGED <<waited, since, handle, holders, loader, quiet, updates, cancelled, closedUse>>
Close(r) ==
  /\ pc[r] = "close"
  /\ Leave(DBOf[r], r) /\ handle' = [handle EXCEPT ![r] = "closed"] /\ Goto(r, "unregister")
  /\ UNCHANGED <<waited, since, loader, quiet, updates, cancelled, closedUse>>

Unregister(r) ==
  /\ pc[r] = "unregister"
  /\ handle' = [handle EXCEPT ![r] = "none"] /\ Goto(r, "idle")
  /\ UNCHANGED <<waited, since, holders, loader, quiet, updates, cancelled, closedUse>>

-----------------------------------------------------------------------------
(* Loaders, other processes, time.                                         *)

\* AnalysisMetadataLoader: one attempt; on a lock error the report says unknown.
LoaderOpens(l, db) ==
  /\ loader[l] = "idle" /\ CanRead(db)
  /\ Take(db, l) /\ loader' = [loader EXCEPT ![l] = db]
  /\ UNCHANGED <<pc, waited, since, handle, updates, cancelled, closedUse>>
LoaderCloses(l) ==
  /\ loader[l] # "idle"
  /\ Leave(loader[l], l) /\ loader' = [loader EXCEPT ![l] = "idle"]
  /\ UNCHANGED <<pc, waited, since, handle, quiet, updates, cancelled, closedUse>>

ForeignOpens(db) ==
  \E p \in Foreign :
    /\ p \notin holders[db]
    /\ IF p \in Writers THEN CanWrite(db) ELSE CanRead(db)
    /\ Take(db, p)
    /\ UNCHANGED <<pc, waited, since, handle, loader, updates, cancelled, closedUse>>
ForeignCloses(db) ==
  \E p \in holders[db] \cap Foreign :
    /\ Leave(db, p)
    /\ UNCHANGED <<pc, waited, since, handle, loader, quiet, updates, cancelled, closedUse>>

Cancel ==
  /\ ~cancelled /\ cancelled' = TRUE
  /\ UNCHANGED <<pc, waited, since, handle, holders, loader, quiet, updates, closedUse>>

\* A timer that is due fires before time goes on.
Tick ==
  /\ \E r \in Repos : pc[r] = "opening"
  /\ \A r \in Repos : pc[r] = "opening" => ~Due(r) /\ waited[r] < Timeout
  /\ waited' = [r \in Repos |-> IF pc[r] = "opening" THEN waited[r] + 1 ELSE waited[r]]
  /\ since' = [r \in Repos |-> IF pc[r] = "opening" THEN since[r] + 1 ELSE since[r]]
  /\ quiet' = [r \in Repos |-> IF ~(holders[DBOf[r]] \subseteq {r}) THEN 0
                              ELSE IF quiet[r] > Delay THEN quiet[r] ELSE quiet[r] + 1]
  /\ UNCHANGED <<pc, handle, holders, loader, updates, cancelled, closedUse>>

RunnerStep(r) ==
  \/ Open(r) \/ OpenLocked(r) \/ OpenFails(r) \/ GiveUp(r) \/ OpenCancelled(r)
  \/ Register(r) \/ Remove(r) \/ Build(r) \/ ChangeFails(r) \/ SaveMetadata(r)
  \/ Close(r) \/ Unregister(r)

Next ==
  \/ \E r \in Repos : Begin(r) \/ RunnerStep(r)
  \/ \E l \in Loaders : LoaderCloses(l) \/ \E db \in DBs : LoaderOpens(l, db)
  \/ \E db \in DBs : ForeignOpens(db) \/ ForeignCloses(db)
  \/ Cancel \/ Tick

\* A callback runs on once it has started and time goes on; nobody is obliged to begin
\* an update, to load metadata or to leave a database.
Fairness == WF_vars(Tick) /\ \A r \in Repos : WF_vars(RunnerStep(r))
Spec == Init /\ [][Next]_vars /\ Fairness

-----------------------------------------------------------------------------
TypeOK ==
  /\ pc \in [Repos -> Steps]
  /\ waited \in [Repos -> 0..Timeout] /\ since \in [Repos -> Nat]
  /\ handle \in [Repos -> {"none", "open", "closed"}]
  /\ holders \in [DBs -> SUBSET (Repos \cup Loaders \cup Foreign)]
  /\ loader \in [Loaders -> DBs \cup {"idle"}]
  /\ quiet \in [Repos -> 0..(Delay + 1)]
  /\ updates \in [Repos -> 0..MaxUpdates]
  /\ cancelled \in BOOLEAN /\ closedUse \subseteq Repos

\* While an update changes the graph and its metadata, its own store is registered,
\* open, and nobody else has the directory open, repositories that share a directory
\* and loaders of the same process included.
UpdateOwnsStore ==
  \A r \in Repos : pc[r] \in {"remove", "build", "meta"} =>
    handle[r] = "open" /\ holders[DBOf[r]] = {r}

\* An update is dropped for the lock only if somebody else, another watcher on the same
\* directory included, held the database within the last delay: one that is free for
\* longer is always found ("is still locked after": openWatchStorageWithRetry).
DroppedOnlyIfLocked ==
  [][\A r \in Repos : GiveUp(r) => quiet[r] <= Delay]_vars

\* SetStore's promise: long-running servers "close the DB while idle, and reopen it only
\* for incremental persistence".  Every database a watcher opened is given back, after
\* failures and cancellation too, and no closed store stays registered.
HandedBack ==
  \A r \in Repos :
    /\ r \in holders[DBOf[r]] ~> r \notin holders[DBOf[r]]
    /\ handle[r] # "none" ~> handle[r] = "none"

\* "Repo stores are used in workspace mode so one in-memory graph can persist updates
\* back to the correct per-repo database" (graph.go): no update fails because a store
\* of the graph is closed.
NoUseOfClosedStore == closedUse = {}
=============================================================================
