# A TLA+ verification project for gokg

gokg parses Go repositories into a knowledge graph (packages, declarations, files,
folders and the edges between them), persists it in BadgerDB, keeps it current with a
file watcher and answers questions about it on the command line and over MCP. This
directory holds TLA+ models of its parts, the TLC instances that check them, and TLAPS
proofs about them. Paths below are relative to the repository; `PROJECT.json` gives
them with their prefix `src/`, the lines each definition stands for (about half of the
implementation), the hazards with their properties, and the mutants: for every property
a plausible bug that it catches.

## 1. The system

| Component | State | Operations | Interacts with |
|---|---|---|---|
| Code graph (`internal/graph/graph.go`) | `nodeMap` (external id → numeric id), `nodes`, `edges` (by numeric ids), `nextNodeID`, registered stores; one `RWMutex` | `AddNode`, `AddEdge`, `BuildFromParseResult(s)`, `RemovePackage`, `LoadFromStorage(s)`, `SetStore`, `SetRepoStore` | writes the stores while it holds its lock; changed by analyze and by the watchers, read by queries |
| Repository structure (`structure.go`, `package.go`) | REPO, FOLDER and FILE nodes and CONTAINS edges inside the graph | `ReplaceRepositoryStructure`, package paths by directory, the tree query | fed by the parser's folder walk, called by the watcher |
| Storage (`internal/storage`) | a Badger database per repository, locked by one process at a time | put, batch put, get, iterate, delete, value-log GC, close | opened by every command; opened per update in watch mode |
| File watcher (`internal/watcher`) | fsnotify watches, a debounce timer per directory, one for the folder tree, `mu` and `updateMu` | event handling, debouncing, package update, tree rescan, removal of a path, refresh of the folder tree | reads the disk, runs the parser, changes the graph inside an update runner |
| Watch-mode storage (`cmd/gokg/mcp.go`) | the store registered with the graph during one update | open with retry, register, update, save metadata, close, unregister | shares the database with loaders in the same and in other processes |
| Parser (`internal/parser`) | results of the packages, appended by workers | full and incremental parse, choice of package variants, IMPLEMENTS edges, channel flows, static routes | `go/packages`, the disk |
| Queries (`query.go`, `node_context.go`, `structure.go`) | none; one read lock per call | search, dependencies, blast radius, shortest path, concurrency, folder tree, node context | the graph; node context reads the source file after it gave the lock back |
| Cypher (`internal/cypher`, `cypher_evaluator.go`) | none between calls | lexer, parser, validation, evaluation | the graph |
| Metadata, Git state, freshness (`metadata.go`, `internal/gitstate`, `freshness.go`) | metadata in the database | capture, save, load, compare | git, the database, the working tree |
| Impact analysis (`internal/impact`) | none between calls | diff → ranges → changed nodes → blast radius, in parallel over repositories | git, the graph (two separate read-locked sections), freshness |
| MCP server (`internal/mcp`) | none between requests | stdio loop, HTTP handlers and shutdown, validation and dispatch | queries, impact analysis |
| Workspace (`internal/workspace`, `cmd/gokg/workspace*.go`) | `workspace.json` and a database directory per repository | init, add, remove, list, load | every command in workspace mode |
| Analyze (`cmd/gokg/analyze.go`) | none | rebuild, parse, merge, save metadata, GC; in parallel over a workspace | all of the above |

What is hard here:

* a call that fails half-way: every mutator of the graph does several writes and then
  changes memory, or the other way round, and there is no transaction around them;
* memory and store that must agree across removals, re-merges, restarts, several key
  formats and several repositories, although some edges are persisted without being in
  memory;
* numeric ids that outlive their nodes, because inbound edges of a removed package are
  kept for its next parse;
* a watcher whose event loop, timer callbacks and update jobs run beside each other and
  read a disk that changes between any two reads;
* databases that one process at a time may open, with retries, deadlines, and deferred
  calls in an order of their own;
* commands without a lock between them that read, change and write one file;
* questions that stop at limits, walk Go maps in any order, and read in two steps what
  may change in between;
* checks against git that look at less than what was analysed;
* a parser that reads packages alone or together, in any order, in several variants.

What makes each component correct: the graph's indexes agree, nothing live is missing
from the store and nothing removed comes back from it; a reader sees every call at once
or not at all; the watcher loses no change and erases no snapshot; an update owns its
database while it writes; queries agree with their definitions in any order of the maps
and say exactly when they cut a result short; a report never calls a graph fresh in the
cases it can know better; every call and every request ends; workspace file and
databases agree; what the graph says of routes, channels and implementations is what
the source says.

## 2. Plan and state

| # | Modules | Subject | State |
|---|---|---|---|
| 1 | `KnowledgeGraph` | graph, folder tree, stores | checked; every invariant and action property proved (`KnowledgeGraphProofs`) |
| 2 | `GraphView` | what a reader sees; 1 implements it | checked; the refinement proved (`KnowledgeGraphProofs`) |
| 3 | `Watcher` | the watcher of one repository | checked, with liveness; every invariant proved (`WatcherProofs`) |
| 4 | `WatchStorage` | databases in watch mode | checked, with liveness; all but liveness proved (`McpServerProofs`) |
| 5 | `BlastRadius`, `CallPath`, `GraphReads`, `GraphScans` | searches and scans against reference definitions | checked; proved (`QueryProofs`) |
| | `StructureTree` | the folder tree | checked; proved (`QueryProofs`) |
| | `NodeContext` | the context of a node | checked |
| 6 | `CypherLexer`, `CypherEval` | Cypher: from a text to tokens, from a query to rows | checked; proved (`QueryProofs`) |
| | `CypherParser`, `CypherGrammar` | Cypher: from tokens to a query | checked |
| 7 | `Workspace` | configuration and databases | checked; every property proved (`WorkspaceProofs`) |
| 8 | `AnalyzeRun`, `Freshness` | analyses and reports about their graphs | checked; every property proved (`AnalyzeRunProofs`, `FreshnessProofs`) |
| 9 | `ImpactAnalysis`, `DiffRanges` | change impact | checked, with liveness; what reports say of failures, tests and files proved (`ImpactAnalysisProofs`) |
| 10 | `McpRequests`, `McpStdio`, `McpHttp` | the server | checked, with liveness; all but liveness proved (`McpServerProofs`) |
| 11 | `RouteScopes`, `ParseFlows`, `PackageVariants` | from source to graph | checked; `ParseFlows` with liveness |

The compositions `Queries` (what is proved of rows 5 and 6), `AllQueries` (all of them),
`DiskCommands` (7 and 8) and `McpServer` (4 and 10) put these together. Not proved:
`NodeContext`, `CypherParser`, and what `MCChanges` says of sources. Not modelled: type
references and instantiations in the visitor, and cancellation of the watcher's context.

### How the instances are put together

`KnowledgeGraph`, `Watcher` and the compositions have an MC module of their own,
which extends them and holds only values for their constants; the proof modules extend
the same modules, so that a theorem and a run speak of one definition. `QueryProofs`
extends `Queries` alone, because the prover reads the definitions of every instance for
every obligation: a behaviour of `AllQueries` in which `asked` is one of the five queries
of `Queries` is a behaviour of `Queries`, by the definitions of `AllInit` and `AllNext`. `MCWorkspaceGraph`
and `MCChanges` compose their components themselves. A composition holds several
components or instances: a variable (`part`, `asked`) says in every initial state which
one a behaviour is about, and it never changes. Components whose variables have
different types share registers (`s1`, `s2`, ... or `r1`, ...): the INSTANCE statement of
a component substitutes them for its variables, and `Rest…`/`Free…` hold the registers
it does not use. The invariants of such a module are conjunctions of the named
properties of the components, each under its `part`. Every named property is stated,
with a comment, in the module of its component. `SourceInputs` holds the data of
`MCChanges`; `Traversal` what the searches have in common. A constant `Graphs`, `Requests`, `Programs`, ... is a set of inputs
of which Init takes any.

A definition whose comment says "Faulty variant" belongs to no specification: it is a
plausible bug of the definition that follows it, named by a mutant in `PROJECT.json`.

## 3. The graph

### `KnowledgeGraph`

Every exported mutator holds `g.mu` from its first to its last line, so a call is one
step; a call that returns an error half-way is a step of its own that leaves behind
whatever the code may have written by then.

* State. `nodeMap`, `nodes`, `edges`, `nextNodeID` are the fields of `Graph`, with the
  numeric ids kept: an edge record carries the two ids it is filed under next to the
  `*Edge`. `registered` says which repositories have a store, `nodeStore` and `edgeStore`
  are the `node:` and `edge:` keys of each store, edges under any generation of the key
  format. The other variables are history: `loaded`, the keys a failed call left undecided
  (`tornNodes`, `tornEdges`), and keys persisted without being in memory (`parked`).
* Actions. `NewGraph` (a restart), `LoadFromStorages`, `SetRepoStore`, `AddNode`,
  `AddEdge`, `BuildFromParseResults`, `RemovePackage`, `ReplaceRepositoryStructure`. A
  merge is staged as in the code (`StagedNodes`, `NewIDs`, `StagedEdges`) and either
  succeeds, fails while nodes are written, or fails while edges are written. `AddEdge`
  merges in memory first, and fails with memory ahead of the store.
* Data. A declaration, a Go file or a stub is an id with a type; an edge's occurrences
  are a set of call sites. Inputs are sets of parse results given as constants.

### `GraphView` and the refinement

`GraphView` is what a reader holding the read lock may rely on: names that are unknown,
known or declared (`known`, `decl`) and at most one link of a type between two names
(`links`). Nodes and edges come in all at once; a package goes with the links that leave
it while those that point to it stay; the folder tree is replaced in one step; a failing
store leaves the nodes of a merge or nothing of it, and may take part of the old tree's
links. The instance `View` of `KnowledgeGraph` maps it to it by forgetting numeric ids, staging
and stores. `ImplementsView` says that every call of `graph.go`, on its error paths too,
is one step of `GraphView` or none.

### Runs and bounds

`graph_packages`: two packages, three declarations, two call sites, an empty database or
one with keys of an older format. `graph_workspace`: two repositories with a declaration
each and stubs for each other (part "two"); a REPO node, one folder and one package
(part "tree"). Numeric ids are never reused, so `MaxNodeID` limits how many nodes one
process creates; in "tree" it exceeds the number of ids, so that folders are forgotten
and numbered anew. Two packages are the smallest instance in which an edge outlives its
target, two sites in which occurrences merge, two repositories in which a declaration
meets its stub, two key versions in which one edge has two keys. Deadlock is checked in
both runs.

## 4. The watcher and its databases

### `Watcher`

Three kinds of goroutine interleave: the event loop (`loop`), timer callbacks (`armed`,
`started`, `waiting`), and the holder of `updateMu` (`job`). The user edits the disk at
any moment.

* Disk and graph. The Go files of a directory are one version number that grows with
  every edit, 0 when there are none, `Absent` when the directory is not there. `graph` is
  the version each package was parsed from, `tree` what the folder tree shows.
* Event loop. One event at a time: a Go file debounces its directory; a new directory is
  watched recursively, one directory per step (`WatchDir`), then scanned under
  `updateMu`; a removed path waits for `updateMu` and removes the packages known under it.
* Timers. `Debounce` stops the timer of the slot and starts another; a timer that has
  fired cannot be stopped. A folder-tree callback gives up when another timer has its slot
  (`CheckSuperseded`); a package callback does not check, and `updatePackageLocked`
  clears the slot of its directory whoever is in it (`Begin`).
* Job. `updatePackageLocked` is `Begin`, `Parse`, `Recheck`, `Drop`, `Apply`, `Build`: one
  step per read of the disk or change to the graph. `updateTreeLocked` adds `Scan` (one
  directory per step) and `NextDir`; the refresh of the folder tree is `ReadPackages`,
  `Walk` (one directory per step) and `ReplaceStructure`. All three walks end at the
  first directory that vanished under them, as `filepath.WalkDir` does with a callback
  that returns the error.
* Failures. "parse" makes a parse fail although Go files are there; "store" makes an
  update fail before its first, between its two, or after its last change.
* History. `missed` (left without a watch by an aborted walk), `dropped` (last update or
  scan ended with a logged error), `treeLost` (the last replacement of the tree failed),
  `unshown` (changed by an update that then ended with an error, so that no refresh of
  the tree followed), `unseen` (Go files removed in a directory without a watch),
  `steady` (never without Go files, and no build failed). The properties excuse exactly these, and for `missed` everything below
  (`Blind`): what happens there reaches nobody. `NoLostPath` needs that nothing was
  missed, since a directory that vanishes unnoticed under a walk ends the refresh, and no
  event starts another.

The run `watcher` has a chain `root`, `a`, `a/b` with a package in `a` and a file that is
not a Go file; parses and stores fail. `MaxEdits` bounds the user, not the watcher; three
edits suffice for an edit that races a timer, the job it started and a removal.
`MaxTimers` is the number of timers of one slot alive at a time; three allow one waiting
for the lock, one fired and one armed. A chain is needed to remove a directory below one
that is being walked. `watcher_aborted_walk` has a directory with two below it, to lose
one when the other vanishes; `watcher_implements` has the root and one directory; nothing
fails in either. fsnotify's queue is unbounded here.

Fairness. `Converges` is checked of `FairSpec`: weak fairness of the event loop, the
timers, taking `updateMu`, and the job. Runnable goroutines run, time passes, a free
`sync.Mutex` is handed to a waiter. It assumes nothing about the user. Because each of
these is one formula over a disjunction, the property does not depend on which waiter
gets the lock: the number of waiters is bounded once edits stop.

### `WatchStorage`

A server that watches loads its graph once and keeps each database closed while idle. An
update is the sequence of `openWatchStorageWithRetry` and its update runner: `Begin`,
`Open` / `OpenLocked` / `OpenFails` / `GiveUp` / `OpenCancelled`, `Register`, `Remove`,
`Build`, `SaveMetadata`, then the deferred calls in Go's order, `Close` before
`Unregister`; `ChangeFails` goes to these from any change. Metadata loaders of the impact
tool open the directory read-only with one attempt; an analyze and an export of other
processes open it too. Badger's lock is `holders`: one writer or several readers.

Time is a tick; timers fire promptly (`Tick` waits for a due attempt). `Timeout` 3 and
`Delay` 2 make deadline and delay fall into different ticks and leave a second attempt
before the deadline; only their order matters. Each watcher begins at most two updates.
The passing run puts two watchers on one directory, the most contention an update can
meet; the commands never configure this (section 6), so it is stricter than the program.
`watch_storage_closed` gives each its own directory and lets a package of one hold a node
of the other.

`DroppedOnlyIfLocked`: an update gives up for the lock only if somebody else held the
directory within the last delay. `HandedBack`: every store that is opened is closed and
taken out of the graph, after failures and cancellation too. Fairness: time passes, and a
callback that has started runs on; nobody is obliged to begin an update, to load
metadata or to leave a database.

## 5. Questions and answers

Queries run under the read lock, so the graph is a constant of a behaviour; the steps are
the turns of the loops, and where the code walks a Go map the next element is any of
those left. Each module ends with a definition of the answer without loops, and the
properties compare the two at the end of a call and state the loop invariants before.

* `BlastRadius`: depth, node limit, truncation flag, nearest first. `CallPath`:
  breadth-first search, then the walk back. `MCQueries` gives the first
  every set of eight possible edges between four nodes and smaller graphs with self-loops,
  removed nodes and an edge that is no dependency; the second, calls between four nodes
  with removed ones, and five nodes in which a shorter path competes with a longer one.
* `GraphScans` (with `GraphReads`): search page, dependencies and dependents,
  implementations, channels of a function over calls and goroutines; seven nodes, every
  subset of five edges, removed nodes. It assumes that a SPAWNS edge ends at a GOROUTINE
  node, as the visitor makes them (`visitor.go:651`); an edge to a channel would not be
  followed.
* `StructureTree`: the recursion with its shared budget and path set as a stack; eleven
  nodes with shared folders, a cycle and a second repository.
* `NodeContext`: sections with their limits under the lock, then the lines of the source
  from a file that may have been edited or deleted in between; nine nodes, seven file
  contents, lines longer than the buffer included, limits up to three.
* `CypherLexer` reads all texts of up to four characters of thirteen classes, and
  combinations of dashes, quotes and keywords. `CypherParser` is compared with
  `CypherGrammar`, the written forms of a query according to `docs/cypher-reference.md`:
  every form, and every form with a token gone, replaced, swapped or added. `CypherEval`
  evaluates queries of all kinds over four nodes with self-loops, edges both ways and a
  removed node.
* `McpRequests` is what both transports make of a message: method, tool, arguments,
  limits. `McpStdio` is the loop (one line, one message) with end of input, broken output,
  oversize lines and signals; `McpHttp` the concurrent handlers, clients that leave, and
  the shutdown, after which the process ends with the requests still running. Two lines,
  two clients: each line is handled alone, and an HTTP request meets at most another one
  or the shutdown. Fairness: goroutines of the server that can run do; nothing is assumed
  of clients or signals.

## 6. Commands and reports

* `Workspace`: commands are processes that load the file, work on a copy, and write the
  whole file back, truncating first; two of them, three repositories of which two map to
  one database path (`a/b` and `a_b`), killed anywhere. Parts: "alone" (`NextAlone`, one
  command at a time: `NoOrphan`, `AddedStays`) and "together" (`Next`). `NoCollision` holds in both: this is
  why no two watchers of a configuration share a directory. `MaxCommands` 5 lets one
  repository be added, removed and added again while another command is under way.
* `AnalyzeRun`: per repository `Check`, `Remove` (entry by entry when it fails), `Open`
  (Badger makes MANIFEST, KEYREGISTRY and the data files one after the other, and
  `OpenFails` stops anywhere between them), `Parse`, `Merge`, `Save`, `Done`; the first
  error cancels the others. The process may be killed: a removal, an opening or a merge
  then stops where it is (`LeftBy`), and Badger's `LOCK` file stays. Two repositories, two
  commands in a row (what the first leaves the second finds), and five kinds of directories
  to start from: missing, empty, complete, half made, and with somebody else's files.
  `torn` remembers whose removal or first opening was cut short; what was found half made
  counts among them.
* `Freshness`: disk, index, commits and HEAD on one side; graph, metadata and reports on
  the other. `Status` is what `git status --porcelain` prints, a set of lines: a file with
  the letters of its difference to the index and of the index to HEAD. Files that Git
  ignores (`Ignored`) are in no line and no commit, but the Go tool reads them. `Stage` is
  `git add` and `git restore --staged`; `Commit` commits the index; `Checkout` goes from a
  clean tree to another commit or throws changes away. A capture of the Git state is two
  commands with edits in between. Part "reports" has `gokg analyze` with and without
  `--rebuild` and `gokg impact`; "served" a server whose graph was loaded at its start, its
  watcher, and analyses of other processes. Two files in two versions, two commits, three
  changes: enough for an edit that is undone, a commit of it, and a return to the first
  commit. In "reports" both files are tracked (`Files`), in "served" one of two is ignored
  (`ServedFiles`, `ServedIgnored`).
* `ImpactAnalysis`: options, workers (two for three repositories), the goroutines of
  freshness and diff, sorting and cutting of the files, then two questions to the graph
  with an update of a watcher in between (`MaxUpdates` 1: an update before the first
  question is in Init). Part "call ends" is an instance without changed files in which
  every call ends under weak fairness of the goroutines (`GoStep`): Git commands return.
* `DiffRanges`: `ParseDiff` on what `git diff --unified=0` prints for up to two changed
  files with up to two hunks in a file of six lines, and the overlap of the ranges with
  every declaration such a file can hold.

## 7. From source to graph

* `RouteScopes` walks a function as `ast.Inspect` does with what it knows of string and
  group variables, and runs the same function with every outcome of its conditions and
  loops; `SourceInputs` combines assignments, branches, loops, literals and registrations.
* `ParseFlows`: workers extract packages and append their results, then channel arguments
  are followed into the callees, then single packages are edited and updated; 72 programs
  of two packages and one without functions. The reference definition looks at the whole
  source at once. In part "parse ends" every parse ends with an error or a graph that
  catches up again and again, under weak fairness of the workers, the waiting goroutine
  and the watcher.
* `PackageVariants`: `selectGraphPackages` and `resolveImplementsEdges` over the variants
  `packages.Load` returns for three packages, without and with tests; methods mention a
  type of one variant or another, imports are walked in any order.

## 8. The runs

| Run | Module | States | What it shows |
|---|---|---|---|
| `graph_packages` | `MCKnowledgeGraph` | 139 000 | merging, removing and reloading in every order, with a failure at every write: indexes agree, edges are whole, memory and store agree, every call is one step for a reader |
| `graph_workspace` | `MCWorkspaceGraph` | 103 000 | the same with a store per repository and with the folder tree; a stub never displaces a declaration, replacing the tree touches no package |
| `watcher` | `MCWatcher` | 675 000 | no change, path or directory is lost, no snapshot erased; once edits stop, graph and tree agree with the disk |
| `queries` | `MCQueries` | 736 000 | every query equals its definition in any order of the maps; lexer, parser and evaluator of Cypher do what the reference says |
| `commands` | `MCCommands` | 2 300 000 | workspace commands, analyses that fail or are killed, and honest freshness reports |
| `server` | `MCServer` | 71 000 | watchers own their databases and give them back; sessions are orderly; both transports agree; nobody waits forever |
| `changes` | `MCChanges` | 692 000 | impact analyses are complete or say so; diffs, routes, channels and IMPLEMENTS edges are those of the source; calls end |
| `watcher_aborted_walk`, `watcher_implements` | `MCWatcher` | | findings 1 and 2 |
| `watch_storage_closed` | `MCServer` | | finding 3 |
| `freshness_dirty` | `MCCommands` | | finding 4 |
| `route_append` | `MCChanges` | | finding 5 |

`commands` uses symmetry of repositories under analysis, files and versions; it checks
no liveness, and nothing in these modules orders or names them. All but the two graph
runs switch the deadlock check off: a user who stops, a client that leaves, a call that
has returned and a command that has ended are legal ends. Where something must happen in
the end, a liveness property says so (`Converges`, `HandedBack`, `NobodyWaitsForever`,
`EveryCallEnds`).

## 9. What is proved

Every theorem below is checked by TLAPS for all values of the constants that satisfy the
module's assumption, which the runs evaluate on their instances. No theorem assumes
anything else, except where a hypothesis is named here.

### The graph (`KnowledgeGraphProofs`)

`TypeCorrect`, `IndexIsConsistent` and `EdgesResolve` follow from the inductive invariant
`IInv` (`Inductive`). None of the three is inductive alone. That edges resolve needs that
a merge gives new ids to new names only, which needs the index; the index needs that ids
handed out by a merge are above the counter, which needs its bound. Replacing the folder
tree deletes names from `nodeMap`, so edges to folders must all be among the edges it
deletes; for that the invariant adds that a known id of any kind but a declaration has a
live node (only packages leave ids behind). The parts of the invariant (`GraphOK`,
`StoresOK`, `HistoryOK`) take graph and stores as arguments because a merge starts either
from the current graph or, inside `ReplaceRepositoryStructure`, from what the removal left.

`SInv` (`Agreement`) relates memory and stores, on top of `IInv`, and yields
`EdgesStayWhole` and `MemoryAndStoresAgree`. It says more than `StoresAgree` does: every
call site of a live edge is under one of its keys (not: under one key all of them), and a
key of an older format is gone with its edge even if the current key was left undecided
by a failed call, because failed calls leave only current keys behind. Without the second
a removal after a failed one could not be shown to clean up. `EdgesLeaveWithSource`,
`NoDemotion` and `TreeReplacementIsLocal` are action properties of the same steps.

`Refinement`: `Spec => ImplementsView`. One lemma per action gives the step of `GraphView`
it maps to. What links a merge to it is that the staged edges of a result are one per key,
with the call sites of all edges that share it (`StageEdgeIsUnion`).

What the assumptions say about the inputs, and where the code provides it: ids of
packages, folders and files do not coincide (`KindOf`); a declaration carries the
repository of its package and a parser run stamps all it finds with its repository
(`Home`, `ParseResult`); an edge that leaves a declaration is found while the declaration
is walked, so its source is in the same result; only the repository and its folders point
into the folder tree, and a result of `BuildRepositoryStructure` holds nothing else
(`StructureResult`); a database holds nodes and edges of its own repository, each node
under its id. Outside of this are a channel that two repositories share, whose node
carries whichever used it last (`visitor.go:879`), and the node of the workspace, which
belongs to no repository (`parser.go:360`): the theorems are about graphs without them.

### The watcher (`WatcherProofs`)

For any tree of directories, any number of files, edits and timers, whatever fails:
`TypesHold`, `NoDirIsBlind`, `NoChangeIsLost`, `NoPathIsLost` and `SnapshotsAreKept`. Each property has an invariant of its own above `WellFormed` (types, and
what the program counters of loop and job imply) and `DiskOK`:

* `Watched`: each existing directory is watched, or the event or the walk that will watch
  it is still to come.
* `Kept`: whatever a job is about to remove had lost its Go files before.
* `Reported`: for each directory, graph and disk agree, or a later job has been told
  (`Announced`), or the job at hand has yet to read the directory or has read what is
  there now (`JobHas`). The heart is `FoundOut`: what a job found out before it changes the
  graph is still so, or it has been announced that it is not. It is needed because the
  job releases nothing between its reads and its writes, but the user edits on.
* `SlotOK`, `WalkOK`, `Shown`: a refresh timer that has not fired is the one in the slot,
  so a callback that gives up was superseded by one that will not; the walk meets no path
  twice; what it has seen is still so or another refresh is on its way.

The attempt to prove `NoDirIsBlind` refuted its first version, which excused only the
directories in `missed` themselves. Nine edits do it, beyond the bound of the run: a tree
`p`, `p/x` is removed and made again behind an aborted walk that left `p` out, and `x`
comes and goes without anybody watching `p`. All the watcher's properties now excuse what
is below a missed directory.

### The server and its databases (`McpServerProofs`)

`UpdateOwnsStoreHolds`, for any watchers, directories shared in any way, loaders and
timeouts. The property speaks of four steps of an update, but ownership begins at `Open`:
the invariant is `Shapes`, `Held` (a watcher is among the holders of its directory from
`Open` to `Close`), `Exclusive` (a writer is alone) and `Registered`. Beyond
`StorageAssumption` it needs `NamesAssumption`: holders are told apart by name.

`StorageTypesHold` and `DroppedOnlyIfLockedHolds` rest on `TInv`, which relates clocks: how
long a directory has been free of others, how long ago the last attempt was. An attempt is
never more than a delay ago (`Recent`), and if it failed it met somebody else.

`SessionHolds`: `SessionIsOrderly` of the composition `McpServer`, for any messages,
arguments and limits. `SessionInv` says what the place in the loop tells about the line
that was read last (`LineAtHand`): only a message with an id gets as far as a call, and
the answer on its way has its id. `Answered` says that the lines answered are those read
that want an answer, in their order, except the line at hand and the one at which the
session broke; `Called` that what reached the graph had been accepted with its limits.
`SameOverHttpHolds`: `SameOverHttp`, for any number of clients. `HttpInv` says what the
state of a connection tells about its request and status (`ConnectionOK`), that an answer
is one that standard input gives to the same message (`Agrees`), and that a server closes
and loses requests only after the signal. Both need of the constants only that the mark
for "no id" is neither a number nor an answer (`MessageAssumption`). `ServerInv` puts the
invariants of the three parts together, and the theorems are about `ServerSpec`.

### Commands (`WorkspaceProofs`, `AnalyzeRunProofs`, `FreshnessProofs`)

* `NoCollisionHolds`: the check of a command is made on its copy and the file may be
  another one when it is written, so the invariant must say of every copy that is going to
  be written that it is free of collisions (`CopiesValid`); mixed writes leave one of two
  copies or a file that does not parse. `TornOnlyIfBrokenHolds` for the same commands, and
  `AloneIsKept` (`NoOrphan` and `AddedStays`) for `SpecAlone`, in which a command starts
  when the others are done: the copy of the one that runs is what the file says or is
  about to say (`CopyKeeps`).
* `SuccessIsCompleteHolds`, `MetaNeverAheadHolds`, `ReleasesLocksHolds`, `RefusalsHold`, for
  any number of repositories and of analyses in a row. The invariant says of each worker
  what its stage tells about its directory (`Stage`; from its opening on all files are
  there), of each directory that metadata describe what is in it (`Sound`), and why a
  rebuild may be refused (`Obstacle`). `RefusalsHold` says that a refusal needs foreign files
  or a removal or opening that was cut short; in other words, once the files of a database
  are made, nothing that fails or is killed while it is opened again, merged, saved or
  closed keeps a rebuild from removing it (`LeftBehind`). `AnalyzeAssumption` only says that
  an analysis finds no metadata without their graph and nothing of the future: a directory
  may hold any of Badger's files, or others.
* `CleanFreshMatchesHolds`, `NoFalseAlarmHolds`, for any number of files, ignored or not,
  versions and commits: "fresh" after a clean rebuild is right about every file that Git does
  not ignore, "stale" is not said while tree, index and HEAD are what the writer saw;
  `MetadataOfWholeHolds` where no watcher writes the database (a watcher's update saves
  metadata after one package). The invariant says what a writer that nobody
  disturbed knows (`WriterOK`): HEAD, then HEAD and status; and that the metadata of an
  undisturbed rebuild of a clean tree describe the graph, ignored files aside, in terms of
  a commit (`Describes`). Commits never change, so this survives edits, staging, commits
  and checkouts until somebody else writes the database.
* `ConfigurationHolds`, `AnalysesHold` and `FreshnessHolds` state `ConfigurationIsKept`,
  `AnalysesAreWhole` and `FreshnessIsHonest`, the invariants of the run `commands`, of the
  composition `DiskCommands`. `PartsInv` is the invariant of the part a behaviour is about.
  Since the parts share registers, what `AnalyzeRunProofs` and `FreshnessProofs` prove of
  one step is cited under the substitution of the composition (`AP`, `RP`, `SP`).

### Questions (`QueryProofs`)

`PathsAreShortest`, `BlastRadiusExact`, `ScansAreComplete` and `TreesAreWhole` state
`PathIsShortestCalls`, `BlastRadiusIsExact`, `ScansMissNothing` and `TreeIsUnfolding`,
`EveryCharacterIsRead` and `RowsMatchPattern` state `TokensAreWhole` and `RowsAreMatches`:
invariants of the run `queries`, for every finite graph, every request, text and query, and
every order in which a Go map is walked.

* Induction. No prover here can instantiate an induction rule, but every set of numbers
  that is not empty has a least element (`LeastElement`, from the library's theorem on
  well-founded relations). From it follow `SetInduction`, a rule about sets instead of
  predicates, and `Recursion`, that a recursively defined function satisfies its equation.
* Distances. `Within(R, S)[k]` is what at most `k` steps lead to; `Depth` the first `k` at
  which a node is among them; a node at depth `k + 1` has one before it at depth `k`.
  What is `Reachable` is within as many steps as there are nodes.
* The search. `Search` is the invariant both queries share: the queue holds nodes with
  their depths in order, two neighbours of the queue differ by one at most, and all that
  a node before the head leads to has been met. `Search` with nothing left gives all that
  is within the limit. `CallPath` adds that a predecessor is one level before its node
  (`PathTree`), so that the walk back is as long as the depth (`PathTail`);
  `BlastRadius` that what is seen has its true distance (`BlastSeen`) and that the first
  node beyond the limit is no nearer than any that was kept (`BlastResult`).
* Scans. What a loop has met is in the answer and nothing else (`JoinWork`, `FlowWork`).
  Of a search, the page holds the first ids of what was met, in order (`Page`), whatever
  comes next is inserted or left out rightly, and a page is determined by its set.
* The folder tree. A way is a path of children that ends where it meets itself
  (`IsWay`); `TreeUnfolds` shows that the recursive definition of the tree holds the ways
  within the depth, `WaysAreFinite` that they can be counted. The calls in progress are a
  way (`Climb`), each with a number of children taken; a way is `Pending` when it goes on
  from one of them to a child not taken yet. `Laid` says that the list so far holds the
  ways that are not pending, in preorder. The next call is the first of those that are
  (`NextIsLast`), whether it goes deeper (`CallMade`) or not (`LeafTaken`), and a call that
  returns leaves nothing pending (`CallEnds`). When the limit is met, the list and the next
  way, or the children of the call just made, are more than it allows, and all are of the
  tree (`NextCount`, `ChildrenCount`). `StructureAssumption`: no two folders have the same
  repository and path, of which their id is made.
* The lexer. Its two readings of comments differ: the code looks back from two dashes over
  the blanks before them, the property reads the text once from left to right (`Mode`).
  `LexInv` says that where the lexer is, the left-to-right reading is outside of strings
  and comments and knows whether the line has begun (`Place`), or a comment has just ended
  (`CommentEnds`); that every token so far is whole and ends before the next; and that each
  character read is a blank, in a comment or in a token. `LexerAssumption`: no character is
  at once letter, digit, quote, blank or sign, and no keyword's type is that of a sign.
* The evaluator. Of each pass over the graph, the rows so far are those that the nodes and
  edges already met can form (`RowMet`), all of them as long as the limit is not reached,
  and none of the rows still to come is among them; so `count` is their number. That no
  row fails to be projected needs that all nodes have the same properties, which are those
  the validation knows.

### Impact analysis (`ImpactAnalysisProofs`)

`FailsForCauseHolds`, `FreshSeesEveryTestHolds` and `ListedOrWarnedHolds`, for any number of
repositories and workers and any graph, whatever Git answers and the watcher does. The
invariant `CInv` says of each worker that what it has found is what Git had for it
(`FilesOfDiff`), of the report that it tells what became of the workers that have ended,
and of them only (`Joined`), and of the time between the two questions to the graph that
what the first one found is still there unless `moved` says otherwise (`Answered`). It was
checked with TLC on the instance of `changes` before it was proved.

### What is only model-checked

* Liveness (`Converges`, `HandedBack`, `NobodyWaitsForever`, `EveryCallEnds`): fairness and
  ENABLED are beyond the provers.
* Two queries: `ContextLosesNothing`, and the parser's `TreeIsWhatIsWritten`. Induction is
  not the obstacle, as `QueryProofs` shows. The reference definitions fold, sort and
  flatten through operators of the community modules (`FoldLeft`, `SetToSortSeq`,
  `FlattenSeq`) about which no lemmas are at hand.
* What `MCChanges` says of sources: `FoundIsRegistered` and `LiveIsCurrent` (their modules
  use RECURSIVE operators, with which the prover does no arithmetic and no sets),
  `TouchedDeclarations` and `ImplementsAsWritten`. Of `ImpactAnalysis`, `SameListInAnyOrder` and the second half of
  `ImpactIsComplete`: what sorting returns, and how far `Within` reaches.
* `StoresAgree` as the conjunction over the two parts of `MCWorkspaceGraph`: the module
  gives the parts their values, and the theorems about `KnowledgeGraph` hold for each.

## 10. Findings

1. `watcher_aborted_walk`. A directory that vanishes while its parent's tree is walked
   ends the walk; siblings are neither scanned nor watched, and nothing retries.
2. `watcher_implements`. The comment on `ParsePackageIncremental` says cross-package
   IMPLEMENTS edges remain from the last full analysis; the update that uses it removes
   them with the package.
3. `watch_storage_closed`. The deferred `Close` of an update runs before the store is
   taken out of the graph; an update of another repository that writes a node of this one
   in between meets a closed store.
4. `freshness_dirty`. The fingerprint of the working tree is a hash of `git status`: a
   file that was modified at the analysis and is modified again leaves the report fresh.
5. `route_append`. `p += "/b"` is treated as `p = "/b"`, and the route in the graph is
   one the program never registers.

### Known deviations

Further cases in which the code does something else than a doc, a comment or a reader
would say. They were met while modelling. The models do what the code does; the
properties exclude exactly these cases, by a history variable, a hypothesis or the choice
of inputs, so that they still say something about all others.

* Graph. An edge persisted while an endpoint was unknown (`graph.go:415`) is not in
  memory, so `RemovePackage` leaves its key (`parked`).
* Watcher. A directory removed and made again is taken in by the rescan that follows the
  removal, before it is watched. Go files removed in that window cause no event, and the
  scan for the create event skips directories without Go files (`watcher.go:332`): their
  package stays (`unseen`). An update that could not open its database, or failed
  otherwise, is logged and not retried (`dropped`).
* Freshness. Reports are honest for a graph that was rebuilt from a clean tree and
  loaded since. Metadata saved by the update of one package describe the whole tree
  (`cmd/gokg/mcp.go:189`); a server compares current metadata with the graph it loaded at
  its start (`freshness.go:62`). Go files that Git ignores, generated ones for instance,
  are analysed but not in `git status`: after a clean rebuild they may change and the report
  stays fresh (`gitstate.go:91`), so `CleanFreshMatches` is about the others. The fingerprint
  depends on the index: `git add` of a file that was already modified makes the report stale
  although tree and HEAD are what they were (`freshness.go:120`), so the history `same` of
  `NoFalseAlarm` is about tree, index and HEAD. The default database `.gokg/` lies in the
  working tree: where Git does not ignore it, the analysis that creates it has already
  captured the state without it (`analyze.go:86`), and the next report is stale; the model
  is of databases outside the working tree or ignored. Left out of `Status`: submodules,
  files marked assume-unchanged or skip-worktree, the joining of a deletion and an addition
  to a renaming, and of untracked files to their directory.
* Analyze. `NewBadgerStorage` puts its files into any directory, and `--rebuild` then
  takes the directory for a database and removes the other files in it
  (`analyze.go:389`). A removal that was cut short may leave a directory that the next
  `--rebuild` refuses, and so may an opening that fails or is killed before Badger has made
  all of its files (`analyze.go:89`, `analyze.go:240`), although nothing in it is anybody
  else's: `looksLikeBadgerDBDir` wants all three kinds of files (`torn`). A later analysis
  without `--rebuild` may complete them.
* Workspace. Two processes that add repositories at the same time lose one of them
  (`workspace.go:161`); `AddedStays` and `NoOrphan` are about commands one at a time.
* Diffs. An added line whose content makes it look like a `+++` header is taken for one
  (`impact.go:459`); the instance has no such lines, while deleted lines that look like a
  `---` header are among its inputs.
* Node context. A source file that became shorter is called truncated when the last line
  allowed is its last line (`node_context.go:387`).
* MCP. `initialize`, `tools/list` and `tools/call` are answered with or without an id
  (`server.go:116`); a signal ends a session on standard input only with the next line
  (`server.go:82`).
* Cypher. A NUL ends the text of a query (`lexer.go:137`).
* Routes. A parameter that a branch replaces is known to be the replacement
  (`route.go:182`); a variable that a function literal assigns keeps its old value outside
  (`route.go:162`).
* Calls. `ParseFlows` leaves out the CALLS edge of a function to itself; no property there is
  about the calls of a function to itself.
* Channels. Flows of channel arguments across packages are not followed by an incremental
  update (`visitor.go:546`); a channel shared by packages carries the path of its last
  user (`visitor.go:879`); what an external test package no longer declares stays until
  its directory has no Go files (`watcher.go:245`). `LiveIsCurrent` is about programs
  whose channels stay within a package.
* Variants. Types of `_test.go` files lose their IMPLEMENTS edges when an importer of the
  package comes first (`parser.go:599`); the external test package of the module's root
  counts as external (`parser.go:705`). `ImplementsAsWritten` is about loads in which
  nothing imports the package with tests.

## 11. Not modelled

* `visitor.go`: type references, instantiations and declarations of values, one edge per
  syntax node without further control; `go/packages`, `go/ast` and `go/types` themselves.
* Statistics, export, report formatting, command-line plumbing, version: counting and
  text, no state. `GetSourceCode` beyond reading lines of a file.
* Badger, fsnotify and git themselves: external, modelled by what the code can observe of
  them (keys and partly written batches, a directory lock, events in order, HEAD and
  status). An overflow of fsnotify's queue is only logged by the code.
* Cancellation of the watcher's context, and packages whose path as reported by
  `packages.Load` differs from the one the graph knows for the directory.
* The occurrences of an edge are shared between the graph and readers that have returned
  (`graph.go:448`); edges are values here.
