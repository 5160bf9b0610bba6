--------------------------- MODULE KnowledgeGraph ---------------------------
(***************************************************************************)
(* The in-memory code graph of internal/graph and the key-value stores it  *)
(* persists to (graph.go, structure.go).                                   *)
(*                                                                         *)
(* Every exported mutator holds g.mu from its first to its last line, so   *)
(* readers see each of them as one step; a mutator that returns an error   *)
(* half-way leaves the stores partly written and is a step of its own.     *)
(* Go's numeric node ids are kept (nodeMap, nodes, edges are keyed by      *)
(* them in the code) because inbound edges survive a removal only through  *)
(* them.  Names, lines and JSON are abstracted to the node's identity and  *)
(* type; an edge's occurrences are a set of call sites.                    *)
(***************************************************************************)
EXTENDS Integers, FiniteSets

CONSTANTS
  NodeIDs,          \* external node ids (Node.ID)
  PkgPaths,         \* package paths
  RepoIDs,          \* repositories, each with a store of its own
  EdgeTypes,        \* the EdgeType values in use
  Sites,            \* call sites (EdgeOccurrence)
  MaxNodeID,        \* bound on the numeric ids handed out by one process
  NoNode,           \* a nil *Node
  NoPkg,            \* Node.PkgPath = ""
  PkgPathOf,        \* Node.PkgPath of each id
  OwnerOf,          \* the repository a package belongs to
  KindOf,           \* what an id names; the id schemes of the parser keep kinds apart
  RepoOf,           \* the repository whose folder tree an id belongs to
  ParseResults,     \* the results a parser run may return
  StructureResults, \* the results BuildRepositoryStructure may return
  SingleNodes,      \* arguments of AddNode
  SingleEdges,      \* arguments of AddEdge
  KeyVersions,      \* generations of the edge key format
  OldDatabases      \* what the stores may hold when the program starts

NodeTypes == {"FUNC", "BOUNDARY", "REPO", "FOLDER", "FILE"}
Kinds == NodeTypes \ {"BOUNDARY"}
StructureKinds == {"FOLDER", "FILE"}

\* The repository a name belongs to: the owner of its package, or of its folder tree.
Home(i) == IF KindOf[i] = "FUNC" THEN OwnerOf[PkgPathOf[i]] ELSE RepoOf[i]

\* FUNC stands for every declared entity of a package, its Go files included; a
\* BOUNDARY is a stub for one and carries the repository that saw it, where a
\* declaration carries its own.
Node == {n \in [id: NodeIDs, type: NodeTypes, repo: RepoIDs] :
           \/ n.type = KindOf[n.id] /\ n.repo = Home(n.id)
           \/ n.type = "BOUNDARY" /\ KindOf[n.id] = "FUNC"}

\* An edge carries the repository of its source.  Only the repository and its folders
\* point to folders and to non-Go files, and folders do nothing else.
Edge == {e \in [from: NodeIDs, to: NodeIDs, type: EdgeTypes, repo: RepoIDs,
                sites: SUBSET Sites] :
           /\ e.repo = Home(e.from)
           /\ KindOf[e.from] \in StructureKinds =>
                e.type = "CONTAINS" /\ KindOf[e.from] = "FOLDER"
           /\ KindOf[e.to] \in StructureKinds =>
                /\ e.type = "CONTAINS"
                /\ e.repo = RepoOf[e.to]
                /\ KindOf[e.from] \in {"REPO", "FOLDER"}}

\* A parser run stamps everything with its repository and finds the edges of a
\* declaration only while it walks it, so that their sources are among its nodes; a
\* folder that holds a package may be one the walk of the tree skips.
ParseResult ==
  {res \in [repo: RepoIDs, nodes: SUBSET Node, edges: SUBSET Edge] :
     /\ \A n \in res.nodes : n.repo = res.repo
     /\ \A e \in res.edges :
          e.repo = res.repo /\ (KindOf[e.from] = "FUNC" => \E n \in res.nodes : n.id = e.from)}

\* What BuildRepositoryStructure returns: the repository, its folders and non-Go files,
\* and who contains what.
StructureResult ==
  {res \in ParseResult :
     /\ \A n \in res.nodes : n.type = "REPO" \/ n.type \in StructureKinds
     /\ \A e \in res.edges : e.type = "CONTAINS" /\ KindOf[e.from] \in {"REPO", "FOLDER"}}
StoredEdge == [ver: KeyVersions, edge: Edge]
NumIDs == 1..MaxNodeID
GraphEdge == [fromID: NumIDs, toID: NumIDs, edge: Edge]
EdgeKey == [repo: RepoIDs, from: NodeIDs, to: NodeIDs, type: EdgeTypes]
NodeKey == [repo: RepoIDs, id: NodeIDs]

ASSUME GraphAssumption ==
  /\ IsFiniteSet(NodeIDs)
  /\ MaxNodeID \in Nat
  /\ NoNode \notin Node
  /\ "v3" \in KeyVersions
  /\ PkgPathOf \in [NodeIDs -> PkgPaths \cup {NoPkg}]
  /\ KindOf \in [NodeIDs -> Kinds]
  /\ RepoOf \in [NodeIDs -> RepoIDs]
  /\ \A i \in NodeIDs : PkgPathOf[i] # NoPkg <=> KindOf[i] = "FUNC"
  /\ NoPkg \notin PkgPaths
  /\ OwnerOf \in [PkgPaths -> RepoIDs]
  /\ ParseResults \subseteq ParseResult
  /\ StructureResults \subseteq StructureResult
  /\ SingleNodes \subseteq Node
  /\ SingleEdges \subseteq Edge
  /\ \A db \in OldDatabases :
       /\ db.nodes \in [RepoIDs -> [NodeIDs -> Node \cup {NoNode}]]
       /\ \A r \in RepoIDs, i \in NodeIDs :
            db.nodes[r][i] # NoNode => db.nodes[r][i].id = i /\ db.nodes[r][i].repo = r
       /\ db.edges \in [RepoIDs -> SUBSET StoredEdge]
       /\ \A r \in RepoIDs : \A s \in db.edges[r] : s.edge.repo = r

VARIABLES
  nodeMap,      \* Graph.nodeMap: external id -> numeric id, 0 when absent
  nodes,        \* Graph.nodes: numeric id -> node, NoNode when absent
  edges,        \* Graph.edges: one record per *Edge, with the ids it is filed under
  nextNodeID,   \* Graph.nextNodeID
  registered,   \* repositories whose store is set (SetStore, SetRepoStore)
  nodeStore,    \* the "node:" keys of each store
  edgeStore,    \* the "edge:" keys of each store
  loaded,       \* history: this process started with LoadFromStorages
  tornNodes,    \* history: node keys a failed call left undecided
  tornEdges,    \* history: edge keys a failed call left undecided
  parked        \* history: edge keys persisted without being in memory

memory  == <<nodeMap, nodes, edges, nextNodeID>>
stores  == <<nodeStore, edgeStore>>
history == <<loaded, tornNodes, tornEdges, parked>>
vars == <<memory, registered, stores, history>>

-----------------------------------------------------------------------------
(* Helpers on edges, keys and nodes.                                       *)

SameKey(a, b) == a.from = b.from /\ a.to = b.to /\ a.type = b.type
KeyOf(e) == [repo |-> e.repo, from |-> e.from, to |-> e.to, type |-> e.type]
KeysOf(E) == {KeyOf(e) : e \in E}
OneEdgePerKey(E) == \A a, b \in E : SameKey(a, b) => a = b
NodeKeysOf(N) == {[repo |-> n.repo, id |-> n.id] : n \in N}

\* Every generation of the key format is deleted (edgeStorageDeleteKeys).
AllVersions(E) == {[ver |-> v, edge |-> e] : v \in KeyVersions, e \in E}
SitesOf(E) == UNION {e.sites : e \in E}

Known(i) == nodeMap[i] # 0
NodeAt(i) == IF Known(i) THEN nodes[nodeMap[i]] ELSE NoNode
Live(i) == NodeAt(i) # NoNode
LiveNodes == {nodes[k] : k \in {j \in NumIDs : nodes[j] # NoNode}}
GraphEdges == {x.edge : x \in edges}

\* shouldReplaceNode: a declaration displaces a BOUNDARY stub, nothing else does.
\* Faulty variant: the last one merged wins.
ShouldReplaceNodeFaulty(existing, candidate) == existing.type # candidate.type
ShouldReplaceNode(existing, candidate) ==
  existing.type = "BOUNDARY" /\ candidate.type # "BOUNDARY"

\* The stores after writing the nodes N (storageForNode: unregistered repositories are
\* not persisted).  Faulty variant: stubs are not written.
PutDeclarations(nst, N) ==
  [r \in RepoIDs |-> [i \in NodeIDs |->
     LET new == {n \in N : n.repo = r /\ n.id = i /\ n.type # "BOUNDARY"}
     IN  IF r \in registered /\ new # {} THEN CHOOSE n \in new : TRUE
                                          ELSE nst[r][i]]]
PutNodes(nst, N) ==
  [r \in RepoIDs |-> [i \in NodeIDs |->
     LET new == {n \in N : n.repo = r /\ n.id = i}
     IN  IF r \in registered /\ new # {} THEN CHOOSE n \in new : TRUE
                                          ELSE nst[r][i]]]

DeleteNodes(nst, N) ==
  [r \in RepoIDs |-> [i \in NodeIDs |->
     IF r \in registered /\ \E n \in N : n.repo = r /\ n.id = i
     THEN NoNode ELSE nst[r][i]]]

\* edgeStorageKey: every write uses the v3 key and overwrites what it held.
PutEdges(est, E) ==
  [r \in RepoIDs |->
     IF r \notin registered THEN est[r]
     ELSE LET new == {e \in E : e.repo = r}
          IN  {s \in est[r] : ~(s.ver = "v3" /\ \E e \in new : SameKey(s.edge, e))}
                \cup {[ver |-> "v3", edge |-> e] : e \in new}]

\* Delete calls for the versioned keys D, in the store of each edge's repository.
DeleteEdges(est, D) ==
  [r \in RepoIDs |->
     {s \in est[r] : ~(/\ r \in registered
                       /\ \E d \in D : /\ d.edge.repo = r
                                       /\ d.ver = s.ver
                                       /\ SameKey(s.edge, d.edge))}]

\* The numeric ids stageNodes and loadNodeLocked hand out to the new ids S.
\* Faulty variant: numbered from the count of live nodes.
NumberingsFromCount(S) ==
  LET count == Cardinality({k \in NumIDs : nodes[k] # NoNode})
      fresh == (count + 1)..(count + Cardinality(S))
  IN  {f \in [S -> fresh] : \A i, j \in S : f[i] = f[j] => i = j}
Numberings(S) ==
  LET fresh == (nextNodeID + 1)..(nextNodeID + Cardinality(S))
  IN  {f \in [S -> fresh] : \A i, j \in S : f[i] = f[j] => i = j}

-----------------------------------------------------------------------------
(* Merging a parse result (stageNodes ... applyStagedEdges).  The          *)
(* operators take the graph they start from, because                       *)
(* ReplaceRepositoryStructure runs them after its own removals.            *)

\* stageNodes: ids that are new, removed, or held by a stub that n displaces; of
\* two candidates for one id the declaration is staged.
StagedNodes(res, nm, ns) ==
  {n \in res.nodes :
     /\ \/ nm[n.id] = 0
        \/ ns[nm[n.id]] = NoNode
        \/ ShouldReplaceNode(ns[nm[n.id]], n)
     /\ ~\E m \in res.nodes : m.id = n.id /\ ShouldReplaceNode(n, m)}

\* The ids that get a number.  Faulty variant: removed ids get a second one.
NewIDsWithRemoved(staged, nm) == {n.id : n \in staged}
NewIDs(staged, nm) == {n.id : n \in {m \in staged : nm[m.id] = 0}}
ExtendMap(nm, num) == [i \in NodeIDs |-> IF i \in DOMAIN num THEN num[i] ELSE nm[i]]

\* applyStagedNodes, with the node map already extended.
FileNodes(ns, nm, staged) ==
  [k \in NumIDs |->
     LET here == {n \in staged : nm[n.id] = k}
     IN  IF here # {} THEN CHOOSE n \in here : TRUE ELSE ns[k]]

\* The edges with two known endpoints.  Faulty variant: only the source is looked up.
ResolvedSource(res, nm) == {e \in res.edges : nm[e.from] # 0}
Resolved(res, nm) == {e \in res.edges : nm[e.from] # 0 /\ nm[e.to] # 0}

\* findEdgeByType: the edge already filed under the same endpoints and type.
\* Faulty variant: it is never found.
FindNoEdge(es, nm, e) == {}
FindEdgeByType(es, nm, e) ==
  {x \in es : x.fromID = nm[e.from] /\ x.toID = nm[e.to] /\ x.edge.type = e.type}

\* stageEdges: e merged into the existing edge and its duplicates in the result.
StageEdge(e, res, nm, es) ==
  LET same == {d \in Resolved(res, nm) : SameKey(d, e)}
      old  == {x.edge : x \in FindEdgeByType(es, nm, e)}
      base == IF old # {} THEN CHOOSE d \in old : TRUE ELSE CHOOSE d \in same : TRUE
  IN  [base EXCEPT !.sites = @ \cup SitesOf(same)]

StagedEdges(res, nm, es) == {StageEdge(e, res, nm, es) : e \in Resolved(res, nm)}

\* persistStagedEdges: the edges with an unknown endpoint, then the new or changed.
\* Faulty variant: changed edges are not written.
EdgeWritesNewOnly(res, nm, es) ==
  (res.edges \ Resolved(res, nm))
    \cup {e \in StagedEdges(res, nm, es) : FindEdgeByType(es, nm, e) = {}}
EdgeWrites(res, nm, es) ==
  (res.edges \ Resolved(res, nm)) \cup (StagedEdges(res, nm, es) \ {x.edge : x \in es})

\* applyStagedEdges: a changed edge is updated in place, a new one is appended.
FileEdges(es, nm, staged) ==
  {x \in es : ~\E e \in staged : x \in FindEdgeByType(es, nm, e)}
    \cup {[fromID |-> nm[e.from], toID |-> nm[e.to], edge |-> e] : e \in staged}

\* Which of the writes W reach their key: one value per key, the last one flushed.
Written(W) == {w \in SUBSET W : OneEdgePerKey(w)}

\* The whole merge succeeds.
MergeSucceeds(res, nm, ns, es, nst, est) ==
  LET staged == StagedNodes(res, nm, ns)
      new    == NewIDs(staged, nm)
  IN  \E num \in Numberings(new) :
        LET nm2 == ExtendMap(nm, num)
            W   == EdgeWrites(res, nm2, es)
        IN  /\ nextNodeID + Cardinality(new) <= MaxNodeID
            /\ nodeMap' = nm2
            /\ nodes' = FileNodes(ns, nm2, staged)
            /\ nextNodeID' = nextNodeID + Cardinality(new)
            /\ nodeStore' = PutNodes(nst, staged)
            /\ \E w \in Written(W) :
                 /\ KeysOf(w) = KeysOf(W)
                 /\ edgeStore' = PutEdges(est, w)
            /\ edges' = FileEdges(es, nm2, StagedEdges(res, nm2, es))
            /\ tornNodes' = tornNodes \ NodeKeysOf(staged)
            /\ tornEdges' = tornEdges \ KeysOf(W)
            /\ parked' = parked \cup KeysOf(res.edges \ Resolved(res, nm2))
            /\ UNCHANGED <<registered, loaded>>

\* persistStagedNodes fails: some nodes are in a store, memory is as it was.
MergeFailsOnNodes(res, nm, ns, es, nst, est) ==
  \E w \in SUBSET {n \in StagedNodes(res, nm, ns) : n.repo \in registered} :
    /\ nodeMap' = nm
    /\ nodes' = ns
    /\ edges' = es
    /\ nodeStore' = PutNodes(nst, w)
    /\ edgeStore' = est
    /\ tornNodes' = tornNodes \cup NodeKeysOf(w)
    /\ UNCHANGED <<nextNodeID, registered, loaded, tornEdges, parked>>

\* persistStagedEdges fails: the nodes are in, some edges are in a store only.
MergeFailsOnEdges(res, nm, ns, es, nst, est) ==
  LET staged == StagedNodes(res, nm, ns)
      new    == NewIDs(staged, nm)
  IN  \E num \in Numberings(new) :
        LET nm2 == ExtendMap(nm, num)
        IN  /\ nextNodeID + Cardinality(new) <= MaxNodeID
            /\ nodeMap' = nm2
            /\ nodes' = FileNodes(ns, nm2, staged)
            /\ nextNodeID' = nextNodeID + Cardinality(new)
            /\ nodeStore' = PutNodes(nst, staged)
            /\ edges' = es
            /\ \E w \in Written({e \in EdgeWrites(res, nm2, es) : e.repo \in registered}) :
                 /\ edgeStore' = PutEdges(est, w)
                 /\ tornEdges' = tornEdges \cup KeysOf(w)
            /\ tornNodes' = tornNodes \ NodeKeysOf(staged)
            /\ UNCHANGED <<registered, loaded, parked>>

-----------------------------------------------------------------------------
(* The process and its stores.                                             *)

Init ==
  /\ nodeMap = [i \in NodeIDs |-> 0]
  /\ nodes = [k \in NumIDs |-> NoNode]
  /\ edges = {}
  /\ nextNodeID = 0
  /\ registered = {}
  /\ \E db \in OldDatabases : nodeStore = db.nodes /\ edgeStore = db.edges
  /\ loaded = FALSE
  /\ tornNodes = {}
  /\ tornEdges = {}
  /\ parked = {}

\* The process ends, or dies, and a new one starts with an empty graph.
NewGraph ==
  /\ nodeMap' = [i \in NodeIDs |-> 0]
  /\ nodes' = [k \in NumIDs |-> NoNode]
  /\ edges' = {}
  /\ nextNodeID' = 0
  /\ registered' = {}
  /\ loaded' = FALSE
  /\ tornNodes' = {}
  /\ tornEdges' = {}
  /\ parked' = {}
  /\ UNCHANGED stores

\* SetStore / SetRepoStore with a store and with nil.
SetRepoStore(r) ==
  /\ registered' \in {registered \cup {r}, registered \ {r}}
  /\ UNCHANGED <<memory, stores, history>>

\* LoadFromStorages on the empty graph of a new process: every node of every store,
\* then every edge whose endpoints are known; a declaration beats a stub.
LoadFromStorages ==
  LET stored(i) == {nodeStore[r][i] : r \in RepoIDs} \ {NoNode}
      ids  == {i \in NodeIDs : stored(i) # {}}
      pick(i) == CHOOSE n \in stored(i) : ~\E m \in stored(i) : ShouldReplaceNode(n, m)
      all  == {s.edge : s \in UNION {edgeStore[r] : r \in RepoIDs}}
      both == {e \in all : e.from \in ids /\ e.to \in ids}
      merged(e) == LET same == {d \in both : SameKey(d, e)}
                   IN  [(CHOOSE d \in same : TRUE) EXCEPT !.sites = SitesOf(same)]
  IN  /\ nextNodeID = 0
      /\ Cardinality(ids) <= MaxNodeID
      /\ \E num \in Numberings(ids) :
           /\ nodeMap' = [i \in NodeIDs |-> IF i \in ids THEN num[i] ELSE 0]
           /\ nodes' = [k \in NumIDs |->
                          IF \E i \in ids : num[i] = k
                          THEN pick(CHOOSE i \in ids : num[i] = k) ELSE NoNode]
           /\ edges' = {[fromID |-> num[e.from], toID |-> num[e.to], edge |-> merged(e)]
                          : e \in both}
      /\ nextNodeID' = Cardinality(ids)
      /\ loaded' = TRUE
      /\ tornNodes' = {}
      /\ tornEdges' = {}
      /\ parked' = KeysOf(all \ both)
      /\ UNCHANGED <<registered, stores>>

-----------------------------------------------------------------------------
(* Single insertions.                                                      *)

AddNode(n) ==
  LET staged == StagedNodes([nodes |-> {n}], nodeMap, nodes)
      new    == NewIDs(staged, nodeMap)
  IN  /\ n.repo \in registered
      /\ nextNodeID + Cardinality(new) <= MaxNodeID
      /\ \E num \in Numberings(new) : nodeMap' = ExtendMap(nodeMap, num)
      /\ nodes' = FileNodes(nodes, nodeMap', staged)
      /\ nextNodeID' = nextNodeID + Cardinality(new)
      /\ nodeStore' = PutNodes(nodeStore, staged)
      /\ tornNodes' = tornNodes \ NodeKeysOf(staged)
      /\ UNCHANGED <<edges, registered, edgeStore, loaded, tornEdges, parked>>

\* AddEdge merges occurrences in memory BEFORE it persists them: when the write
\* fails, memory is ahead of the store.  Callers pass an edge of a live node.
AddEdge(e) ==
  LET res    == [edges |-> {e}]
      staged == StagedEdges(res, nodeMap, edges)
      merges == FindEdgeByType(edges, nodeMap, e) # {}
      writes == staged \ GraphEdges
  IN  /\ e.repo \in registered
      /\ Live(e.from)
      /\ Known(e.to)
      /\ \/ /\ edges' = FileEdges(edges, nodeMap, staged)
            /\ edgeStore' = PutEdges(edgeStore, writes)
            /\ tornEdges' = tornEdges \ KeysOf(writes)
         \/ /\ merges
            /\ edges' = FileEdges(edges, nodeMap, staged)
            /\ tornEdges' = tornEdges \cup KeysOf(writes)
            /\ UNCHANGED edgeStore
      /\ UNCHANGED <<nodeMap, nodes, nextNodeID, registered, nodeStore, loaded, tornNodes, parked>>

-----------------------------------------------------------------------------
(* Merging and removing packages.                                          *)

BuildFromParseResults(res) ==
  /\ res.repo \in registered
  /\ \/ MergeSucceeds(res, nodeMap, nodes, edges, nodeStore, edgeStore)
     \/ MergeFailsOnNodes(res, nodeMap, nodes, edges, nodeStore, edgeStore)
     \/ MergeFailsOnEdges(res, nodeMap, nodes, edges, nodeStore, edgeStore)

NodesOfPackage(p) == {k \in NumIDs : nodes[k] # NoNode /\ PkgPathOf[nodes[k].id] = p}

\* Faulty variant: inbound edges are taken too.
AllEdgesOf(K) == {x \in edges : x.fromID \in K \/ x.toID \in K}
OutEdges(K) == {x \in edges : x.fromID \in K}

\* RemovePackage deletes the keys first, then the nodes and their outgoing edges.
\* The numeric id stays in nodeMap and inbound edges stay where they are.
RemovePackageSucceeds(p) ==
  LET gone    == NodesOfPackage(p)
      removed == {nodes[k] : k \in gone}
      out     == {x.edge : x \in OutEdges(gone)}
  IN  /\ edgeStore' = DeleteEdges(edgeStore, AllVersions(out))
      /\ nodeStore' = DeleteNodes(nodeStore, removed)
      /\ nodes' = [k \in NumIDs |-> IF k \in gone THEN NoNode ELSE nodes[k]]
      /\ edges' = edges \ OutEdges(gone)
      /\ tornNodes' = tornNodes \ NodeKeysOf(removed)
      /\ tornEdges' = tornEdges \ KeysOf(out)
      /\ parked' = parked \ KeysOf(out)
      /\ UNCHANGED <<nodeMap, nextNodeID, registered, loaded>>

\* A Delete fails: some nodes are wholly gone from the store, one may have lost some
\* of its edge keys, memory is as it was.
RemovePackageFails(p) ==
  \E done \in SUBSET NodesOfPackage(p) :
    \E cur \in {k \in NodesOfPackage(p) \ done : nodes[k].repo \in registered} :
      \E part \in SUBSET AllVersions({x.edge : x \in OutEdges({cur})}) :
        LET all  == {x.edge : x \in OutEdges(done)}
            keys == AllVersions(all) \cup part
        IN  /\ edgeStore' = DeleteEdges(edgeStore, keys)
            /\ nodeStore' = DeleteNodes(nodeStore, {nodes[k] : k \in done})
            /\ tornNodes' = tornNodes \cup NodeKeysOf({nodes[k] : k \in done})
            /\ tornEdges' = tornEdges \cup KeysOf({d.edge : d \in keys})
            /\ UNCHANGED <<memory, registered, loaded, parked>>

RemovePackage(p) ==
  /\ OwnerOf[p] \in registered
  /\ RemovePackageSucceeds(p) \/ RemovePackageFails(p)

-----------------------------------------------------------------------------
(* Replacing the folder tree of a repository.                              *)

IsStructureOwned(n) == n.type \in StructureKinds
IsStructureEndpoint(i) == Live(i) /\ NodeAt(i).type \in {"REPO", "FOLDER"}

\* Faulty variant: every node of the repository.
NodesOfRepo(r) == {k \in NumIDs : nodes[k] # NoNode /\ nodes[k].repo = r}
StructureNodes(r) ==
  {k \in NumIDs : nodes[k] # NoNode /\ IsStructureOwned(nodes[k]) /\ nodes[k].repo = r}

\* isRepositoryStructureEdgeLocked.
StructureEdges(r) ==
  {x \in edges : /\ x.edge.type = "CONTAINS"
                 /\ x.edge.repo = r
                 /\ \/ IsStructureEndpoint(x.edge.from)
                    \/ Live(x.edge.to) /\ NodeAt(x.edge.to).type = "FOLDER"}

\* removeRepositoryStructureLocked fails: node keys are deleted first, then edge keys;
\* an edge is dropped from memory once all edges of its endpoint pair are through.
ReplaceStructureFailsOnRemoval(res) ==
  LET owned == {nodes[k] : k \in StructureNodes(res.repo)}
  IN  \/ \E done \in SUBSET owned :
           /\ done # owned
           /\ nodeStore' = DeleteNodes(nodeStore, done)
           /\ tornNodes' = tornNodes \cup NodeKeysOf(done)
           /\ UNCHANGED <<memory, registered, edgeStore, loaded, tornEdges, parked>>
      \/ \E done \in SUBSET StructureEdges(res.repo) :
           \E cur \in StructureEdges(res.repo) \ done :
             \E part \in SUBSET AllVersions({cur.edge}) :
               LET keys == AllVersions({x.edge : x \in done}) \cup part
               IN  /\ nodeStore' = DeleteNodes(nodeStore, owned)
                   /\ edgeStore' = DeleteEdges(edgeStore, keys)
                   /\ edges' = edges \ done
                   /\ tornNodes' = tornNodes \cup NodeKeysOf(owned)
                   /\ tornEdges' = (tornEdges \ KeysOf({x.edge : x \in done}))
                                     \cup KeysOf({d.edge : d \in part})
                   /\ UNCHANGED <<nodeMap, nodes, nextNodeID, registered, loaded, parked>>

\* BuildRepositoryStructure links folders to the packages the graph has live files
\* of; its result is merged into what the removal leaves.
ReplaceRepositoryStructure(res) ==
  LET gone  == StructureNodes(res.repo)
      owned == {nodes[k] : k \in gone}
      out   == StructureEdges(res.repo)
      nm  == [i \in NodeIDs |-> IF nodeMap[i] \in gone THEN 0 ELSE nodeMap[i]]
      ns  == [k \in NumIDs |-> IF k \in gone THEN NoNode ELSE nodes[k]]
      es  == (edges \ out) \ OutEdges(gone)
      nst == DeleteNodes(nodeStore, owned)
      est == DeleteEdges(edgeStore, AllVersions({x.edge : x \in out}))
  IN  /\ res.repo \in registered
      /\ \A e \in res.edges : Live(e.to) \/ \E n \in res.nodes : n.id = e.to
      /\ \/ ReplaceStructureFailsOnRemoval(res)
         \/ MergeSucceeds(res, nm, ns, es, nst, est)
         \/ MergeFailsOnNodes(res, nm, ns, es, nst, est)
         \/ MergeFailsOnEdges(res, nm, ns, es, nst, est)

-----------------------------------------------------------------------------
Next ==
  \/ NewGraph
  \/ LoadFromStorages
  \/ \E r \in RepoIDs : SetRepoStore(r)
  \/ \E n \in SingleNodes : AddNode(n)
  \/ \E e \in SingleEdges : AddEdge(e)
  \/ \E res \in ParseResults : BuildFromParseResults(res)
  \/ \E p \in PkgPaths : RemovePackage(p)
  \/ \E res \in StructureResults : ReplaceRepositoryStructure(res)

Spec == Init /\ [][Next]_vars

-----------------------------------------------------------------------------
(* Properties.                                                             *)

\* Every variable has the type its Go declaration gives it.
TypeOK ==
  /\ nodeMap \in [NodeIDs -> 0..MaxNodeID]
  /\ nodes \in [NumIDs -> Node \cup {NoNode}]
  /\ edges \subseteq GraphEdge
  /\ nextNodeID \in 0..MaxNodeID
  /\ registered \subseteq RepoIDs
  /\ nodeStore \in [RepoIDs -> [NodeIDs -> Node \cup {NoNode}]]
  /\ edgeStore \in [RepoIDs -> SUBSET StoredEdge]
  /\ loaded \in BOOLEAN
  /\ tornNodes \subseteq NodeKey
  /\ tornEdges \subseteq EdgeKey
  /\ parked \subseteq EdgeKey

\* The two indexes of the graph agree: a numeric id is never shared by two external
\* ids, never exceeds the counter, and a node sits in the slot its own id maps to.
\* BuildFromParseResults numbers nodes before it knows that they will be applied.
IndexConsistent ==
  /\ \A i \in NodeIDs : nodeMap[i] <= nextNodeID
  /\ \A i, j \in NodeIDs : Known(i) /\ nodeMap[i] = nodeMap[j] => i = j
  /\ \A k \in NumIDs : nodes[k] # NoNode => nodeMap[nodes[k].id] = k

\* Every edge is filed under the numeric ids its endpoints have now, so that a
\* traversal that maps ids back and forth never lands on another node.  The removal
\* of the folder tree is the one place that forgets numeric ids.
EdgeEndpointsResolve ==
  \A x \in edges : /\ x.fromID = nodeMap[x.edge.from]
                   /\ x.toID = nodeMap[x.edge.to]

\* At most one edge of a type joins two nodes, however often it is merged, removed,
\* reloaded or found under several key formats: the Cypher evaluator stops at the
\* first edge of the wanted type, and the in-place filter of the structure removal
\* is only safe because of it.
OneEdgePerType ==
  \A x, y \in edges : SameKey(x.edge, y.edge) => x = y

\* No edge leaves a removed node: RemovePackage could never find it again.
EdgesLeaveLiveNodes ==
  \A x \in edges : nodes[x.fromID] # NoNode

\* No edge is doubled or left behind.
EdgesAreWhole == OneEdgePerType /\ EdgesLeaveLiveNodes

\* Persistence precedes memory: unless a failed call left the key undecided, a live
\* node is in the store of its repository exactly as it is in memory, and so is every
\* edge with all its occurrences, under one key format or another.
LiveIsDurable ==
  /\ \A n \in LiveNodes :
       nodeStore[n.repo][n.id] = n \/ [repo |-> n.repo, id |-> n.id] \in tornNodes
  /\ \A e \in GraphEdges :
       \/ KeyOf(e) \in tornEdges
       \/ LET stored == {s.edge : s \in {t \in edgeStore[e.repo] : SameKey(t.edge, e)}}
          IN  stored # {} /\ e.sites \subseteq SitesOf(stored)

\* In a process that loaded its stores, nothing is left on disk that memory no longer
\* has and a restart would bring back: no declaration, under no key format no edge,
\* except edges persisted while an endpoint was unknown and keys a failed call left
\* undecided.
RemovedIsGone ==
  loaded =>
    /\ \A r \in RepoIDs, i \in NodeIDs :
         \/ nodeStore[r][i] = NoNode
         \/ nodeStore[r][i].type = "BOUNDARY"
         \/ [repo |-> r, id |-> i] \in tornNodes
         \/ Live(i) /\ NodeAt(i).type # "BOUNDARY"
    /\ \A r \in RepoIDs : \A s \in edgeStore[r] :
         \/ KeyOf(s.edge) \in tornEdges \cup parked
         \/ \E e \in GraphEdges : SameKey(e, s.edge) /\ s.edge.sites \subseteq e.sites

\* Memory and stores agree, in both directions.
StoresAgree == LiveIsDurable /\ RemovedIsGone

\* (Of a step.)  A BOUNDARY stub found by another package or repository never displaces
\* a live declaration, whatever the order of merges.
DeclarationNeverDemoted ==
  \A k \in NumIDs :
    nodes[k] # NoNode /\ nodes[k].type # "BOUNDARY" /\ nodes'[k] # NoNode
      => nodes'[k].type # "BOUNDARY"

\* An edge disappears from memory only with its source: removing and rebuilding the
\* package of its target keeps it (incremental updates rely on this to keep inbound
\* edges), and merges only add occurrences.
EdgeLeavesWithSource ==
  [][nextNodeID' # 0 =>
       \A x \in edges :
         \/ \E y \in edges' : SameKey(x.edge, y.edge) /\ x.edge.sites \subseteq y.edge.sites
         \/ nodes'[x.fromID] = NoNode
         \/ x.edge.type = "CONTAINS"]_vars

\* (Of a step.)  Replacing the folder tree leaves the package snapshots and the dependency edges
\* alone (the promise of the comment on ReplaceRepositoryStructure), on every path,
\* failures included.
StructureReplacementIsLocal ==
  (\E res \in StructureResults : ReplaceRepositoryStructure(res)) =>
    /\ \A k \in NumIDs : nodes[k] # NoNode /\ ~IsStructureOwned(nodes[k])
                           => nodes'[k] = nodes[k]
    /\ {x \in edges' : x.edge.type # "CONTAINS"} = {x \in edges : x.edge.type # "CONTAINS"}
    /\ \A r \in RepoIDs :
         {s \in edgeStore'[r] : s.edge.type # "CONTAINS"}
           = {s \in edgeStore[r] : s.edge.type # "CONTAINS"}

-----------------------------------------------------------------------------
(* KnowledgeGraph implements GraphView: numeric ids, the two indexes, the  *)
(* staging of a merge and the stores are invisible to a reader.            *)

View == INSTANCE GraphView WITH
  known <- {i \in NodeIDs : Known(i)},
  decl  <- [i \in NodeIDs |-> NodeAt(i)],
  links <- GraphEdges

\* Every call of graph.go changes the graph a reader sees in one step that GraphView
\* allows, or not at all, on its error paths too.
ImplementsView == View!Spec
=============================================================================
