------------------------ MODULE KnowledgeGraphProofs ------------------------
(***************************************************************************)
(* Proofs about KnowledgeGraph, for every value of its constants.          *)
(*                                                                         *)
(* GraphOK, StoresOK and HistoryOK together are the inductive invariant.   *)
(* They take the graph and the stores as arguments, because the merge of a *)
(* parse result starts either from the current graph or from what the      *)
(* structure removal leaves of it.                                         *)
(***************************************************************************)
EXTENDS KnowledgeGraph, FiniteSetTheorems, TLAPS

GraphOK(nm, ns, es, next) ==
  /\ nm \in [NodeIDs -> 0..MaxNodeID]
  /\ ns \in [NumIDs -> Node \cup {NoNode}]
  /\ es \subseteq GraphEdge
  /\ next \in 0..MaxNodeID
  /\ \A i \in NodeIDs : nm[i] <= next
  /\ \A i, j \in NodeIDs : nm[i] # 0 /\ nm[i] = nm[j] => i = j
  /\ \A k \in NumIDs : ns[k] # NoNode => nm[ns[k].id] = k
  /\ \A x \in es : x.fromID = nm[x.edge.from] /\ x.toID = nm[x.edge.to]
  /\ \A i \in NodeIDs : KindOf[i] # "FUNC" /\ nm[i] # 0 => ns[nm[i]] # NoNode

StoresOK(nst, est) ==
  /\ nst \in [RepoIDs -> [NodeIDs -> Node \cup {NoNode}]]
  /\ \A r \in RepoIDs, i \in NodeIDs :
       nst[r][i] # NoNode => nst[r][i].id = i /\ nst[r][i].repo = r
  /\ est \in [RepoIDs -> SUBSET StoredEdge]
  /\ \A r \in RepoIDs : \A s \in est[r] : s.edge.repo = r

HistoryOK ==
  /\ registered \subseteq RepoIDs
  /\ loaded \in BOOLEAN
  /\ tornNodes \subseteq NodeKey
  /\ tornEdges \subseteq EdgeKey
  /\ parked \subseteq EdgeKey

IInv ==
  /\ GraphOK(nodeMap, nodes, edges, nextNodeID)
  /\ StoresOK(nodeStore, edgeStore)
  /\ HistoryOK

-----------------------------------------------------------------------------
(* What the store operators keep.                                          *)

\* Writing well-typed nodes keeps every node under its own key.
LEMMA PutNodesOK ==
  ASSUME NEW nst, NEW est, StoresOK(nst, est), NEW N, N \subseteq Node
  PROVE  StoresOK(PutNodes(nst, N), est)
<1> DEFINE new(r, i) == {n \in N : n.repo = r /\ n.id = i}
<1>1. ASSUME NEW r \in RepoIDs, NEW i \in NodeIDs
      PROVE  /\ PutNodes(nst, N)[r][i] \in Node \cup {NoNode}
             /\ PutNodes(nst, N)[r][i] # NoNode =>
                  PutNodes(nst, N)[r][i].id = i /\ PutNodes(nst, N)[r][i].repo = r
  <2>1. CASE r \in registered /\ new(r, i) # {}
    <3>1. PutNodes(nst, N)[r][i] = CHOOSE n \in new(r, i) : TRUE
      BY <2>1 DEF PutNodes
    <3>2. PutNodes(nst, N)[r][i] \in new(r, i)
      BY <2>1, <3>1
    <3> QED BY <3>2
  <2>2. CASE ~(r \in registered /\ new(r, i) # {})
    <3>1. PutNodes(nst, N)[r][i] = nst[r][i]
      BY <2>2 DEF PutNodes
    <3> QED BY <3>1 DEF StoresOK
  <2> QED BY <2>1, <2>2
<1>2. PutNodes(nst, N) \in [RepoIDs -> [NodeIDs -> Node \cup {NoNode}]]
  <2>1. ASSUME NEW r \in RepoIDs
        PROVE  PutNodes(nst, N)[r] \in [NodeIDs -> Node \cup {NoNode}]
    <3>1. PutNodes(nst, N)[r]
            = [i \in NodeIDs |-> IF r \in registered /\ new(r, i) # {}
                                 THEN CHOOSE n \in new(r, i) : TRUE ELSE nst[r][i]]
      BY DEF PutNodes
    <3> QED BY <3>1, <1>1
  <2> QED BY <2>1 DEF PutNodes
<1> QED BY <1>1, <1>2 DEF StoresOK

\* Deleting node keys keeps the store well-formed.
LEMMA DeleteNodesOK ==
  ASSUME NEW nst, NEW est, StoresOK(nst, est), NEW N
  PROVE  StoresOK(DeleteNodes(nst, N), est)
BY DEF StoresOK, DeleteNodes

\* Writing well-typed edges keeps the store well-formed.
LEMMA PutEdgesOK ==
  ASSUME NEW nst, NEW est, StoresOK(nst, est), NEW E, E \subseteq Edge
  PROVE  StoresOK(nst, PutEdges(est, E))
<1>1. ASSUME NEW r \in RepoIDs
      PROVE  /\ PutEdges(est, E)[r] \subseteq StoredEdge
             /\ \A s \in PutEdges(est, E)[r] : s.edge.repo = r
  <2>1. est[r] \subseteq StoredEdge /\ \A s \in est[r] : s.edge.repo = r
    BY DEF StoresOK
  <2>2. \A e \in E : [ver |-> "v3", edge |-> e] \in StoredEdge
    BY GraphAssumption DEF GraphAssumption, StoredEdge
  <2> QED BY <2>1, <2>2 DEF PutEdges
<1>2. PutEdges(est, E) \in [RepoIDs -> SUBSET StoredEdge]
  BY <1>1 DEF PutEdges
<1> QED BY <1>1, <1>2 DEF StoresOK

\* Deleting edge keys keeps the store well-formed.
LEMMA DeleteEdgesOK ==
  ASSUME NEW nst, NEW est, StoresOK(nst, est), NEW D
  PROVE  StoresOK(nst, DeleteEdges(est, D))
<1>1. ASSUME NEW r \in RepoIDs
      PROVE  /\ DeleteEdges(est, D)[r] \subseteq StoredEdge
             /\ \A s \in DeleteEdges(est, D)[r] : s.edge.repo = r
  BY DEF StoresOK, DeleteEdges
<1>2. DeleteEdges(est, D) \in [RepoIDs -> SUBSET StoredEdge]
  BY <1>1 DEF DeleteEdges
<1> QED BY <1>1, <1>2 DEF StoresOK

-----------------------------------------------------------------------------
(* What a merge keeps.                                                     *)

\* The ids a merge hands out are new, distinct and within the bound.
LEMMA ExtendMapOK ==
  ASSUME NEW nm, NEW ns, NEW es, GraphOK(nm, ns, es, nextNodeID),
         NEW new, new \subseteq {i \in NodeIDs : nm[i] = 0},
         NEW num \in Numberings(new),
         nextNodeID + Cardinality(new) <= MaxNodeID
  PROVE  /\ Cardinality(new) \in Nat
         /\ ExtendMap(nm, num) \in [NodeIDs -> 0..MaxNodeID]
         /\ \A i \in NodeIDs : ExtendMap(nm, num)[i] <= nextNodeID + Cardinality(new)
         /\ \A i \in NodeIDs : nm[i] # 0 => ExtendMap(nm, num)[i] = nm[i]
         /\ \A i \in new : ExtendMap(nm, num)[i] # 0
         /\ \A i, j \in NodeIDs :
              ExtendMap(nm, num)[i] # 0 /\ ExtendMap(nm, num)[i] = ExtendMap(nm, num)[j]
                => i = j
<1> DEFINE c == Cardinality(new)
<1>1. c \in Nat
  BY FS_Subset, FS_CardinalityType, GraphAssumption DEF GraphAssumption
<1>2. nextNodeID \in Nat /\ MaxNodeID \in Nat
  BY GraphAssumption DEF GraphOK, GraphAssumption
<1>3. /\ num \in [new -> (nextNodeID + 1)..(nextNodeID + c)]
      /\ \A i, j \in new : num[i] = num[j] => i = j
  BY DEF Numberings
<1>4. ASSUME NEW i \in NodeIDs
      PROVE  /\ i \in new => ExtendMap(nm, num)[i] = num[i]
             /\ i \notin new => ExtendMap(nm, num)[i] = nm[i]
  BY <1>3 DEF ExtendMap
<1>5. \A i \in new : num[i] \in Nat /\ num[i] > nextNodeID /\ num[i] <= nextNodeID + c
  BY <1>1, <1>2, <1>3
<1>6. \A i \in NodeIDs : nm[i] \in Nat /\ nm[i] <= nextNodeID /\ nm[i] <= MaxNodeID
  BY <1>2 DEF GraphOK
<1>7. ASSUME NEW i \in NodeIDs
      PROVE  ExtendMap(nm, num)[i] \in 0..MaxNodeID
  BY <1>1, <1>2, <1>4, <1>5, <1>6
<1>8. ExtendMap(nm, num) \in [NodeIDs -> 0..MaxNodeID]
  BY <1>7 DEF ExtendMap
<1>9. ASSUME NEW i \in NodeIDs
      PROVE  ExtendMap(nm, num)[i] <= nextNodeID + c
  BY <1>1, <1>2, <1>4, <1>5, <1>6
<1>10. ASSUME NEW i \in NodeIDs, NEW j \in NodeIDs,
              ExtendMap(nm, num)[i] # 0, ExtendMap(nm, num)[i] = ExtendMap(nm, num)[j]
       PROVE  i = j
  <2>1. CASE i \in new /\ j \in new
    BY <2>1, <1>3, <1>4, <1>10
  <2>2. CASE i \notin new /\ j \notin new
    BY <2>2, <1>4, <1>10 DEF GraphOK
  <2>3. CASE (i \in new /\ j \notin new) \/ (i \notin new /\ j \in new)
    BY <2>3, <1>2, <1>4, <1>5, <1>6, <1>10
  <2> QED BY <2>1, <2>2, <2>3
<1> QED BY <1>1, <1>2, <1>4, <1>5, <1>8, <1>9, <1>10

\* The staged nodes are nodes of the result, and the new ids among them are unknown.
LEMMA StagedNodesOK ==
  ASSUME NEW nm, NEW ns, NEW N, N \subseteq Node, NEW res, res.nodes = N
  PROVE  /\ StagedNodes(res, nm, ns) \subseteq Node
         /\ NewIDs(StagedNodes(res, nm, ns), nm) \subseteq {i \in NodeIDs : nm[i] = 0}
         /\ \A n \in StagedNodes(res, nm, ns) :
              nm[n.id] # 0 \/ n.id \in NewIDs(StagedNodes(res, nm, ns), nm)
BY DEF StagedNodes, NewIDs, Node

\* Filing the staged nodes keeps the graph well-formed: each sits in the slot its id
\* maps to, and the edges still resolve because known ids keep their number.
LEMMA FileNodesOK ==
  ASSUME NEW nm, NEW ns, NEW es, GraphOK(nm, ns, es, nextNodeID),
         NEW N, N \subseteq Node, NEW res, res.nodes = N,
         NEW num \in Numberings(NewIDs(StagedNodes(res, nm, ns), nm)),
         nextNodeID + Cardinality(NewIDs(StagedNodes(res, nm, ns), nm)) <= MaxNodeID
  PROVE  LET staged == StagedNodes(res, nm, ns)
             nm2    == ExtendMap(nm, num)
         IN  GraphOK(nm2, FileNodes(ns, nm2, staged), es,
                     nextNodeID + Cardinality(NewIDs(staged, nm)))
<1> DEFINE staged == StagedNodes(res, nm, ns)
           new == NewIDs(staged, nm)
           nm2 == ExtendMap(nm, num)
           ns2 == FileNodes(ns, nm2, staged)
           here(k) == {n \in staged : nm2[n.id] = k}
<1>1. staged \subseteq Node /\ new \subseteq {i \in NodeIDs : nm[i] = 0}
  BY StagedNodesOK
<1>2. /\ Cardinality(new) \in Nat
      /\ nm2 \in [NodeIDs -> 0..MaxNodeID]
      /\ \A i \in NodeIDs : nm2[i] <= nextNodeID + Cardinality(new)
      /\ \A i \in NodeIDs : nm[i] # 0 => nm2[i] = nm[i]
      /\ \A i, j \in NodeIDs : nm2[i] # 0 /\ nm2[i] = nm2[j] => i = j
  <2> HIDE DEF new, nm2, staged
  <2>1. new \subseteq {i \in NodeIDs : nm[i] = 0} /\ num \in Numberings(new)
    BY <1>1 DEF new, staged
  <2>2. nextNodeID + Cardinality(new) <= MaxNodeID
    BY DEF new, staged
  <2> QED BY <2>1, <2>2, ExtendMapOK DEF nm2
<1>3. nextNodeID + Cardinality(new) \in 0..MaxNodeID
  BY <1>2, GraphAssumption DEF GraphOK, GraphAssumption
<1>4. ASSUME NEW k \in NumIDs
      PROVE  /\ ns2[k] \in Node \cup {NoNode}
             /\ ns2[k] # NoNode => nm2[ns2[k].id] = k
  <2>1. CASE here(k) # {}
    <3>1. ns2[k] = CHOOSE n \in here(k) : TRUE
      BY <2>1 DEF FileNodes
    <3>2. ns2[k] \in here(k)
      BY <2>1, <3>1
    <3> QED BY <3>2, <1>1
  <2>2. CASE here(k) = {}
    <3>1. ns2[k] = ns[k]
      BY <2>2 DEF FileNodes
    <3>2. ns[k] \in Node \cup {NoNode} /\ (ns[k] # NoNode => nm[ns[k].id] = k)
      BY DEF GraphOK
    <3>3. ns[k] # NoNode => ns[k].id \in NodeIDs /\ k # 0
      BY <3>2 DEF Node, NumIDs
    <3> QED BY <3>1, <3>2, <3>3, <1>2
  <2> QED BY <2>1, <2>2
<1>5. ns2 \in [NumIDs -> Node \cup {NoNode}]
  BY <1>4 DEF FileNodes
<1>6. ASSUME NEW x \in es
      PROVE  x.fromID = nm2[x.edge.from] /\ x.toID = nm2[x.edge.to]
  <2>1. x \in GraphEdge /\ x.fromID = nm[x.edge.from] /\ x.toID = nm[x.edge.to]
    BY DEF GraphOK
  <2>2. /\ x.edge.from \in NodeIDs /\ x.edge.to \in NodeIDs
        /\ x.fromID # 0 /\ x.toID # 0
    BY <2>1 DEF GraphEdge, Edge, NumIDs
  <2> QED BY <2>1, <2>2, <1>2
<1>7. es \subseteq GraphEdge
  BY DEF GraphOK
<1>8. ASSUME NEW i \in NodeIDs, KindOf[i] # "FUNC", nm2[i] # 0
      PROVE  ns2[nm2[i]] # NoNode
  <2> DEFINE k == nm2[i]
  <2>1. k \in NumIDs
    BY <1>2, <1>8, GraphAssumption DEF NumIDs, GraphAssumption
  <2>2. here(k) # {} => ns2[k] \in Node
    <3>1. ASSUME here(k) # {}
          PROVE  (CHOOSE n \in here(k) : TRUE) \in here(k)
      BY <3>1
    <3>2. here(k) # {} => ns2[k] = CHOOSE n \in here(k) : TRUE
      BY <2>1 DEF FileNodes
    <3> QED BY <3>1, <3>2, <1>1
  <2>3. here(k) = {} => ns2[k] = ns[k]
    BY <2>1 DEF FileNodes
  <2>4. CASE nm[i] # 0
    BY <2>2, <2>3, <2>4, <1>2, <1>8, GraphAssumption DEF GraphOK, GraphAssumption
  <2>5. CASE nm[i] = 0
    <3>1. i \in new
      BY <2>5, <1>8 DEF ExtendMap, Numberings
    <3>2. \E n \in staged : n.id = i
      BY <3>1 DEF NewIDs
    <3> QED BY <3>2, <2>2, GraphAssumption DEF GraphAssumption
  <2> QED BY <2>4, <2>5
<1> HIDE DEF ns2, nm2, new, staged
<1>9. GraphOK(nm2, ns2, es, nextNodeID + Cardinality(new))
  BY <1>2, <1>3, <1>4, <1>5, <1>6, <1>7, <1>8 DEF GraphOK
<1> QED BY <1>9 DEF ns2, nm2, new, staged

\* A staged edge is an edge between known nodes.
LEMMA StageEdgeOK ==
  ASSUME NEW nm, NEW ns, NEW es, NEW next, GraphOK(nm, ns, es, next),
         NEW E, E \subseteq Edge, NEW res, res.edges = E,
         NEW e \in Resolved(res, nm)
  PROVE  LET s == StageEdge(e, res, nm, es)
         IN  s \in Edge /\ nm[s.from] # 0 /\ nm[s.to] # 0
<1> DEFINE same == {d \in Resolved(res, nm) : SameKey(d, e)}
           old  == {x.edge : x \in FindEdgeByType(es, nm, e)}
           base == IF old # {} THEN CHOOSE d \in old : TRUE ELSE CHOOSE d \in same : TRUE
           s    == [base EXCEPT !.sites = @ \cup SitesOf(same)]
<1>1. same \subseteq Edge /\ e \in same
  BY DEF Resolved, SameKey
<1>2. \A d \in old : d \in Edge /\ nm[d.from] # 0 /\ nm[d.to] # 0
  BY DEF FindEdgeByType, GraphOK, GraphEdge, NumIDs
<1>3. \A d \in same : nm[d.from] # 0 /\ nm[d.to] # 0
  BY DEF Resolved
<1>4. base \in Edge /\ nm[base.from] # 0 /\ nm[base.to] # 0
  <2>1. CASE old # {}
    <3>1. base = CHOOSE d \in old : TRUE
      BY <2>1
    <3>2. base \in old
      BY <2>1, <3>1
    <3> QED BY <3>2, <1>2
  <2>2. CASE old = {}
    <3>1. base = CHOOSE d \in same : TRUE
      BY <2>2
    <3>2. base \in same
      BY <1>1, <3>1
    <3> QED BY <3>2, <1>1, <1>3
  <2> QED BY <2>1, <2>2
<1>5. SitesOf(same) \subseteq Sites
  BY <1>1 DEF SitesOf, Edge
<1> HIDE DEF base, same, old
<1>6. s \in Edge /\ s.from = base.from /\ s.to = base.to
  BY <1>4, <1>5 DEF Edge
<1> HIDE DEF s
<1>7. s \in Edge /\ nm[s.from] # 0 /\ nm[s.to] # 0
  BY <1>4, <1>6
<1>8. StageEdge(e, res, nm, es) = s
  BY DEF s, base, same, old, StageEdge
<1> QED BY <1>7, <1>8

\* Filing the staged edges keeps every edge under the ids of its endpoints.
LEMMA FileEdgesOK ==
  ASSUME NEW nm, NEW ns, NEW es, NEW next, GraphOK(nm, ns, es, next),
         NEW E, E \subseteq Edge, NEW res, res.edges = E
  PROVE  /\ GraphOK(nm, ns, FileEdges(es, nm, StagedEdges(res, nm, es)), next)
         /\ EdgeWrites(res, nm, es) \subseteq Edge
<1> DEFINE staged == StagedEdges(res, nm, es)
<1>1. \A s \in staged : s \in Edge /\ nm[s.from] # 0 /\ nm[s.to] # 0
  BY StageEdgeOK DEF StagedEdges
<1>2. EdgeWrites(res, nm, es) \subseteq Edge
  BY <1>1 DEF EdgeWrites
<1>3. ASSUME NEW x \in FileEdges(es, nm, staged)
      PROVE  x \in GraphEdge /\ x.fromID = nm[x.edge.from] /\ x.toID = nm[x.edge.to]
  <2>1. CASE x \in es
    BY <2>1 DEF GraphOK
  <2>2. CASE \E s \in staged : x = [fromID |-> nm[s.from], toID |-> nm[s.to], edge |-> s]
    <3>1. PICK s \in staged : x = [fromID |-> nm[s.from], toID |-> nm[s.to], edge |-> s]
      BY <2>2
    <3>2. nm[s.from] \in NumIDs /\ nm[s.to] \in NumIDs /\ s \in Edge
      <4>1. s \in Edge /\ s.from \in NodeIDs /\ s.to \in NodeIDs
        BY <1>1 DEF Edge
      <4>2. nm[s.from] \in 0..MaxNodeID /\ nm[s.to] \in 0..MaxNodeID
        BY <4>1 DEF GraphOK
      <4> QED BY <4>1, <4>2, <1>1, GraphAssumption DEF NumIDs, GraphAssumption
    <3> QED BY <3>1, <3>2 DEF GraphEdge
  <2> QED BY <2>1, <2>2 DEF FileEdges
<1>4. GraphOK(nm, ns, FileEdges(es, nm, staged), next)
  BY <1>3 DEF GraphOK
<1> QED BY <1>2, <1>4

\* Keys of typed nodes and edges are typed.
LEMMA KeysOK ==
  /\ \A N \in SUBSET Node : NodeKeysOf(N) \subseteq NodeKey
  /\ \A E \in SUBSET Edge : KeysOf(E) \subseteq EdgeKey
BY DEF NodeKeysOf, Node, NodeKey, KeysOf, KeyOf, Edge, EdgeKey

\* A merge that succeeds keeps the invariant, whatever well-formed graph it starts from.
LEMMA MergeSucceedsOK ==
  ASSUME NEW nm, NEW ns, NEW es, NEW nst, NEW est,
         GraphOK(nm, ns, es, nextNodeID), StoresOK(nst, est), HistoryOK,
         NEW res \in ParseResult, MergeSucceeds(res, nm, ns, es, nst, est)
  PROVE  IInv'
<1> DEFINE staged == StagedNodes(res, nm, ns)
           new == NewIDs(staged, nm)
<1>1. res.nodes \subseteq Node /\ res.edges \subseteq Edge
  BY DEF ParseResult
<1>2. staged \subseteq Node
  BY <1>1, StagedNodesOK
<1>3. PICK num \in Numberings(new) :
        LET nm2 == ExtendMap(nm, num)
            W   == EdgeWrites(res, nm2, es)
        IN  /\ nextNodeID + Cardinality(new) <= MaxNodeID
            /\ nodeMap' = nm2
            /\ nodes' = FileNodes(ns, nm2, staged)
            /\ nextNodeID' = nextNodeID + Cardinality(new)
            /\ nodeStore' = PutNodes(nst, staged)
            /\ \E w \in Written(W) :
                 /\ KeysOf(w) = KeysOf(W)
                 /\ edgeStore' = PutEdges(est, w)
            /\ edges' = FileEdges(es, nm2, StagedEdges(res, nm2, es))
            /\ tornNodes' = tornNodes \ NodeKeysOf(staged)
            /\ tornEdges' = tornEdges \ KeysOf(W)
            /\ parked' = parked \cup KeysOf(res.edges \ Resolved(res, nm2))
            /\ UNCHANGED <<registered, loaded>>
  BY DEF MergeSucceeds
<1> DEFINE nm2 == ExtendMap(nm, num)
           W == EdgeWrites(res, nm2, es)
<1>4. GraphOK(nm2, FileNodes(ns, nm2, staged), es, nextNodeID + Cardinality(new))
  BY <1>1, <1>3, FileNodesOK
<1>5. /\ GraphOK(nm2, FileNodes(ns, nm2, staged),
                 FileEdges(es, nm2, StagedEdges(res, nm2, es)),
                 nextNodeID + Cardinality(new))
      /\ W \subseteq Edge
  <2> HIDE DEF nm2, staged, new
  <2> QED BY <1>1, <1>4, FileEdgesOK DEF W
<1>6. GraphOK(nodeMap, nodes, edges, nextNodeID)'
  <2>1. /\ nodeMap' = nm2
        /\ nodes' = FileNodes(ns, nm2, staged)
        /\ edges' = FileEdges(es, nm2, StagedEdges(res, nm2, es))
        /\ nextNodeID' = nextNodeID + Cardinality(new)
    BY <1>3
  <2>2. GraphOK(nodeMap', nodes', edges', nextNodeID')
    BY <2>1, <1>5
  <2> QED BY <2>2 DEF GraphOK
<1>7. StoresOK(nodeStore, edgeStore)'
  <2>1. PICK w \in Written(W) : edgeStore' = PutEdges(est, w)
    BY <1>3
  <2>2. w \subseteq Edge
    BY <2>1, <1>5 DEF Written
  <2>3. StoresOK(PutNodes(nst, staged), est)
    BY <1>2, PutNodesOK
  <2>4. StoresOK(PutNodes(nst, staged), PutEdges(est, w))
    BY <2>2, <2>3, PutEdgesOK
  <2>5. StoresOK(nodeStore', edgeStore')
    BY <2>1, <2>4, <1>3
  <2> QED BY <2>5 DEF StoresOK
<1>8. HistoryOK'
  <2>1. KeysOf(res.edges \ Resolved(res, nm2)) \subseteq EdgeKey
    BY <1>1, KeysOK
  <2> QED BY <1>3, <2>1 DEF HistoryOK
<1> QED BY <1>6, <1>7, <1>8 DEF IInv

\* A merge that fails on the nodes leaves the graph alone and the store well-formed.
LEMMA MergeFailsOnNodesOK ==
  ASSUME NEW nm, NEW ns, NEW es, NEW nst, NEW est,
         GraphOK(nm, ns, es, nextNodeID), StoresOK(nst, est), HistoryOK,
         NEW res \in ParseResult, MergeFailsOnNodes(res, nm, ns, es, nst, est)
  PROVE  IInv'
<1>1. StagedNodes(res, nm, ns) \subseteq Node
  BY StagedNodesOK DEF ParseResult
<1>2. PICK w \in SUBSET {n \in StagedNodes(res, nm, ns) : n.repo \in registered} :
        /\ nodeMap' = nm
        /\ nodes' = ns
        /\ edges' = es
        /\ nodeStore' = PutNodes(nst, w)
        /\ edgeStore' = est
        /\ tornNodes' = tornNodes \cup NodeKeysOf(w)
        /\ UNCHANGED <<nextNodeID, registered, loaded, tornEdges, parked>>
  BY DEF MergeFailsOnNodes
<1>3. w \subseteq Node
  BY <1>1, <1>2
<1>4. GraphOK(nodeMap', nodes', edges', nextNodeID')
  BY <1>2
<1>5. StoresOK(nodeStore', edgeStore')
  BY <1>2, <1>3, PutNodesOK
<1>6. HistoryOK'
  BY <1>2, <1>3, KeysOK DEF HistoryOK
<1> QED BY <1>4, <1>5, <1>6 DEF IInv, GraphOK, StoresOK

\* A merge that fails on the edges has filed the nodes and kept the edges.
LEMMA MergeFailsOnEdgesOK ==
  ASSUME NEW nm, NEW ns, NEW es, NEW nst, NEW est,
         GraphOK(nm, ns, es, nextNodeID), StoresOK(nst, est), HistoryOK,
         NEW res \in ParseResult, MergeFailsOnEdges(res, nm, ns, es, nst, est)
  PROVE  IInv'
<1> DEFINE staged == StagedNodes(res, nm, ns)
           new == NewIDs(staged, nm)
<1>1. res.nodes \subseteq Node /\ res.edges \subseteq Edge
  BY DEF ParseResult
<1>2. staged \subseteq Node
  BY <1>1, StagedNodesOK
<1>3. PICK num \in Numberings(new) :
        LET nm2 == ExtendMap(nm, num)
        IN  /\ nextNodeID + Cardinality(new) <= MaxNodeID
            /\ nodeMap' = nm2
            /\ nodes' = FileNodes(ns, nm2, staged)
            /\ nextNodeID' = nextNodeID + Cardinality(new)
            /\ nodeStore' = PutNodes(nst, staged)
            /\ edges' = es
            /\ \E w \in Written({e \in EdgeWrites(res, nm2, es) : e.repo \in registered}) :
                 /\ edgeStore' = PutEdges(est, w)
                 /\ tornEdges' = tornEdges \cup KeysOf(w)
            /\ tornNodes' = tornNodes \ NodeKeysOf(staged)
            /\ UNCHANGED <<registered, loaded, parked>>
  BY DEF MergeFailsOnEdges
<1> DEFINE nm2 == ExtendMap(nm, num)
           W == EdgeWrites(res, nm2, es)
<1>4. GraphOK(nm2, FileNodes(ns, nm2, staged), es, nextNodeID + Cardinality(new))
  BY <1>1, <1>3, FileNodesOK
<1>5. W \subseteq Edge
  <2> HIDE DEF nm2, staged, new
  <2> QED BY <1>1, <1>4, FileEdgesOK DEF W
<1>6. GraphOK(nodeMap', nodes', edges', nextNodeID')
  BY <1>3, <1>4
<1>7. PICK w \in Written({e \in W : e.repo \in registered}) :
        edgeStore' = PutEdges(est, w) /\ tornEdges' = tornEdges \cup KeysOf(w)
  BY <1>3
<1>8. w \subseteq Edge
  BY <1>5, <1>7 DEF Written
<1>9. StoresOK(nodeStore', edgeStore')
  <2>1. StoresOK(PutNodes(nst, staged), est)
    BY <1>2, PutNodesOK
  <2>2. StoresOK(PutNodes(nst, staged), PutEdges(est, w))
    BY <1>8, <2>1, PutEdgesOK
  <2> QED BY <2>2, <1>3, <1>7
<1>10. HistoryOK'
  <2>1. KeysOf(w) \subseteq EdgeKey
    BY <1>8, KeysOK
  <2> QED BY <1>3, <1>7, <2>1 DEF HistoryOK
<1> QED BY <1>6, <1>9, <1>10 DEF IInv, GraphOK, StoresOK

-----------------------------------------------------------------------------
(* What each action keeps.                                                 *)

\* An empty graph is well-formed.
LEMMA EmptyGraphOK ==
  GraphOK([i \in NodeIDs |-> 0], [k \in NumIDs |-> NoNode], {}, 0)
BY GraphAssumption DEF GraphOK, GraphAssumption

LEMMA InitOK == Init => IInv
<1> SUFFICES ASSUME Init PROVE IInv
  OBVIOUS
<1>1. GraphOK(nodeMap, nodes, edges, nextNodeID)
  BY EmptyGraphOK DEF Init
<1>2. StoresOK(nodeStore, edgeStore)
  BY GraphAssumption DEF Init, GraphAssumption, StoresOK
<1> QED BY <1>1, <1>2 DEF Init, IInv, HistoryOK

\* Taking nodes of packages and any edges out of a well-formed graph leaves it
\* well-formed.
LEMMA RemovalOK ==
  ASSUME NEW nm, NEW ns, NEW es, NEW next, GraphOK(nm, ns, es, next),
         NEW K, \A k \in K : k \in NumIDs /\ ns[k] # NoNode /\ KindOf[ns[k].id] = "FUNC",
         NEW es2, es2 \subseteq es
  PROVE  GraphOK(nm, [k \in NumIDs |-> IF k \in K THEN NoNode ELSE ns[k]], es2, next)
<1> DEFINE ns2 == [k \in NumIDs |-> IF k \in K THEN NoNode ELSE ns[k]]
<1>1. ASSUME NEW i \in NodeIDs, KindOf[i] # "FUNC", nm[i] # 0
      PROVE  ns2[nm[i]] # NoNode
  <2>1. nm[i] \in NumIDs /\ ns[nm[i]] # NoNode
    BY <1>1, GraphAssumption DEF GraphOK, GraphAssumption, NumIDs
  <2>2. nm[i] \notin K
    BY <2>1, <1>1 DEF GraphOK, Node
  <2> QED BY <2>1, <2>2
<1> HIDE DEF ns2
<1>2. /\ ns2 \in [NumIDs -> Node \cup {NoNode}]
      /\ \A k \in NumIDs : ns2[k] # NoNode => nm[ns2[k].id] = k
  BY DEF GraphOK, ns2
<1>3. GraphOK(nm, ns2, es2, next)
  BY <1>1, <1>2 DEF GraphOK
<1> QED BY <1>3 DEF ns2

LEMMA LoadFromStoragesOK ==
  ASSUME IInv, LoadFromStorages
  PROVE  IInv'
<1> DEFINE stored(i) == {nodeStore[r][i] : r \in RepoIDs} \ {NoNode}
           ids  == {i \in NodeIDs : stored(i) # {}}
           pick(i) == CHOOSE n \in stored(i) :
                        ~\E m \in stored(i) : ShouldReplaceNode(n, m)
           all  == {s.edge : s \in UNION {edgeStore[r] : r \in RepoIDs}}
           both == {e \in all : e.from \in ids /\ e.to \in ids}
           merged(e) == LET same == {d \in both : SameKey(d, e)}
                        IN  [(CHOOSE d \in same : TRUE) EXCEPT !.sites = SitesOf(same)]
<1>1. PICK num \in Numberings(ids) :
        /\ nodeMap' = [i \in NodeIDs |-> IF i \in ids THEN num[i] ELSE 0]
        /\ nodes' = [k \in NumIDs |->
                       IF \E i \in ids : num[i] = k
                       THEN pick(CHOOSE i \in ids : num[i] = k) ELSE NoNode]
        /\ edges' = {[fromID |-> num[e.from], toID |-> num[e.to], edge |-> merged(e)]
                       : e \in both}
  BY DEF LoadFromStorages
<1>2. /\ nextNodeID = 0
      /\ Cardinality(ids) <= MaxNodeID
      /\ nextNodeID' = Cardinality(ids)
      /\ loaded' = TRUE /\ tornNodes' = {} /\ tornEdges' = {}
      /\ parked' = KeysOf(all \ both)
      /\ registered' = registered /\ nodeStore' = nodeStore /\ edgeStore' = edgeStore
  BY DEF LoadFromStorages, stores
<1>3. Cardinality(ids) \in Nat /\ MaxNodeID \in Nat
  BY FS_Subset, FS_CardinalityType, GraphAssumption DEF GraphAssumption
<1>4. /\ num \in [ids -> 1..Cardinality(ids)]
      /\ \A i, j \in ids : num[i] = num[j] => i = j
  <2> HIDE DEF ids
  <2> QED BY <1>2, <1>3 DEF Numberings
<1>5. \A i \in ids : num[i] \in NumIDs /\ num[i] <= Cardinality(ids)
  <2> HIDE DEF ids
  <2> QED BY <1>2, <1>3, <1>4 DEF NumIDs
<1>6. all \subseteq Edge
  <2>1. \A r \in RepoIDs : edgeStore[r] \subseteq StoredEdge
    BY DEF IInv, StoresOK
  <2> QED BY <2>1 DEF StoredEdge
<1>7. ASSUME NEW i \in ids
      PROVE  pick(i) \in Node /\ pick(i).id = i
  <2>1. \A n \in stored(i) : n \in Node /\ n.id = i
    BY DEF IInv, StoresOK
  <2>2. PICK n \in stored(i) : TRUE
    OBVIOUS
  <2>3. \E n2 \in stored(i) : ~\E m \in stored(i) : ShouldReplaceNode(n2, m)
    BY <2>2 DEF ShouldReplaceNode
  <2>4. pick(i) \in stored(i)
    BY <2>3
  <2> QED BY <2>1, <2>4
<1>8. ASSUME NEW e \in both
      PROVE  merged(e) \in Edge /\ merged(e).from = e.from /\ merged(e).to = e.to
  <2> DEFINE same == {d \in both : SameKey(d, e)}
             d0 == CHOOSE d \in same : TRUE
  <2>1. e \in same /\ same \subseteq Edge
    BY <1>6 DEF SameKey
  <2>2. d0 \in same
    BY <2>1
  <2>3. SitesOf(same) \in SUBSET Sites
    <3>1. \A d \in same : d.sites \subseteq Sites
      BY <2>1 DEF Edge
    <3> QED BY <3>1 DEF SitesOf
  <2>4. d0 \in Edge /\ d0.from = e.from /\ d0.to = e.to
    BY <2>1, <2>2 DEF SameKey
  <2>5. merged(e) = [d0 EXCEPT !.sites = SitesOf(same)]
    OBVIOUS
  <2> HIDE DEF d0, same, merged
  <2>6. /\ [d0 EXCEPT !.sites = SitesOf(same)] \in Edge
        /\ [d0 EXCEPT !.sites = SitesOf(same)].from = e.from
        /\ [d0 EXCEPT !.sites = SitesOf(same)].to = e.to
    BY <2>3, <2>4 DEF Edge
  <2> QED BY <2>5, <2>6
<1> HIDE DEF ids, both, merged, pick, stored, all
<1>9. ids \subseteq NodeIDs /\ both \subseteq all /\ \A e \in both : e.from \in ids /\ e.to \in ids
  BY DEF ids, both
<1>10. nodeMap' \in [NodeIDs -> 0..MaxNodeID]
  BY <1>1, <1>3, <1>5 DEF NumIDs
<1>11. ASSUME NEW k \in NumIDs
       PROVE  /\ nodes'[k] \in Node \cup {NoNode}
              /\ nodes'[k] # NoNode => nodeMap'[nodes'[k].id] = k
  <2>1. CASE \E i \in ids : num[i] = k
    <3>1. PICK i \in ids : i = CHOOSE j \in ids : num[j] = k
      BY <2>1
    <3>2. num[i] = k
      BY <2>1, <3>1
    <3>3. nodes'[k] = pick(i)
      BY <1>1, <2>1, <3>1
    <3> QED BY <3>2, <3>3, <1>1, <1>7, <1>9
  <2>2. CASE ~\E i \in ids : num[i] = k
    BY <2>2, <1>1
  <2> QED BY <2>1, <2>2
<1>12. nodes' \in [NumIDs -> Node \cup {NoNode}]
  BY <1>1, <1>11
<1>13. ASSUME NEW x \in edges'
       PROVE  /\ x \in GraphEdge
              /\ x.fromID = nodeMap'[x.edge.from] /\ x.toID = nodeMap'[x.edge.to]
  <2>1. PICK e \in both : x = [fromID |-> num[e.from], toID |-> num[e.to], edge |-> merged(e)]
    BY <1>1
  <2>2. x.edge \in Edge /\ x.edge.from = e.from /\ x.edge.to = e.to
    BY <2>1, <1>8
  <2>3. e.from \in ids /\ e.to \in ids
    BY <1>9
  <2> QED BY <2>1, <2>2, <2>3, <1>1, <1>5, <1>9 DEF GraphEdge
<1>14. /\ \A i \in NodeIDs : nodeMap'[i] <= nextNodeID'
       /\ \A i, j \in NodeIDs : nodeMap'[i] # 0 /\ nodeMap'[i] = nodeMap'[j] => i = j
       /\ nextNodeID' \in 0..MaxNodeID
  BY <1>1, <1>2, <1>3, <1>4, <1>5 DEF NumIDs
<1>15. ASSUME NEW i \in NodeIDs, nodeMap'[i] # 0
       PROVE  nodes'[nodeMap'[i]] # NoNode
  <2>1. i \in ids /\ nodeMap'[i] = num[i]
    BY <1>1, <1>15
  <2>2. PICK j \in ids : j = (CHOOSE l \in ids : num[l] = num[i]) /\ num[j] = num[i]
    BY <2>1
  <2>3. nodes'[num[i]] = pick(j)
    BY <2>1, <2>2, <1>1, <1>5
  <2> QED BY <2>1, <2>3, <1>7, GraphAssumption DEF GraphAssumption
<1>16. GraphOK(nodeMap', nodes', edges', nextNodeID')
  BY <1>10, <1>11, <1>12, <1>13, <1>14, <1>15 DEF GraphOK
<1>17. StoresOK(nodeStore', edgeStore')
  BY <1>2 DEF IInv
<1>18. HistoryOK'
  <2>1. KeysOf(all \ both) \subseteq EdgeKey
    BY <1>6, KeysOK
  <2> QED BY <2>1, <1>2 DEF HistoryOK, IInv
<1> QED BY <1>16, <1>17, <1>18 DEF IInv, GraphOK, StoresOK

LEMMA AddNodeOK ==
  ASSUME IInv, NEW n \in SingleNodes, AddNode(n)
  PROVE  IInv'
<1> DEFINE res == [nodes |-> {n}]
           staged == StagedNodes(res, nodeMap, nodes)
           new == NewIDs(staged, nodeMap)
<1>1. n \in Node
  BY GraphAssumption DEF GraphAssumption
<1>2. PICK num \in Numberings(new) : nodeMap' = ExtendMap(nodeMap, num)
  BY DEF AddNode
<1>3. /\ nextNodeID + Cardinality(new) <= MaxNodeID
      /\ nodes' = FileNodes(nodes, nodeMap', staged)
      /\ nextNodeID' = nextNodeID + Cardinality(new)
      /\ nodeStore' = PutNodes(nodeStore, staged)
      /\ tornNodes' = tornNodes \ NodeKeysOf(staged)
      /\ UNCHANGED <<edges, registered, edgeStore, loaded, tornEdges, parked>>
  BY DEF AddNode
<1>4. {n} \subseteq Node /\ res.nodes = {n}
  BY <1>1
<1>5. staged \subseteq Node
  <2> HIDE DEF res
  <2> QED BY <1>4, StagedNodesOK
<1>6. GraphOK(ExtendMap(nodeMap, num), FileNodes(nodes, ExtendMap(nodeMap, num), staged),
              edges, nextNodeID + Cardinality(new))
  <2>1. GraphOK(nodeMap, nodes, edges, nextNodeID)
    BY DEF IInv
  <2> HIDE DEF res
  <2> QED BY <2>1, <1>2, <1>3, <1>4, FileNodesOK
<1>7. GraphOK(nodeMap', nodes', edges', nextNodeID')
  BY <1>2, <1>3, <1>6
<1>8. StoresOK(nodeStore', edgeStore')
  <2>1. StoresOK(nodeStore, edgeStore)
    BY DEF IInv
  <2> QED BY <2>1, <1>3, <1>5, PutNodesOK
<1>9. HistoryOK'
  BY <1>3 DEF IInv, HistoryOK
<1> QED BY <1>7, <1>8, <1>9 DEF IInv, GraphOK, StoresOK

LEMMA AddEdgeOK ==
  ASSUME IInv, NEW e \in SingleEdges, AddEdge(e)
  PROVE  IInv'
<1> DEFINE res == [edges |-> {e}]
           staged == StagedEdges(res, nodeMap, edges)
           writes == staged \ GraphEdges
<1>1. {e} \subseteq Edge /\ res.edges = {e}
  BY GraphAssumption DEF GraphAssumption
<1>2. /\ edges' = FileEdges(edges, nodeMap, staged)
      /\ edgeStore' \in {edgeStore, PutEdges(edgeStore, writes)}
      /\ tornEdges' \in {tornEdges \ KeysOf(writes), tornEdges \cup KeysOf(writes)}
      /\ UNCHANGED <<nodeMap, nodes, nextNodeID, registered, nodeStore, loaded,
                     tornNodes, parked>>
  BY DEF AddEdge
<1>3. GraphOK(nodeMap, nodes, edges, nextNodeID) /\ StoresOK(nodeStore, edgeStore)
  BY DEF IInv
<1>4. /\ GraphOK(nodeMap, nodes, FileEdges(edges, nodeMap, staged), nextNodeID)
      /\ \A s \in staged : s \in Edge
  <2> HIDE DEF res
  <2> QED BY <1>1, <1>3, FileEdgesOK, StageEdgeOK DEF StagedEdges
<1>5. writes \subseteq Edge
  BY <1>4
<1>6. GraphOK(nodeMap', nodes', edges', nextNodeID')
  BY <1>2, <1>4
<1>7. StoresOK(nodeStore', edgeStore')
  <2> HIDE DEF writes
  <2>1. StoresOK(nodeStore, PutEdges(edgeStore, writes))
    BY <1>3, <1>5, PutEdgesOK
  <2> QED BY <2>1, <1>2, <1>3
<1>8. HistoryOK'
  <2>1. KeysOf(writes) \subseteq EdgeKey
    BY <1>5, KeysOK
  <2> QED BY <2>1, <1>2 DEF IInv, HistoryOK
<1> QED BY <1>6, <1>7, <1>8 DEF IInv, GraphOK, StoresOK

\* The edges of the graph and the nodes in its slots are typed, so their keys are.
LEMMA GraphKeysOK ==
  ASSUME IInv
  PROVE  /\ \A X \in SUBSET edges : KeysOf({x.edge : x \in X}) \subseteq EdgeKey
         /\ \A K \in SUBSET {k \in NumIDs : nodes[k] # NoNode} :
              NodeKeysOf({nodes[k] : k \in K}) \subseteq NodeKey
<1>1. \A x \in edges : x.edge \in Edge
  BY DEF IInv, GraphOK, GraphEdge
<1>2. \A k \in NumIDs : nodes[k] # NoNode => nodes[k] \in Node
  BY DEF IInv, GraphOK
<1> QED BY <1>1, <1>2, KeysOK

LEMMA RemovePackageOK ==
  ASSUME IInv, NEW p \in PkgPaths, RemovePackage(p)
  PROVE  IInv'
<1>1. GraphOK(nodeMap, nodes, edges, nextNodeID) /\ StoresOK(nodeStore, edgeStore)
  BY DEF IInv
<1>2. CASE RemovePackageSucceeds(p)
  <2> DEFINE gone == NodesOfPackage(p)
             removed == {nodes[k] : k \in gone}
             out == {x.edge : x \in OutEdges(gone)}
  <2>1. /\ edgeStore' = DeleteEdges(edgeStore, AllVersions(out))
        /\ nodeStore' = DeleteNodes(nodeStore, removed)
        /\ nodes' = [k \in NumIDs |-> IF k \in gone THEN NoNode ELSE nodes[k]]
        /\ edges' = edges \ OutEdges(gone)
        /\ tornNodes' = tornNodes \ NodeKeysOf(removed)
        /\ tornEdges' = tornEdges \ KeysOf(out)
        /\ parked' = parked \ KeysOf(out)
        /\ UNCHANGED <<nodeMap, nextNodeID, registered, loaded>>
    BY <1>2 DEF RemovePackageSucceeds
  <2>5. \A k \in gone : k \in NumIDs /\ nodes[k] # NoNode /\ KindOf[nodes[k].id] = "FUNC"
    <3>1. \A k \in NumIDs : nodes[k] # NoNode => nodes[k].id \in NodeIDs
      BY <1>1 DEF GraphOK, Node
    <3>2. NoPkg # p
      BY GraphAssumption DEF GraphAssumption
    <3> QED BY <3>1, <3>2, GraphAssumption DEF NodesOfPackage, GraphAssumption
  <2> HIDE DEF gone, removed, out
  <2>2. GraphOK(nodeMap', nodes', edges', nextNodeID')
    <3>1. edges \ OutEdges(gone) \subseteq edges
      OBVIOUS
    <3>2. GraphOK(nodeMap, [k \in NumIDs |-> IF k \in gone THEN NoNode ELSE nodes[k]],
                  edges \ OutEdges(gone), nextNodeID)
      BY <2>5, <1>1, <3>1, RemovalOK
    <3> QED BY <2>1, <3>2
  <2>3. StoresOK(nodeStore', edgeStore')
    BY <2>1, <1>1, DeleteNodesOK, DeleteEdgesOK
  <2>4. HistoryOK'
    BY <2>1 DEF IInv, HistoryOK
  <2> QED BY <2>2, <2>3, <2>4 DEF IInv, GraphOK, StoresOK
<1>3. CASE RemovePackageFails(p)
  <2>0. PICK done \in SUBSET NodesOfPackage(p), cur \in NodesOfPackage(p) :
          \E part \in SUBSET AllVersions({x.edge : x \in OutEdges({cur})}) :
            LET all  == {x.edge : x \in OutEdges(done)}
                keys == AllVersions(all) \cup part
            IN  /\ edgeStore' = DeleteEdges(edgeStore, keys)
                /\ nodeStore' = DeleteNodes(nodeStore, {nodes[k] : k \in done})
                /\ tornNodes' = tornNodes \cup NodeKeysOf({nodes[k] : k \in done})
                /\ tornEdges' = tornEdges \cup KeysOf({d.edge : d \in keys})
                /\ UNCHANGED <<memory, registered, loaded, parked>>
    BY <1>3 DEF RemovePackageFails
  <2>1. PICK part \in SUBSET AllVersions({x.edge : x \in OutEdges({cur})}) :
          LET all  == {x.edge : x \in OutEdges(done)}
              keys == AllVersions(all) \cup part
          IN  /\ edgeStore' = DeleteEdges(edgeStore, keys)
              /\ nodeStore' = DeleteNodes(nodeStore, {nodes[k] : k \in done})
              /\ tornNodes' = tornNodes \cup NodeKeysOf({nodes[k] : k \in done})
              /\ tornEdges' = tornEdges \cup KeysOf({d.edge : d \in keys})
              /\ UNCHANGED <<memory, registered, loaded, parked>>
    BY <2>0
  <2> DEFINE keys == AllVersions({x.edge : x \in OutEdges(done)}) \cup part
  <2>2. GraphOK(nodeMap', nodes', edges', nextNodeID')
    BY <2>1, <1>1 DEF memory
  <2>3. StoresOK(nodeStore', edgeStore')
    BY <2>1, <1>1, DeleteNodesOK, DeleteEdgesOK
  <2>4. {d.edge : d \in keys} \subseteq {x.edge : x \in edges}
    BY DEF AllVersions, OutEdges
  <2>5. KeysOf({d.edge : d \in keys}) \subseteq EdgeKey
    <3>1. \A x \in edges : x.edge \in Edge
      BY <1>1 DEF GraphOK, GraphEdge
    <3> QED BY <2>4, <3>1, KeysOK
  <2>6. NodeKeysOf({nodes[k] : k \in done}) \subseteq NodeKey
    BY GraphKeysOK DEF NodesOfPackage
  <2>7. HistoryOK'
    BY <2>1, <2>5, <2>6 DEF IInv, HistoryOK
  <2> QED BY <2>2, <2>3, <2>7 DEF IInv, GraphOK, StoresOK
<1> QED BY <1>2, <1>3 DEF RemovePackage

\* What the structure removal leaves is well-formed: the nodes it forgets are folders
\* and files of one tree, and every edge into them is one of the edges it drops.
LEMMA StructureRemovalOK ==
  ASSUME IInv, NEW r \in RepoIDs
  PROVE  LET gone == StructureNodes(r)
         IN  GraphOK([i \in NodeIDs |-> IF nodeMap[i] \in gone THEN 0 ELSE nodeMap[i]],
                     [k \in NumIDs |-> IF k \in gone THEN NoNode ELSE nodes[k]],
                     (edges \ StructureEdges(r)) \ OutEdges(gone),
                     nextNodeID)
<1> DEFINE gone == StructureNodes(r)
           nm == [i \in NodeIDs |-> IF nodeMap[i] \in gone THEN 0 ELSE nodeMap[i]]
           ns == [k \in NumIDs |-> IF k \in gone THEN NoNode ELSE nodes[k]]
           es == (edges \ StructureEdges(r)) \ OutEdges(gone)
<1>1. GraphOK(nodeMap, nodes, edges, nextNodeID)
  BY DEF IInv
<1>2. \A k \in gone : /\ k \in NumIDs
                      /\ nodes[k] \in Node
                      /\ nodes[k].type \in StructureKinds
                      /\ nodes[k].repo = r
                      /\ nodeMap[nodes[k].id] = k
  BY <1>1 DEF StructureNodes, IsStructureOwned, GraphOK
<1>3. \A k \in gone : KindOf[nodes[k].id] \in StructureKinds /\ RepoOf[nodes[k].id] = r
  BY <1>2 DEF Node, StructureKinds, Home
<1>4. ASSUME NEW x \in es
      PROVE  x.fromID \notin gone /\ x.toID \notin gone
  <2>1. x \in edges /\ x \notin StructureEdges(r) /\ x.fromID \notin gone
    BY DEF OutEdges
  <2>2. /\ x.edge \in Edge
        /\ x.toID = nodeMap[x.edge.to] /\ x.fromID = nodeMap[x.edge.from]
        /\ x.toID \in NumIDs /\ x.fromID \in NumIDs
    BY <2>1, <1>1 DEF GraphOK, GraphEdge
  <2>3. x.edge.from \in NodeIDs /\ x.edge.to \in NodeIDs
    BY <2>2 DEF Edge
  <2>4. ASSUME x.toID \in gone
        PROVE  x \in StructureEdges(r)
    <3>1. x.edge.to = nodes[x.toID].id
      <4>1. nodes[x.toID].id \in NodeIDs /\ nodeMap[nodes[x.toID].id] = x.toID
        BY <2>4, <1>2 DEF Node
      <4>2. nodeMap[x.edge.to] # 0 /\ nodeMap[x.edge.to] = nodeMap[nodes[x.toID].id]
        BY <4>1, <2>2 DEF NumIDs
      <4> QED BY <4>1, <4>2, <2>3, <1>1 DEF GraphOK
    <3>2. /\ x.edge.type = "CONTAINS"
          /\ x.edge.repo = r
          /\ KindOf[x.edge.from] \in {"REPO", "FOLDER"}
      BY <3>1, <2>2, <2>4, <1>3 DEF Edge
    <3>3. Known(x.edge.from) /\ NodeAt(x.edge.from) = nodes[x.fromID]
      BY <2>2 DEF Known, NodeAt, NumIDs
    <3>4. nodes[x.fromID] # NoNode
      BY <3>2, <2>2, <2>3, <1>1 DEF GraphOK, NumIDs
    <3>5. nodes[x.fromID] \in Node /\ nodes[x.fromID].id = x.edge.from
      <4>1. nodes[x.fromID] \in Node /\ nodeMap[nodes[x.fromID].id] = x.fromID
        BY <3>4, <2>2, <1>1 DEF GraphOK
      <4>2. nodes[x.fromID].id \in NodeIDs
        BY <4>1 DEF Node
      <4>3. nodeMap[x.edge.from] # 0
        BY <2>2 DEF NumIDs
      <4> QED BY <4>1, <4>2, <4>3, <2>2, <2>3, <1>1 DEF GraphOK
    <3>6. nodes[x.fromID].type \in {"REPO", "FOLDER"}
      BY <3>2, <3>5 DEF Node
    <3>7. IsStructureEndpoint(x.edge.from)
      BY <3>3, <3>4, <3>6 DEF IsStructureEndpoint, Live
    <3> QED BY <2>1, <3>2, <3>7 DEF StructureEdges
  <2> QED BY <2>1, <2>4
<1>5. nm \in [NodeIDs -> 0..MaxNodeID]
  BY <1>1, GraphAssumption DEF GraphOK, GraphAssumption
<1>6. ns \in [NumIDs -> Node \cup {NoNode}]
  BY <1>1 DEF GraphOK
<1>7. /\ \A i \in NodeIDs : nm[i] <= nextNodeID
      /\ \A i, j \in NodeIDs : nm[i] # 0 /\ nm[i] = nm[j] => i = j
  BY <1>1, GraphAssumption DEF GraphOK, GraphAssumption
<1>8. \A k \in NumIDs : ns[k] # NoNode => nm[ns[k].id] = k
  <2>1. \A k \in NumIDs : nodes[k] # NoNode => nodes[k].id \in NodeIDs
    BY <1>1 DEF GraphOK, Node
  <2> QED BY <2>1, <1>1 DEF GraphOK
<1>9. ASSUME NEW x \in es
      PROVE  x.fromID = nm[x.edge.from] /\ x.toID = nm[x.edge.to] /\ x \in GraphEdge
  <2>1. x \in GraphEdge /\ x.toID = nodeMap[x.edge.to] /\ x.fromID = nodeMap[x.edge.from]
    BY <1>1 DEF GraphOK
  <2>2. x.edge.from \in NodeIDs /\ x.edge.to \in NodeIDs
    BY <2>1 DEF GraphEdge, Edge
  <2> QED BY <2>1, <2>2, <1>4
<1>10. \A i \in NodeIDs : KindOf[i] # "FUNC" /\ nm[i] # 0 => ns[nm[i]] # NoNode
  <2>1. \A i \in NodeIDs : nm[i] # 0 => nm[i] = nodeMap[i] /\ nm[i] \in NumIDs /\ nm[i] \notin gone
    BY <1>5, GraphAssumption DEF NumIDs, GraphAssumption
  <2> QED BY <2>1, <1>1 DEF GraphOK
<1> HIDE DEF nm, ns, es
<1>11. GraphOK(nm, ns, es, nextNodeID)
  BY <1>1, <1>5, <1>6, <1>7, <1>8, <1>9, <1>10 DEF GraphOK
<1> QED BY <1>11 DEF nm, ns, es

LEMMA ReplaceRepositoryStructureOK ==
  ASSUME IInv, NEW res \in StructureResults, ReplaceRepositoryStructure(res)
  PROVE  IInv'
<1>1. res \in ParseResult /\ res.repo \in RepoIDs
  BY GraphAssumption DEF GraphAssumption, StructureResult, ParseResult
<1>2. GraphOK(nodeMap, nodes, edges, nextNodeID) /\ StoresOK(nodeStore, edgeStore)
  BY DEF IInv
<1>3. CASE ReplaceStructureFailsOnRemoval(res)
  <2> DEFINE owned == {nodes[k] : k \in StructureNodes(res.repo)}
  <2>1. NodeKeysOf(owned) \subseteq NodeKey
    BY GraphKeysOK DEF StructureNodes
  <2>2. CASE \E done \in SUBSET owned :
               /\ nodeStore' = DeleteNodes(nodeStore, done)
               /\ tornNodes' = tornNodes \cup NodeKeysOf(done)
               /\ UNCHANGED <<memory, registered, edgeStore, loaded, tornEdges, parked>>
    <3>1. PICK done \in SUBSET owned :
               /\ nodeStore' = DeleteNodes(nodeStore, done)
               /\ tornNodes' = tornNodes \cup NodeKeysOf(done)
               /\ UNCHANGED <<memory, registered, edgeStore, loaded, tornEdges, parked>>
      BY <2>2
    <3>2. NodeKeysOf(done) \subseteq NodeKey
      BY <2>1, <3>1 DEF NodeKeysOf
    <3>3. GraphOK(nodeMap', nodes', edges', nextNodeID')
      BY <3>1, <1>2 DEF memory
    <3>4. StoresOK(nodeStore', edgeStore')
      BY <3>1, <1>2, DeleteNodesOK
    <3>5. HistoryOK'
      BY <3>1, <3>2 DEF IInv, HistoryOK
    <3> QED BY <3>3, <3>4, <3>5 DEF IInv, GraphOK, StoresOK
  <2>3. CASE \E done \in SUBSET StructureEdges(res.repo) :
               \E cur \in StructureEdges(res.repo) \ done :
                 \E part \in SUBSET AllVersions({cur.edge}) :
                   LET keys == AllVersions({x.edge : x \in done}) \cup part
                   IN  /\ nodeStore' = DeleteNodes(nodeStore, owned)
                       /\ edgeStore' = DeleteEdges(edgeStore, keys)
                       /\ edges' = edges \ done
                       /\ tornNodes' = tornNodes \cup NodeKeysOf(owned)
                       /\ tornEdges' = (tornEdges \ KeysOf({x.edge : x \in done}))
                                         \cup KeysOf({d.edge : d \in part})
                       /\ UNCHANGED <<nodeMap, nodes, nextNodeID, registered, loaded, parked>>
    <3>1. PICK done \in SUBSET StructureEdges(res.repo), cur \in StructureEdges(res.repo) :
                 \E part \in SUBSET AllVersions({cur.edge}) :
                   LET keys == AllVersions({x.edge : x \in done}) \cup part
                   IN  /\ nodeStore' = DeleteNodes(nodeStore, owned)
                       /\ edgeStore' = DeleteEdges(edgeStore, keys)
                       /\ edges' = edges \ done
                       /\ tornNodes' = tornNodes \cup NodeKeysOf(owned)
                       /\ tornEdges' = (tornEdges \ KeysOf({x.edge : x \in done}))
                                         \cup KeysOf({d.edge : d \in part})
                       /\ UNCHANGED <<nodeMap, nodes, nextNodeID, registered, loaded, parked>>
      BY <2>3
    <3>2. PICK part \in SUBSET AllVersions({cur.edge}) :
                 LET keys == AllVersions({x.edge : x \in done}) \cup part
                 IN  /\ nodeStore' = DeleteNodes(nodeStore, owned)
                     /\ edgeStore' = DeleteEdges(edgeStore, keys)
                     /\ edges' = edges \ done
                     /\ tornNodes' = tornNodes \cup NodeKeysOf(owned)
                     /\ tornEdges' = (tornEdges \ KeysOf({x.edge : x \in done}))
                                       \cup KeysOf({d.edge : d \in part})
                     /\ UNCHANGED <<nodeMap, nodes, nextNodeID, registered, loaded, parked>>
      BY <3>1
    <3>3. {d.edge : d \in part} \subseteq {cur.edge} /\ cur.edge \in Edge
      BY <3>1, <1>2 DEF AllVersions, StructureEdges, GraphOK, GraphEdge
    <3>4. KeysOf({d.edge : d \in part}) \subseteq EdgeKey
      BY <3>3, KeysOK
    <3>5. GraphOK(nodeMap', nodes', edges', nextNodeID')
      BY <3>2, <1>2 DEF GraphOK
    <3>6. StoresOK(nodeStore', edgeStore')
      BY <3>2, <1>2, DeleteNodesOK, DeleteEdgesOK
    <3>7. HistoryOK'
      BY <3>2, <3>4, <2>1 DEF IInv, HistoryOK
    <3> QED BY <3>5, <3>6, <3>7 DEF IInv, GraphOK, StoresOK
  <2> QED BY <1>3, <2>2, <2>3 DEF ReplaceStructureFailsOnRemoval
<1>4. CASE ~ReplaceStructureFailsOnRemoval(res)
  <2> DEFINE gone  == StructureNodes(res.repo)
             owned == {nodes[k] : k \in gone}
             out   == StructureEdges(res.repo)
             nm  == [i \in NodeIDs |-> IF nodeMap[i] \in gone THEN 0 ELSE nodeMap[i]]
             ns  == [k \in NumIDs |-> IF k \in gone THEN NoNode ELSE nodes[k]]
             es  == (edges \ out) \ OutEdges(gone)
             nst == DeleteNodes(nodeStore, owned)
             est == DeleteEdges(edgeStore, AllVersions({x.edge : x \in out}))
  <2>1. GraphOK(nm, ns, es, nextNodeID)
    BY <1>1, StructureRemovalOK
  <2>2. StoresOK(nst, est)
    BY <1>2, DeleteNodesOK, DeleteEdgesOK
  <2>3. \/ MergeSucceeds(res, nm, ns, es, nst, est)
        \/ MergeFailsOnNodes(res, nm, ns, es, nst, est)
        \/ MergeFailsOnEdges(res, nm, ns, es, nst, est)
    BY <1>4 DEF ReplaceRepositoryStructure
  <2>4. HistoryOK
    BY DEF IInv
  <2> HIDE DEF nm, ns, es, nst, est
  <2> QED BY <1>1, <2>1, <2>2, <2>3, <2>4,
             MergeSucceedsOK, MergeFailsOnNodesOK, MergeFailsOnEdgesOK
<1> QED BY <1>3, <1>4

-----------------------------------------------------------------------------
(* The theorems.                                                           *)

LEMMA NextOK == IInv /\ [Next]_vars => IInv'
<1> SUFFICES ASSUME IInv, [Next]_vars PROVE IInv'
  OBVIOUS
<1>1. GraphOK(nodeMap, nodes, edges, nextNodeID) /\ StoresOK(nodeStore, edgeStore) /\ HistoryOK
  BY DEF IInv
<1>2. CASE NewGraph
  <2>1. GraphOK(nodeMap', nodes', edges', nextNodeID')
    BY <1>2, EmptyGraphOK DEF NewGraph
  <2>2. StoresOK(nodeStore', edgeStore')
    BY <1>1, <1>2 DEF NewGraph, stores
  <2> QED BY <1>2, <2>1, <2>2 DEF NewGraph, IInv, GraphOK, StoresOK, HistoryOK
<1>3. CASE LoadFromStorages
  BY <1>3, LoadFromStoragesOK
<1>4. ASSUME NEW r \in RepoIDs, SetRepoStore(r) PROVE IInv'
  BY <1>4 DEF SetRepoStore, memory, stores, history, IInv, GraphOK, StoresOK, HistoryOK
<1>5. ASSUME NEW n \in SingleNodes, AddNode(n) PROVE IInv'
  BY <1>5, AddNodeOK
<1>6. ASSUME NEW e \in SingleEdges, AddEdge(e) PROVE IInv'
  BY <1>6, AddEdgeOK
<1>7. ASSUME NEW res \in ParseResults, BuildFromParseResults(res) PROVE IInv'
  <2>1. res \in ParseResult
    BY GraphAssumption DEF GraphAssumption
  <2> QED BY <1>1, <1>7, <2>1, MergeSucceedsOK, MergeFailsOnNodesOK, MergeFailsOnEdgesOK
          DEF BuildFromParseResults
<1>8. ASSUME NEW p \in PkgPaths, RemovePackage(p) PROVE IInv'
  BY <1>8, RemovePackageOK
<1>9. ASSUME NEW res \in StructureResults, ReplaceRepositoryStructure(res) PROVE IInv'
  BY <1>9, ReplaceRepositoryStructureOK
<1>10. CASE UNCHANGED vars
  BY <1>10 DEF vars, memory, stores, history, IInv, GraphOK, StoresOK, HistoryOK
<1> QED BY <1>2, <1>3, <1>4, <1>5, <1>6, <1>7, <1>8, <1>9, <1>10 DEF Next

\* The strengthened invariant holds in every reachable state.
THEOREM Inductive == Spec => []IInv
BY InitOK, NextOK, PTL DEF Spec

\* Every variable of the graph and of its stores keeps its type.
THEOREM TypeCorrect == Spec => []TypeOK
<1>1. IInv => TypeOK
  BY DEF IInv, GraphOK, StoresOK, HistoryOK, TypeOK
<1> QED BY Inductive, <1>1, PTL

\* Numeric ids are unique, within the counter, and every node sits in its own slot.
THEOREM IndexIsConsistent == Spec => []IndexConsistent
<1>1. IInv => IndexConsistent
  BY DEF IInv, GraphOK, IndexConsistent, Known
<1> QED BY Inductive, <1>1, PTL

\* Every edge stays filed under the ids its endpoints have now, through merges,
\* removals, failures and replacements of the folder tree that forget numeric ids.
THEOREM EdgesResolve == Spec => []EdgeEndpointsResolve
<1>1. IInv => EdgeEndpointsResolve
  BY DEF IInv, GraphOK, EdgeEndpointsResolve
<1> QED BY Inductive, <1>1, PTL

-----------------------------------------------------------------------------
(***************************************************************************)
(* Memory and stores agree, and no edge is doubled or left behind.         *)
(*                                                                         *)
(* IInv gives the shape of the graph and of the stores; SInv relates them. *)
(* Its parts take the graph, the stores and the history as arguments,      *)
(* since a replacement of the folder tree merges its result into what its  *)
(* own removal leaves.                                                     *)
(***************************************************************************)


OneOfAType(es) == \A x, y \in es : SameKey(x.edge, y.edge) => x = y
SourcesLive(ns, es) == \A x \in es : ns[x.fromID] # NoNode

\* Every call site of e is in the store, under one version of its key or another.
HeldIn(est, e) ==
  /\ \E t \in est[e.repo] : SameKey(t.edge, e)
  /\ \A i \in e.sites : \E t \in est[e.repo] : SameKey(t.edge, e) /\ i \in t.edge.sites
InMemory(es, e) == \E x \in es : SameKey(x.edge, e) /\ e.sites \subseteq x.edge.sites

NodesDurable(ns, nst, tn) ==
  \A k \in NumIDs :
    ns[k] # NoNode => \/ nst[ns[k].repo][ns[k].id] = ns[k]
                      \/ [repo |-> ns[k].repo, id |-> ns[k].id] \in tn
EdgesDurable(es, est, te) ==
  \A x \in es : KeyOf(x.edge) \in te \/ HeldIn(est, x.edge)

NodesGone(nm, ns, nst, tn) ==
  \A r \in RepoIDs, i \in NodeIDs :
    \/ nst[r][i] = NoNode
    \/ nst[r][i].type = "BOUNDARY"
    \/ [repo |-> r, id |-> i] \in tn
    \/ nm[i] # 0 /\ ns[nm[i]] # NoNode /\ ns[nm[i]].type # "BOUNDARY"

\* Stronger than what a reader is promised: a failed call leaves only v3 keys undecided,
\* for nothing else is written, so an old key is covered even by a key torn meanwhile.
EdgesGone(es, est, te, pk) ==
  \A r \in RepoIDs : \A s \in est[r] :
    \/ s.ver = "v3" /\ KeyOf(s.edge) \in te
    \/ KeyOf(s.edge) \in pk
    \/ InMemory(es, s.edge)

Agree(nm, ns, es, nst, est, ld, tn, te, pk) ==
  /\ OneOfAType(es)
  /\ SourcesLive(ns, es)
  /\ NodesDurable(ns, nst, tn)
  /\ EdgesDurable(es, est, te)
  /\ ld => NodesGone(nm, ns, nst, tn) /\ EdgesGone(es, est, te, pk)

SInv == Agree(nodeMap, nodes, edges, nodeStore, edgeStore, loaded, tornNodes, tornEdges, parked)

-----------------------------------------------------------------------------
(* Staging and filing edges.                                               *)

\* The key of an edge tells its repository, which is the one of its source.
LEMMA KeyTellsRepo ==
  \A a, b \in Edge : /\ SameKey(a, b) => a.repo = b.repo /\ KeyOf(a) = KeyOf(b)
                     /\ KeyOf(a) = KeyOf(b) => SameKey(a, b)
BY DEF Edge, SameKey, KeyOf

\* findEdgeByType finds exactly the edge with the same key.
LEMMA FindIsSameKey ==
  ASSUME NEW nm, NEW ns, NEW es, NEW next, GraphOK(nm, ns, es, next),
         NEW e \in Edge, nm[e.from] # 0, nm[e.to] # 0, NEW x \in es
  PROVE  x \in FindEdgeByType(es, nm, e) <=> SameKey(x.edge, e)
<1>1. /\ x.edge \in Edge /\ x.fromID = nm[x.edge.from] /\ x.toID = nm[x.edge.to]
      /\ x.edge.from \in NodeIDs /\ x.edge.to \in NodeIDs
      /\ e.from \in NodeIDs /\ e.to \in NodeIDs
  BY DEF GraphOK, GraphEdge, Edge
<1>2. /\ nm[e.from] = nm[x.edge.from] => e.from = x.edge.from
      /\ nm[e.to] = nm[x.edge.to] => e.to = x.edge.to
  BY <1>1 DEF GraphOK
<1> QED BY <1>1, <1>2 DEF FindEdgeByType, SameKey

\* A staged edge has the key of the edges it stands for, and all their call sites.
LEMMA StageEdgeKeepsKey ==
  ASSUME NEW nm, NEW ns, NEW es, NEW next, GraphOK(nm, ns, es, next), OneOfAType(es),
         NEW E, E \subseteq Edge, NEW res, res.edges = E,
         NEW e \in Resolved(res, nm)
  PROVE  LET s == StageEdge(e, res, nm, es)
         IN  /\ SameKey(s, e)
             /\ e.sites \subseteq s.sites
             /\ \A x \in es : SameKey(x.edge, e) => x.edge.sites \subseteq s.sites
             /\ \A f \in Resolved(res, nm) : SameKey(f, e) => StageEdge(f, res, nm, es) = s
<1> DEFINE same == {d \in Resolved(res, nm) : SameKey(d, e)}
           found == FindEdgeByType(es, nm, e)
           old  == {x.edge : x \in found}
           base == IF old # {} THEN CHOOSE d \in old : TRUE ELSE CHOOSE d \in same : TRUE
           s    == [base EXCEPT !.sites = @ \cup SitesOf(same)]
<1>1. same \subseteq Edge /\ e \in same /\ nm[e.from] # 0 /\ nm[e.to] # 0 /\ e \in Edge
  BY DEF Resolved, SameKey
<1>2. \A x \in es : x \in found <=> SameKey(x.edge, e)
  BY <1>1, FindIsSameKey
<1>3. found \subseteq es
  BY DEF FindEdgeByType
<1>4. \A x \in es : x.edge \in Edge
  BY DEF GraphOK, GraphEdge
<1>5. /\ base \in Edge /\ SameKey(base, e)
      /\ \A x \in found : base = x.edge
  <2>1. CASE old # {}
    <3>1. base = CHOOSE d \in old : TRUE
      BY <2>1
    <3>2. base \in old
      BY <2>1, <3>1
    <3>3. PICK x \in found : base = x.edge
      BY <3>2
    <3>4. \A y \in found : y = x
      BY <1>2, <1>3 DEF OneOfAType, SameKey
    <3> QED BY <3>3, <3>4, <1>2, <1>3, <1>4
  <2>2. CASE old = {}
    <3>1. base = CHOOSE d \in same : TRUE
      BY <2>2
    <3>2. base \in same
      BY <1>1, <3>1
    <3>3. found = {}
      BY <2>2
    <3> QED BY <3>2, <3>3, <1>1
  <2> QED BY <2>1, <2>2
<1>6. e.sites \subseteq SitesOf(same)
  BY <1>1 DEF SitesOf
<1>7. StageEdge(e, res, nm, es) = s
  BY DEF StageEdge
<1>8. ASSUME NEW f \in Resolved(res, nm), SameKey(f, e)
      PROVE  StageEdge(f, res, nm, es) = s
  <2>1. FindEdgeByType(es, nm, f) = found
    BY <1>8 DEF FindEdgeByType, SameKey
  <2>2. {d \in Resolved(res, nm) : SameKey(d, f)} = same
    BY <1>8 DEF SameKey
  <2> DEFINE pick(ol, sm) == IF ol # {} THEN CHOOSE d \in ol : TRUE ELSE CHOOSE d \in sm : TRUE
             made(ol, sm) == [pick(ol, sm) EXCEPT !.sites = @ \cup SitesOf(sm)]
             oldf == {x.edge : x \in FindEdgeByType(es, nm, f)}
             samef == {d \in Resolved(res, nm) : SameKey(d, f)}
  <2>3. StageEdge(f, res, nm, es) = made(oldf, samef) /\ s = made(old, same)
    BY DEF StageEdge
  <2>4. oldf = old /\ samef = same
    BY <2>1, <2>2
  <2> HIDE DEF made, oldf, samef, old, same, s
  <2> QED BY <2>3, <2>4
<1> HIDE DEF base, same, found, old
<1>9. s.from = base.from /\ s.to = base.to /\ s.type = base.type
      /\ s.sites = base.sites \cup SitesOf(same)
  BY <1>5 DEF Edge
<1> HIDE DEF s
<1>10. SameKey(s, e)
  BY <1>5, <1>9 DEF SameKey
<1> QED BY <1>2, <1>5, <1>6, <1>7, <1>8, <1>9, <1>10

\* Filing the staged edges loses no edge, adds only staged ones and doubles none.
LEMMA FileEdgesKeeps ==
  ASSUME NEW nm, NEW ns, NEW es, NEW next, GraphOK(nm, ns, es, next), OneOfAType(es),
         NEW E, E \subseteq Edge, NEW res, res.edges = E
  PROVE  LET staged == StagedEdges(res, nm, es)
             es2 == FileEdges(es, nm, staged)
         IN  /\ OneOfAType(es2)
             /\ \A x \in es : \E y \in es2 : /\ SameKey(x.edge, y.edge)
                                           /\ x.edge.sites \subseteq y.edge.sites
                                           /\ x.fromID = y.fromID
             /\ \A y \in es2 : \/ y \in es /\ \A s \in staged : ~SameKey(y.edge, s)
                               \/ y.edge \in staged /\ y.fromID = nm[y.edge.from]
             /\ \A s \in staged : \E y \in es2 : y.edge = s
             /\ \A s, t \in staged : SameKey(s, t) => s = t
             /\ \A s \in staged : s \in Edge /\ nm[s.from] # 0 /\ nm[s.to] # 0
<1> DEFINE staged == StagedEdges(res, nm, es)
           es2 == FileEdges(es, nm, staged)
           filed(s) == [fromID |-> nm[s.from], toID |-> nm[s.to], edge |-> s]
<1>1. \A s \in staged : s \in Edge /\ nm[s.from] # 0 /\ nm[s.to] # 0
  BY StageEdgeOK DEF StagedEdges
<1>2. ASSUME NEW s \in staged, NEW x \in es
      PROVE  /\ x \in FindEdgeByType(es, nm, s) <=> SameKey(x.edge, s)
             /\ SameKey(x.edge, s) => x.edge.sites \subseteq s.sites
  <2>1. PICK e \in Resolved(res, nm) : s = StageEdge(e, res, nm, es)
    BY DEF StagedEdges
  <2>2. SameKey(s, e) /\ (SameKey(x.edge, e) => x.edge.sites \subseteq s.sites)
    BY <2>1, StageEdgeKeepsKey
  <2>3. SameKey(x.edge, s) => SameKey(x.edge, e)
    BY <2>2 DEF SameKey
  <2> QED BY <2>2, <2>3, <1>1, FindIsSameKey
<1>3. ASSUME NEW s \in staged, NEW t \in staged, SameKey(s, t)
      PROVE  s = t
  <2>1. PICK e \in Resolved(res, nm), f \in Resolved(res, nm) :
          s = StageEdge(e, res, nm, es) /\ t = StageEdge(f, res, nm, es)
    BY DEF StagedEdges
  <2>2. SameKey(s, e) /\ SameKey(t, f)
    BY <2>1, StageEdgeKeepsKey
  <2>3. SameKey(f, e)
    BY <2>2, <1>3 DEF SameKey
  <2> QED BY <2>1, <2>3, StageEdgeKeepsKey
<1>4. ASSUME NEW y \in es2
      PROVE  \/ y \in es /\ \A s \in staged : ~SameKey(y.edge, s)
             \/ y.edge \in staged /\ y = filed(y.edge)
  <2>1. CASE \E s \in staged : y = filed(s)
    BY <2>1
  <2>2. CASE y \in es /\ ~\E s \in staged : y \in FindEdgeByType(es, nm, s)
    BY <2>2, <1>2
  <2> QED BY <2>1, <2>2 DEF FileEdges
<1>5. \A s \in staged : filed(s) \in es2 /\ filed(s).edge = s
  BY DEF FileEdges
<1>6. ASSUME NEW x \in es
      PROVE  \E y \in es2 : /\ SameKey(x.edge, y.edge)
                             /\ x.edge.sites \subseteq y.edge.sites
                             /\ x.fromID = y.fromID
  <2>1. CASE \E s \in staged : x \in FindEdgeByType(es, nm, s)
    <3>1. PICK s \in staged : x \in FindEdgeByType(es, nm, s)
      BY <2>1
    <3>2. x.fromID = nm[s.from]
      BY <3>1 DEF FindEdgeByType
    <3>3. SameKey(x.edge, s) /\ x.edge.sites \subseteq s.sites
      BY <3>1, <1>2
    <3>4. PICK y \in es2 : y = filed(s) /\ y.edge = s /\ y.fromID = nm[s.from]
      BY <1>5
    <3> QED BY <3>2, <3>3, <3>4
  <2>2. CASE ~\E s \in staged : x \in FindEdgeByType(es, nm, s)
    <3>1. x \in es2
      BY <2>2 DEF FileEdges
    <3> HIDE DEF es2
    <3> QED BY <3>1 DEF SameKey
  <2> QED BY <2>1, <2>2
<1>7. ASSUME NEW x \in es2, NEW y \in es2, SameKey(x.edge, y.edge)
      PROVE  x = y
  <2>1. SameKey(y.edge, x.edge)
    BY <1>7 DEF SameKey
  <2> HIDE DEF es2, staged
  <2>2. CASE x \in es /\ y \in es
    BY <2>2, <1>7 DEF OneOfAType
  <2>3. CASE x.edge \in staged /\ y.edge \in staged /\ x = filed(x.edge) /\ y = filed(y.edge)
    BY <2>3, <1>3, <1>7
  <2> QED BY <2>1, <2>2, <2>3, <1>4, <1>7
<1> HIDE DEF es2, staged
<1>8. OneOfAType(es2)
  BY <1>7 DEF OneOfAType
<1>9. \A s \in staged : \E y \in es2 : y.edge = s
  BY <1>5
<1>10. /\ OneOfAType(es2)
       /\ \A x \in es : \E y \in es2 : /\ SameKey(x.edge, y.edge)
                                       /\ x.edge.sites \subseteq y.edge.sites
                                       /\ x.fromID = y.fromID
       /\ \A y \in es2 : \/ y \in es /\ \A s \in staged : ~SameKey(y.edge, s)
                         \/ y.edge \in staged /\ y.fromID = nm[y.edge.from]
       /\ \A s \in staged : \E y \in es2 : y.edge = s
       /\ \A s, t \in staged : SameKey(s, t) => s = t
       /\ \A s \in staged : s \in Edge /\ nm[s.from] # 0 /\ nm[s.to] # 0
  BY <1>1, <1>3, <1>4, <1>6, <1>8, <1>9
<1> QED BY <1>10 DEF es2, staged

\* What persistStagedEdges writes when it does not fail: every staged edge that is new
\* or changed, and otherwise only edges without both ends.
LEMMA WrittenEdges ==
  ASSUME NEW nm, NEW ns, NEW es, NEW next, GraphOK(nm, ns, es, next), OneOfAType(es),
         NEW E, E \subseteq Edge, NEW res, res.edges = E,
         NEW w, w \in Written(EdgeWrites(res, nm, es)),
         KeysOf(w) = KeysOf(EdgeWrites(res, nm, es))
  PROVE  LET staged == StagedEdges(res, nm, es)
         IN  /\ w \subseteq Edge
             /\ \A s \in staged : s \in w \/ s \in {x.edge : x \in es}
             /\ \A e \in w : \/ e \in staged
                             \/ e \in res.edges \ Resolved(res, nm)
<1> DEFINE staged == StagedEdges(res, nm, es)
           W == EdgeWrites(res, nm, es)
<1>1. /\ \A s, t \in staged : SameKey(s, t) => s = t
      /\ \A s \in staged : s \in Edge /\ nm[s.from] # 0 /\ nm[s.to] # 0
  BY FileEdgesKeeps
<1>2. W = (res.edges \ Resolved(res, nm)) \cup (staged \ {x.edge : x \in es})
  BY DEF EdgeWrites
<1>3. w \subseteq W /\ W \subseteq Edge
  BY <1>1, <1>2 DEF Written
<1> HIDE DEF staged, W
<1>4. ASSUME NEW s \in staged, s \notin {x.edge : x \in es}
      PROVE  s \in w
  <2>1. s \in W
    BY <1>2, <1>4
  <2>2. KeyOf(s) \in KeysOf(w)
    BY <2>1 DEF KeysOf, W
  <2>3. PICK e \in w : KeyOf(e) = KeyOf(s)
    BY <2>2 DEF KeysOf
  <2>4. SameKey(e, s)
    BY <2>3, <1>1, <1>3, KeyTellsRepo
  <2>5. e \notin res.edges \ Resolved(res, nm)
    BY <2>4, <1>1 DEF Resolved, SameKey
  <2> QED BY <2>4, <2>5, <1>1, <1>2, <1>3
<1>5. /\ w \subseteq Edge
      /\ \A s \in staged : s \in w \/ s \in {x.edge : x \in es}
      /\ \A e \in w : e \in staged \/ e \in res.edges \ Resolved(res, nm)
  BY <1>2, <1>3, <1>4
<1> QED BY <1>5 DEF staged

-----------------------------------------------------------------------------
(* What writing and deleting edge keys does to the agreement.              *)

\* The keys after a write: the new values, and the old ones under other keys.
LEMMA PutEdgesHas ==
  ASSUME NEW est, NEW W, W \subseteq Edge, NEW r \in RepoIDs
  PROVE  /\ \A t \in PutEdges(est, W)[r] :
              \/ /\ t \in est[r]
                 /\ t.ver = "v3" /\ r \in registered
                      => ~\E e \in W : e.repo = r /\ SameKey(t.edge, e)
              \/ \E e \in W : e.repo = r /\ t = [ver |-> "v3", edge |-> e]
         /\ \A t \in est[r] : (~\E e \in W : e.repo = r /\ SameKey(t.edge, e))
                                => t \in PutEdges(est, W)[r]
         /\ r \in registered =>
              \A e \in W : e.repo = r => [ver |-> "v3", edge |-> e] \in PutEdges(est, W)[r]
BY DEF PutEdges

\* An edge none of the writes has the key of is held as before.
LEMMA HeldAfterPut ==
  ASSUME NEW est, NEW W, W \subseteq Edge, NEW y \in Edge, HeldIn(est, y),
         \A e \in W : ~SameKey(e, y)
  PROVE  HeldIn(PutEdges(est, W), y)
<1>1. y.repo \in RepoIDs
  BY DEF Edge
<1>2. \A t \in est[y.repo] : SameKey(t.edge, y) => t \in PutEdges(est, W)[y.repo]
  <2>1. \A t \in est[y.repo] : SameKey(t.edge, y) => \A e \in W : ~SameKey(t.edge, e)
    BY DEF SameKey
  <2> QED BY <2>1, <1>1, PutEdgesHas
<1> QED BY <1>2 DEF HeldIn

\* Memory and store agree on the edges after a merge that wrote all it had to.
LEMMA MergedEdgesAgree ==
  ASSUME NEW nm, NEW ns, NEW es, NEW next, GraphOK(nm, ns, es, next), OneOfAType(es),
         NEW nst, NEW est, StoresOK(nst, est),
         NEW E, E \subseteq Edge, NEW res, res.edges = E,
         \A e \in E : e.repo \in registered,
         NEW w, w \in Written(EdgeWrites(res, nm, es)),
         KeysOf(w) = KeysOf(EdgeWrites(res, nm, es)),
         NEW te, EdgesDurable(es, est, te)
  PROVE  LET es2 == FileEdges(es, nm, StagedEdges(res, nm, es))
             est2 == PutEdges(est, w)
             te2 == te \ KeysOf(EdgeWrites(res, nm, es))
         IN  /\ EdgesDurable(es2, est2, te2)
             /\ \A pk : EdgesGone(es, est, te, pk)
                  => EdgesGone(es2, est2, te2, pk \cup KeysOf(res.edges \ Resolved(res, nm)))
<1> DEFINE staged == StagedEdges(res, nm, es)
           es2 == FileEdges(es, nm, staged)
           W == EdgeWrites(res, nm, es)
           est2 == PutEdges(est, w)
           te2 == te \ KeysOf(W)
           apart == res.edges \ Resolved(res, nm)
<1>1. /\ OneOfAType(es2)
      /\ \A x \in es : \E y \in es2 : SameKey(x.edge, y.edge) /\ x.edge.sites \subseteq y.edge.sites
      /\ \A y \in es2 : y \in es \/ y.edge \in staged
      /\ \A s \in staged : \E y \in es2 : y.edge = s
      /\ \A s, t \in staged : SameKey(s, t) => s = t
      /\ \A s \in staged : s \in Edge /\ nm[s.from] # 0 /\ nm[s.to] # 0
  BY FileEdgesKeeps
<1>2. /\ w \subseteq Edge
      /\ \A s \in staged : s \in w \/ s \in {x.edge : x \in es}
      /\ \A e \in w : e \in staged \/ e \in apart
  BY WrittenEdges
<1>3. GraphOK(nm, ns, es2, next)
  BY FileEdgesOK
<1>4. \A y \in es2 : /\ y.edge \in Edge /\ y.edge.repo \in RepoIDs
                     /\ nm[y.edge.from] # 0 /\ nm[y.edge.to] # 0
  BY <1>3 DEF GraphOK, GraphEdge, Edge, NumIDs
<1>5. \A e \in w : e.repo \in registered
  <2>1. ASSUME NEW s \in staged
        PROVE  s.repo \in registered
    <3>1. PICK e \in Resolved(res, nm) : s = StageEdge(e, res, nm, es)
      BY DEF StagedEdges
    <3>2. SameKey(s, e) /\ e \in E /\ e \in Edge
      BY <3>1, StageEdgeKeepsKey DEF Resolved
    <3> QED BY <3>2, <1>1, KeyTellsRepo
  <2> QED BY <2>1, <1>2
<1>6. \A e \in apart : nm[e.from] = 0 \/ nm[e.to] = 0
  BY DEF Resolved
<1> HIDE DEF es2, W, staged, est2, te2, apart
<1>7. ASSUME NEW e \in w, NEW y \in es2, SameKey(e, y.edge)
      PROVE  e = y.edge
  <2>1. e \in staged
    BY <1>2, <1>4, <1>6, <1>7 DEF SameKey
  <2>2. PICK z \in es2 : z.edge = e
    BY <2>1, <1>1
  <2> QED BY <2>2, <1>1, <1>7 DEF OneOfAType
<1>8. ASSUME NEW e \in w
      PROVE  [ver |-> "v3", edge |-> e] \in est2[e.repo]
  <2>1. e.repo \in RepoIDs /\ e.repo \in registered
    BY <1>2, <1>5 DEF Edge
  <2> QED BY <2>1, <1>2, PutEdgesHas DEF est2
<1>9. ASSUME NEW y \in es2, y.edge \in w
      PROVE  HeldIn(est2, y.edge)
  <2>1. PICK t \in est2[y.edge.repo] : t.edge = y.edge
    BY <1>8, <1>9
  <2> QED BY <2>1 DEF HeldIn, SameKey
<1>10. ASSUME NEW y \in es2
       PROVE  KeyOf(y.edge) \in te2 \/ HeldIn(est2, y.edge)
  <2>1. CASE y.edge \in w
    BY <2>1, <1>9
  <2>2. CASE y.edge \notin w
    <3>1. PICK x \in es : x.edge = y.edge
      BY <2>2, <1>1, <1>2
    <3>2. \A e \in w : ~SameKey(e, y.edge)
      BY <2>2, <1>7
    <3>3. KeyOf(y.edge) \notin KeysOf(W)
      <4>1. KeysOf(W) = KeysOf(w)
        BY DEF W
      <4>2. \A e \in w : KeyOf(e) # KeyOf(y.edge)
        BY <3>2, <1>2, <1>4, KeyTellsRepo
      <4> QED BY <4>1, <4>2 DEF KeysOf
    <3>4. KeyOf(y.edge) \in te \/ HeldIn(est, y.edge)
      BY <3>1 DEF EdgesDurable
    <3>5. CASE KeyOf(y.edge) \in te
      BY <3>3, <3>5 DEF te2
    <3>6. CASE HeldIn(est, y.edge)
      BY <3>2, <3>6, <1>2, <1>4, HeldAfterPut DEF est2
    <3> QED BY <3>4, <3>5, <3>6
  <2> QED BY <2>1, <2>2
<1>11. ASSUME NEW pk, EdgesGone(es, est, te, pk),
              NEW r \in RepoIDs, NEW s \in est2[r]
       PROVE  \/ s.ver = "v3" /\ KeyOf(s.edge) \in te2
              \/ KeyOf(s.edge) \in pk \cup KeysOf(apart)
              \/ InMemory(es2, s.edge)
  <2>1. CASE \E e \in w : e.repo = r /\ s = [ver |-> "v3", edge |-> e]
    <3>1. PICK e \in w : s.edge = e
      BY <2>1
    <3>2. CASE e \in apart
      BY <3>1, <3>2 DEF KeysOf
    <3>3. CASE e \in staged
      <4>1. PICK y \in es2 : y.edge = e
        BY <3>3, <1>1
      <4> QED BY <3>1, <4>1 DEF InMemory, SameKey
    <3> QED BY <3>2, <3>3, <1>2
  <2>2. CASE /\ s \in est[r]
             /\ s.ver = "v3" /\ r \in registered
                  => ~\E e \in w : e.repo = r /\ SameKey(s.edge, e)
    <3>0. s.edge \in Edge /\ s.edge.repo = r
      BY <2>2 DEF StoresOK, StoredEdge
    <3>1. CASE s.ver = "v3" /\ KeyOf(s.edge) \in te
      <4>1. KeyOf(s.edge) \notin KeysOf(w)
        <5> SUFFICES ASSUME NEW e \in w, KeyOf(e) = KeyOf(s.edge) PROVE FALSE
          BY DEF KeysOf
        <5>1. SameKey(s.edge, e) /\ e.repo = r
          BY <3>0, <1>2, KeyTellsRepo DEF KeyOf
        <5> QED BY <5>1, <2>2, <3>1, <1>5
      <4>2. KeysOf(W) = KeysOf(w)
        BY DEF W
      <4> QED BY <3>1, <4>1, <4>2 DEF te2
    <3>2. CASE KeyOf(s.edge) \in pk
      BY <3>2
    <3>3. CASE InMemory(es, s.edge)
      <4>1. PICK x \in es : SameKey(x.edge, s.edge) /\ s.edge.sites \subseteq x.edge.sites
        BY <3>3 DEF InMemory
      <4>2. PICK y \in es2 : SameKey(x.edge, y.edge) /\ x.edge.sites \subseteq y.edge.sites
        BY <1>1
      <4> QED BY <4>1, <4>2 DEF InMemory, SameKey
    <3> QED BY <2>2, <3>1, <3>2, <3>3, <1>11 DEF EdgesGone
  <2> QED BY <2>1, <2>2, <1>2, PutEdgesHas DEF est2
<1>12. EdgesDurable(es2, est2, te2)
  BY <1>10 DEF EdgesDurable
<1>13. \A pk : EdgesGone(es, est, te, pk) => EdgesGone(es2, est2, te2, pk \cup KeysOf(apart))
  BY <1>11 DEF EdgesGone
<1> QED BY <1>12, <1>13 DEF es2, est2, te2, W, staged, apart

\* Some of the edges of a merge are written and memory stays: their keys are torn.
LEMMA TornEdgesAgree ==
  ASSUME NEW es, \A x \in es : x.edge \in Edge,
         NEW nst, NEW est, StoresOK(nst, est),
         NEW w, w \subseteq Edge, \A e \in w : e.repo \in registered,
         NEW te, EdgesDurable(es, est, te)
  PROVE  /\ EdgesDurable(es, PutEdges(est, w), te \cup KeysOf(w))
         /\ \A pk : EdgesGone(es, est, te, pk)
              => EdgesGone(es, PutEdges(est, w), te \cup KeysOf(w), pk)
<1> DEFINE est2 == PutEdges(est, w)
           te2 == te \cup KeysOf(w)
<1>1. ASSUME NEW x \in es
      PROVE  KeyOf(x.edge) \in te2 \/ HeldIn(est2, x.edge)
  <2>1. CASE \E e \in w : SameKey(e, x.edge)
    BY <2>1, KeyTellsRepo DEF KeysOf
  <2>2. CASE ~\E e \in w : SameKey(e, x.edge)
    <3>1. KeyOf(x.edge) \in te \/ HeldIn(est, x.edge)
      BY DEF EdgesDurable
    <3> QED BY <3>1, <2>2, HeldAfterPut
  <2> QED BY <2>1, <2>2
<1>2. ASSUME NEW pk, EdgesGone(es, est, te, pk), NEW r \in RepoIDs, NEW s \in est2[r]
      PROVE  \/ s.ver = "v3" /\ KeyOf(s.edge) \in te2
             \/ KeyOf(s.edge) \in pk
             \/ InMemory(es, s.edge)
  <2>1. s \in est[r] \/ \E e \in w : s = [ver |-> "v3", edge |-> e]
    BY PutEdgesHas
  <2> QED BY <2>1, <1>2 DEF EdgesGone, KeysOf
<1> HIDE DEF est2, te2
<1>3. EdgesDurable(es, est2, te2)
  BY <1>1 DEF EdgesDurable
<1>4. \A pk : EdgesGone(es, est, te, pk) => EdgesGone(es, est2, te2, pk)
  BY <1>2 DEF EdgesGone
<1> QED BY <1>3, <1>4 DEF est2, te2

\* The edges X leave memory with every version of their keys; of other keys, those in
\* part are deleted by a call that fails later, and are torn.
LEMMA RemovedEdgesAgree ==
  ASSUME NEW es, \A x \in es : x.edge \in Edge, OneOfAType(es),
         NEW nst, NEW est, StoresOK(nst, est),
         NEW X, X \subseteq es, \A x \in X : x.edge.repo \in registered,
         NEW part,
         NEW te, EdgesDurable(es, est, te)
  PROVE  LET out == {x.edge : x \in X}
             est2 == DeleteEdges(est, AllVersions(out) \cup part)
             te2 == (te \ KeysOf(out)) \cup KeysOf({d.edge : d \in part})
         IN  /\ EdgesDurable(es \ X, est2, te2)
             /\ \A pk : EdgesGone(es, est, te, pk)
                  => EdgesGone(es \ X, est2, te2, pk \ KeysOf(out))
<1> DEFINE out == {x.edge : x \in X}
           D == AllVersions(out) \cup part
           est2 == DeleteEdges(est, D)
           te2 == (te \ KeysOf(out)) \cup KeysOf({d.edge : d \in part})
<1>0. \A r \in RepoIDs : \A s \in est[r] :
        \/ s \in est2[r]
        \/ \E d \in D : d.edge.repo = r /\ d.ver = s.ver /\ SameKey(s.edge, d.edge)
  <2> HIDE DEF D
  <2> QED BY DEF DeleteEdges
<1>1. \A r \in RepoIDs : \A s \in est[r] :
        s.edge \in Edge /\ s.edge.repo = r /\ s.ver \in KeyVersions
  BY DEF StoresOK, StoredEdge
<1>2. \A r \in RepoIDs : \A s \in est2[r] :
        /\ s \in est[r]
        /\ r \in registered =>
             ~\E d \in D : d.edge.repo = r /\ d.ver = s.ver /\ SameKey(s.edge, d.edge)
  BY DEF DeleteEdges
<1>3. \A d \in D : d.edge \in out \/ (d \in part /\ KeyOf(d.edge) \in te2)
  BY DEF AllVersions, KeysOf
<1>4. ASSUME NEW x \in es \ X
      PROVE  KeyOf(x.edge) \in te2 \/ HeldIn(est2, x.edge)
  <2>1. x.edge \in Edge /\ x.edge.repo \in RepoIDs
    BY DEF Edge
  <2>2. \A e \in out : ~SameKey(e, x.edge) /\ KeyOf(e) # KeyOf(x.edge)
    BY <2>1, KeyTellsRepo DEF OneOfAType
  <2>3. KeyOf(x.edge) \in te => KeyOf(x.edge) \in te2
    BY <2>2 DEF KeysOf
  <2>4. CASE HeldIn(est, x.edge) /\ KeyOf(x.edge) \notin te2
    <3>1. ASSUME NEW t \in est[x.edge.repo], SameKey(t.edge, x.edge)
          PROVE  t \in est2[x.edge.repo]
      <4>1. t.edge \in Edge /\ KeyOf(t.edge) = KeyOf(x.edge)
        <5>1. t.edge \in Edge
          BY <2>1, <1>1
        <5> QED BY <5>1, <2>1, <3>1, KeyTellsRepo
      <4>2. SUFFICES ASSUME NEW d \in D, d.edge.repo = x.edge.repo, SameKey(t.edge, d.edge)
                     PROVE  FALSE
        BY <2>1, <1>0
      <4>3. SameKey(d.edge, x.edge)
        BY <3>1, <4>2 DEF SameKey
      <4>4. KeyOf(d.edge) = KeyOf(x.edge)
        BY <4>2, <4>3 DEF KeyOf, SameKey
      <4> QED BY <4>3, <4>4, <2>2, <2>4, <1>3
    <3> QED BY <3>1, <2>4 DEF HeldIn
  <2> QED BY <2>3, <2>4 DEF EdgesDurable
<1>5. ASSUME NEW pk, EdgesGone(es, est, te, pk), NEW r \in RepoIDs, NEW s \in est2[r]
      PROVE  \/ s.ver = "v3" /\ KeyOf(s.edge) \in te2
             \/ KeyOf(s.edge) \in pk \ KeysOf(out)
             \/ InMemory(es \ X, s.edge)
  <2>1. s \in est[r] /\ s.edge \in Edge /\ s.edge.repo = r /\ s.ver \in KeyVersions
    BY <1>1, <1>2
  <2>2. ASSUME NEW x \in X PROVE ~SameKey(s.edge, x.edge) /\ KeyOf(x.edge) # KeyOf(s.edge)
    <3>1. x.edge \in Edge /\ x.edge.repo \in registered
      OBVIOUS
    <3>2. [ver |-> s.ver, edge |-> x.edge] \in D
      <4>1. x.edge \in out
        OBVIOUS
      <4> HIDE DEF out
      <4> QED BY <4>1, <2>1 DEF AllVersions
    <3>3. x.edge.repo = r => ~SameKey(s.edge, x.edge)
      BY <3>1, <3>2, <1>2
    <3> QED BY <3>1, <3>3, <2>1, KeyTellsRepo DEF SameKey
  <2>3. KeyOf(s.edge) \notin KeysOf(out)
    BY <2>2 DEF KeysOf
  <2>4. InMemory(es, s.edge) => InMemory(es \ X, s.edge)
    BY <2>2 DEF InMemory, SameKey
  <2> QED BY <2>1, <2>3, <2>4, <1>5 DEF EdgesGone
<1> HIDE DEF est2, te2
<1>6. EdgesDurable(es \ X, est2, te2)
  BY <1>4 DEF EdgesDurable
<1> HIDE DEF out
<1>7. \A pk : EdgesGone(es, est, te, pk) => EdgesGone(es \ X, est2, te2, pk \ KeysOf(out))
  BY <1>5 DEF EdgesGone
<1> QED BY <1>6, <1>7 DEF est2, te2, out

-----------------------------------------------------------------------------
(* Staging, filing and removing nodes.                                     *)

\* A name has one staged node, which sits in its slot; every name of the result is
\* then declared, and no declaration makes room for another node.
LEMMA FileNodesKeeps ==
  ASSUME NEW nm, NEW ns, NEW es, GraphOK(nm, ns, es, nextNodeID),
         NEW N, N \subseteq Node, NEW res, res.nodes = N,
         NEW repo, \A n \in N : n.repo = repo,
         NEW num \in Numberings(NewIDs(StagedNodes(res, nm, ns), nm)),
         nextNodeID + Cardinality(NewIDs(StagedNodes(res, nm, ns), nm)) <= MaxNodeID
  PROVE  LET staged == StagedNodes(res, nm, ns)
             nm2 == ExtendMap(nm, num)
             ns2 == FileNodes(ns, nm2, staged)
         IN  /\ \A n, m \in staged : n.id = m.id => n = m
             /\ \A n \in staged : nm2[n.id] # 0 /\ ns2[nm2[n.id]] = n
             /\ \A k \in NumIDs : ns2[k] = ns[k] \/ (ns2[k] \in staged /\ nm2[ns2[k].id] = k)
             /\ \A k \in NumIDs : ns[k] # NoNode =>
                  /\ ns2[k] # NoNode
                  /\ ns[k].type # "BOUNDARY" => ns2[k] = ns[k]
             /\ \A n \in N : nm2[n.id] # 0 /\ ns2[nm2[n.id]] # NoNode
             /\ \A i \in NodeIDs : nm[i] # 0 => nm2[i] = nm[i]
<1> DEFINE staged == StagedNodes(res, nm, ns)
           new == NewIDs(staged, nm)
           nm2 == ExtendMap(nm, num)
           ns2 == FileNodes(ns, nm2, staged)
           here(k) == {n \in staged : nm2[n.id] = k}
<1>1. /\ staged \subseteq Node
      /\ new \subseteq {i \in NodeIDs : nm[i] = 0}
      /\ \A n \in staged : nm[n.id] # 0 \/ n.id \in new
  BY StagedNodesOK
<1>2. /\ nm2 \in [NodeIDs -> 0..MaxNodeID]
      /\ \A i \in NodeIDs : nm[i] # 0 => nm2[i] = nm[i]
      /\ \A i \in new : nm2[i] # 0
      /\ \A i, j \in NodeIDs : nm2[i] # 0 /\ nm2[i] = nm2[j] => i = j
  <2> HIDE DEF new, nm2, staged
  <2>1. new \subseteq {i \in NodeIDs : nm[i] = 0} /\ num \in Numberings(new)
    BY <1>1 DEF new, staged
  <2>2. nextNodeID + Cardinality(new) <= MaxNodeID
    BY DEF new, staged
  <2> QED BY <2>1, <2>2, ExtendMapOK DEF nm2
<1>3. \A n \in staged : /\ n \in N
                        /\ ~\E m \in N : m.id = n.id /\ ShouldReplaceNode(n, m)
                        /\ \/ nm[n.id] = 0
                           \/ ns[nm[n.id]] = NoNode
                           \/ ShouldReplaceNode(ns[nm[n.id]], n)
  BY DEF StagedNodes
<1>4. \A n \in N : \/ n \in staged
                   \/ \E m \in N : m.id = n.id /\ ShouldReplaceNode(n, m)
                   \/ nm[n.id] # 0 /\ ns[nm[n.id]] # NoNode /\ ~ShouldReplaceNode(ns[nm[n.id]], n)
  BY DEF StagedNodes
<1>5. \A k \in NumIDs : here(k) = {} => ns2[k] = ns[k]
  BY DEF FileNodes
<1>6. \A k \in NumIDs : here(k) # {} => ns2[k] \in here(k)
  <2> SUFFICES ASSUME NEW k \in NumIDs, here(k) # {} PROVE ns2[k] \in here(k)
    OBVIOUS
  <2>1. ns2[k] = CHOOSE n \in here(k) : TRUE
    BY DEF FileNodes
  <2> QED BY <2>1
<1> HIDE DEF staged, new, nm2, ns2
<1>7. ASSUME NEW n \in staged, NEW m \in staged, n.id = m.id
      PROVE  n = m
  <2>1. n \in Node /\ m \in Node /\ n.repo = m.repo
    BY <1>1, <1>3
  <2>2. n.type = m.type
    BY <2>1, <1>3, <1>7 DEF ShouldReplaceNode, Node
  <2> QED BY <2>1, <2>2, <1>7 DEF Node
<1>8. ASSUME NEW n \in staged
      PROVE  nm2[n.id] \in NumIDs /\ n \in here(nm2[n.id])
  <2>1. n.id \in NodeIDs
    BY <1>1 DEF Node
  <2>2. nm2[n.id] # 0
    BY <2>1, <1>1, <1>2
  <2> QED BY <2>1, <2>2, <1>2, GraphAssumption DEF GraphAssumption, NumIDs
<1>9. ASSUME NEW n \in staged
      PROVE  nm2[n.id] # 0 /\ ns2[nm2[n.id]] = n
  <2>1. ns2[nm2[n.id]] \in here(nm2[n.id])
    BY <1>6, <1>8
  <2>2. \A m \in here(nm2[n.id]) : m.id = n.id
    BY <1>1, <1>2, <1>8 DEF NumIDs, Node
  <2> QED BY <2>1, <2>2, <1>7, <1>8 DEF NumIDs
<1>10. \A k \in NumIDs : ns2[k] = ns[k] \/ (ns2[k] \in staged /\ nm2[ns2[k].id] = k)
  BY <1>5, <1>6
<1>11. ASSUME NEW k \in NumIDs, ns[k] # NoNode
       PROVE  ns2[k] # NoNode /\ (ns[k].type # "BOUNDARY" => ns2[k] = ns[k])
  <2>1. CASE here(k) = {}
    BY <2>1, <1>5, <1>11
  <2>2. CASE here(k) # {}
    <3> DEFINE n == ns2[k]
    <3>1. n \in staged /\ nm2[n.id] = k /\ n \in Node
      BY <2>2, <1>1, <1>6
    <3>2. nm[ns[k].id] = k /\ ns[k].id \in NodeIDs /\ n.id \in NodeIDs
      BY <3>1, <1>11 DEF GraphOK, Node
    <3>3. k # 0
      BY DEF NumIDs
    <3>4. n.id = ns[k].id
      BY <3>1, <3>2, <3>3, <1>2
    <3>5. ShouldReplaceNode(ns[k], n)
      BY <3>1, <3>2, <3>3, <3>4, <1>3, <1>11
    <3> QED BY <3>1, <3>5, GraphAssumption DEF ShouldReplaceNode, GraphAssumption
  <2> QED BY <2>1, <2>2
<1>12. ASSUME NEW n \in N
       PROVE  nm2[n.id] # 0 /\ ns2[nm2[n.id]] # NoNode
  <2>0. NoNode \notin Node /\ n \in Node /\ n.id \in NodeIDs
    BY GraphAssumption DEF GraphAssumption, Node
  <2>1. CASE n \in staged
    BY <2>0, <2>1, <1>9
  <2>2. CASE nm[n.id] # 0 /\ ns[nm[n.id]] # NoNode
    <3>1. nm2[n.id] = nm[n.id] /\ nm[n.id] \in NumIDs
      BY <2>0, <2>2, <1>2, GraphAssumption DEF GraphOK, GraphAssumption, NumIDs
    <3> QED BY <2>2, <3>1, <1>11
  <2>3. CASE \E m \in N : m.id = n.id /\ ShouldReplaceNode(n, m)
    <3>1. PICK m \in N : m.id = n.id /\ ShouldReplaceNode(n, m)
      BY <2>3
    <3>2. ~\E l \in N : l.id = m.id /\ ShouldReplaceNode(m, l)
      BY <3>1 DEF ShouldReplaceNode
    <3>3. m \in staged \/ (nm[n.id] # 0 /\ ns[nm[n.id]] # NoNode)
      BY <3>1, <3>2, <1>4
    <3>4. CASE m \in staged
      BY <2>0, <3>1, <3>4, <1>1, <1>9
    <3> QED BY <2>2, <3>3, <3>4
  <2> QED BY <2>1, <2>2, <2>3, <1>4
<1>13. /\ \A n, m \in staged : n.id = m.id => n = m
       /\ \A n \in staged : nm2[n.id] # 0 /\ ns2[nm2[n.id]] = n
       /\ \A k \in NumIDs : ns[k] # NoNode =>
            ns2[k] # NoNode /\ (ns[k].type # "BOUNDARY" => ns2[k] = ns[k])
       /\ \A n \in N : nm2[n.id] # 0 /\ ns2[nm2[n.id]] # NoNode
       /\ \A i \in NodeIDs : nm[i] # 0 => nm2[i] = nm[i]
  BY <1>2, <1>7, <1>9, <1>11, <1>12
<1> QED BY <1>10, <1>13 DEF staged, nm2, ns2

\* What a store holds after the nodes N were written.
LEMMA PutNodesHas ==
  ASSUME NEW nst, NEW N, NEW r \in RepoIDs, NEW i \in NodeIDs
  PROVE  /\ (~\E n \in N : n.repo = r /\ n.id = i) => PutNodes(nst, N)[r][i] = nst[r][i]
         /\ r \in registered =>
              \A n \in N : n.repo = r /\ n.id = i =>
                \E m \in N : m.repo = r /\ m.id = i /\ PutNodes(nst, N)[r][i] = m
         /\ \/ PutNodes(nst, N)[r][i] = nst[r][i]
            \/ \E m \in N : m.repo = r /\ m.id = i /\ PutNodes(nst, N)[r][i] = m
<1> DEFINE new == {n \in N : n.repo = r /\ n.id = i}
<1>1. new = {} => PutNodes(nst, N)[r][i] = nst[r][i]
  BY DEF PutNodes
<1>2. r \notin registered => PutNodes(nst, N)[r][i] = nst[r][i]
  BY DEF PutNodes
<1>3. r \in registered /\ new # {} => PutNodes(nst, N)[r][i] \in new
  <2> SUFFICES ASSUME r \in registered, new # {} PROVE PutNodes(nst, N)[r][i] \in new
    OBVIOUS
  <2>1. PutNodes(nst, N)[r][i] = CHOOSE n \in new : TRUE
    BY DEF PutNodes
  <2> QED BY <2>1
<1> QED BY <1>1, <1>2, <1>3

\* A node key belongs to a set of nodes iff one of them has that repository and id.
LEMMA NodeKeyMember ==
  ASSUME NEW N, NEW r, NEW i
  PROVE  [repo |-> r, id |-> i] \in NodeKeysOf(N) <=> \E n \in N : n.repo = r /\ n.id = i
BY DEF NodeKeysOf

\* Memory and store agree on the nodes after a merge that wrote the staged ones.
LEMMA MergedNodesAgree ==
  ASSUME NEW nm, NEW ns, NEW es, GraphOK(nm, ns, es, nextNodeID),
         NEW nst, NEW est, StoresOK(nst, est),
         NEW N, N \subseteq Node, NEW res, res.nodes = N,
         NEW repo \in registered, \A n \in N : n.repo = repo,
         NEW num \in Numberings(NewIDs(StagedNodes(res, nm, ns), nm)),
         nextNodeID + Cardinality(NewIDs(StagedNodes(res, nm, ns), nm)) <= MaxNodeID,
         NEW tn, NodesDurable(ns, nst, tn)
  PROVE  LET staged == StagedNodes(res, nm, ns)
             nm2 == ExtendMap(nm, num)
             ns2 == FileNodes(ns, nm2, staged)
             nst2 == PutNodes(nst, staged)
             tn2 == tn \ NodeKeysOf(staged)
         IN  /\ NodesDurable(ns2, nst2, tn2)
             /\ NodesGone(nm, ns, nst, tn) => NodesGone(nm2, ns2, nst2, tn2)
<1> DEFINE staged == StagedNodes(res, nm, ns)
           nm2 == ExtendMap(nm, num)
           ns2 == FileNodes(ns, nm2, staged)
           nst2 == PutNodes(nst, staged)
           tn2 == tn \ NodeKeysOf(staged)
<1>1. /\ \A n, m \in staged : n.id = m.id => n = m
      /\ \A n \in staged : nm2[n.id] # 0 /\ ns2[nm2[n.id]] = n
      /\ \A k \in NumIDs : ns2[k] = ns[k] \/ (ns2[k] \in staged /\ nm2[ns2[k].id] = k)
      /\ \A k \in NumIDs : ns[k] # NoNode =>
           ns2[k] # NoNode /\ (ns[k].type # "BOUNDARY" => ns2[k] = ns[k])
      /\ \A i \in NodeIDs : nm[i] # 0 => nm2[i] = nm[i]
  BY FileNodesKeeps
<1>2. \A n \in staged : /\ n \in Node /\ n.id \in NodeIDs /\ n.repo \in RepoIDs
                        /\ n.repo \in registered
  BY DEF StagedNodes, Node
<1>3. GraphOK(nm2, ns2, es, nextNodeID + Cardinality(NewIDs(staged, nm)))
  BY FileNodesOK
<1> HIDE DEF staged, nm2, ns2, nst2, tn2
<1>4. ASSUME NEW n \in staged
      PROVE  nst2[n.repo][n.id] = n
  <2>1. PICK m \in staged : m.id = n.id /\ nst2[n.repo][n.id] = m
    BY <1>2, PutNodesHas DEF nst2
  <2> QED BY <2>1, <1>1
<1>5. ASSUME NEW k \in NumIDs, ns2[k] # NoNode
      PROVE  \/ nst2[ns2[k].repo][ns2[k].id] = ns2[k]
             \/ [repo |-> ns2[k].repo, id |-> ns2[k].id] \in tn2
  <2> DEFINE n == ns2[k]
  <2>1. CASE n \in staged
    BY <2>1, <1>4
  <2>2. CASE n \notin staged
    <3>1. n = ns[k]
      BY <2>2, <1>1
    <3>2. n \in Node /\ n.id \in NodeIDs /\ n.repo \in RepoIDs /\ nm2[n.id] = k
      BY <1>3, <1>5 DEF GraphOK, Node
    <3>3. ~\E m \in staged : m.repo = n.repo /\ m.id = n.id
      BY <2>2, <3>2, <1>1
    <3>4. nst2[n.repo][n.id] = nst[n.repo][n.id]
      BY <3>2, <3>3, PutNodesHas DEF nst2
    <3>5. [repo |-> n.repo, id |-> n.id] \notin NodeKeysOf(staged)
      BY <3>3, NodeKeyMember
    <3> QED BY <3>1, <3>4, <3>5, <1>5 DEF NodesDurable, tn2
  <2> QED BY <2>1, <2>2
<1>6. ASSUME NodesGone(nm, ns, nst, tn), NEW r \in RepoIDs, NEW i \in NodeIDs
      PROVE  \/ nst2[r][i] = NoNode
             \/ nst2[r][i].type = "BOUNDARY"
             \/ [repo |-> r, id |-> i] \in tn2
             \/ nm2[i] # 0 /\ ns2[nm2[i]] # NoNode /\ ns2[nm2[i]].type # "BOUNDARY"
  <2>1. CASE \E n \in staged : n.repo = r /\ n.id = i
    <3>1. PICK n \in staged : n.repo = r /\ n.id = i
      BY <2>1
    <3>2. nst2[r][i] = n /\ n # NoNode
      BY <3>1, <1>2, <1>4, GraphAssumption DEF GraphAssumption
    <3> QED BY <3>1, <3>2, <1>1
  <2>2. CASE ~\E n \in staged : n.repo = r /\ n.id = i
    <3>1. nst2[r][i] = nst[r][i]
      BY <2>2, PutNodesHas DEF nst2
    <3>2. [repo |-> r, id |-> i] \in tn => [repo |-> r, id |-> i] \in tn2
      BY <2>2, NodeKeyMember DEF tn2
    <3>3. nm[i] # 0 => nm[i] \in NumIDs /\ nm2[i] = nm[i]
      BY <1>1, GraphAssumption DEF GraphOK, GraphAssumption, NumIDs
    <3> QED BY <3>1, <3>2, <3>3, <1>1, <1>6 DEF NodesGone
  <2> QED BY <2>1, <2>2
<1>7. NodesDurable(ns2, nst2, tn2)
  BY <1>5 DEF NodesDurable
<1>8. NodesGone(nm, ns, nst, tn) => NodesGone(nm2, ns2, nst2, tn2)
  BY <1>6 DEF NodesGone
<1> QED BY <1>7, <1>8 DEF staged, nm2, ns2, nst2, tn2

\* Some nodes are written or deleted and memory stays: their keys are torn.
LEMMA TornNodesAgree ==
  ASSUME NEW nm, NEW ns, NEW es, NEW next, GraphOK(nm, ns, es, next),
         NEW nst, NEW N,
         NEW nst2, nst2 \in {PutNodes(nst, N), DeleteNodes(nst, N)},
         NEW tn, NodesDurable(ns, nst, tn)
  PROVE  /\ NodesDurable(ns, nst2, tn \cup NodeKeysOf(N))
         /\ NodesGone(nm, ns, nst, tn) => NodesGone(nm, ns, nst2, tn \cup NodeKeysOf(N))
<1>1. ASSUME NEW r \in RepoIDs, NEW i \in NodeIDs
      PROVE  nst2[r][i] = nst[r][i] \/ [repo |-> r, id |-> i] \in NodeKeysOf(N)
  <2>1. (~\E n \in N : n.repo = r /\ n.id = i) => PutNodes(nst, N)[r][i] = nst[r][i]
    BY PutNodesHas
  <2>2. (~\E n \in N : n.repo = r /\ n.id = i) => DeleteNodes(nst, N)[r][i] = nst[r][i]
    BY DEF DeleteNodes
  <2> QED BY <2>1, <2>2, NodeKeyMember
<1>2. \A k \in NumIDs : ns[k] # NoNode => ns[k].repo \in RepoIDs /\ ns[k].id \in NodeIDs
  BY DEF GraphOK, Node
<1> QED BY <1>1, <1>2 DEF NodesDurable, NodesGone

\* The nodes in the slots K leave memory with their keys.  Their repositories are
\* registered, so no declaration of theirs stays behind.
LEMMA RemovedNodesAgree ==
  ASSUME NEW nm, NEW ns, NEW es, NEW next, GraphOK(nm, ns, es, next),
         NEW nst, NEW est, StoresOK(nst, est),
         NEW K, \A k \in K : k \in NumIDs /\ ns[k] # NoNode /\ Home(ns[k].id) \in registered,
         NEW nm2, \A i \in NodeIDs : nm[i] \notin K => nm2[i] = nm[i],
         NEW tn, NodesDurable(ns, nst, tn)
  PROVE  LET removed == {ns[k] : k \in K}
             ns2 == [k \in NumIDs |-> IF k \in K THEN NoNode ELSE ns[k]]
             nst2 == DeleteNodes(nst, removed)
             tn2 == tn \ NodeKeysOf(removed)
         IN  /\ NodesDurable(ns2, nst2, tn2)
             /\ NodesGone(nm, ns, nst, tn) => NodesGone(nm2, ns2, nst2, tn2)
<1> DEFINE removed == {ns[k] : k \in K}
           ns2 == [k \in NumIDs |-> IF k \in K THEN NoNode ELSE ns[k]]
           nst2 == DeleteNodes(nst, removed)
           tn2 == tn \ NodeKeysOf(removed)
<1>1. \A k \in NumIDs : ns[k] # NoNode =>
        ns[k] \in Node /\ ns[k].id \in NodeIDs /\ ns[k].repo \in RepoIDs /\ nm[ns[k].id] = k
  BY DEF GraphOK, Node
<1>2. \A k \in NumIDs : /\ k \in K => ns2[k] = NoNode
                        /\ k \notin K => ns2[k] = ns[k]
  OBVIOUS
<1>3. \A n \in removed : \E k \in K : n = ns[k]
  OBVIOUS
<1>4. \A k \in K : ns[k] \in removed
  OBVIOUS
<1> HIDE DEF removed, ns2
<1>5. ASSUME NEW r \in RepoIDs, NEW i \in NodeIDs
      PROVE  /\ nst2[r][i] = nst[r][i] \/ nst2[r][i] = NoNode
             /\ (~\E n \in removed : n.repo = r /\ n.id = i) => nst2[r][i] = nst[r][i]
             /\ r \in registered /\ (\E n \in removed : n.repo = r /\ n.id = i) => nst2[r][i] = NoNode
             /\ [repo |-> r, id |-> i] \in tn2
                  <=> [repo |-> r, id |-> i] \in tn /\ ~\E n \in removed : n.repo = r /\ n.id = i
  <2>1. /\ nst2[r][i] = nst[r][i] \/ nst2[r][i] = NoNode
        /\ (~\E n \in removed : n.repo = r /\ n.id = i) => nst2[r][i] = nst[r][i]
        /\ r \in registered /\ (\E n \in removed : n.repo = r /\ n.id = i) => nst2[r][i] = NoNode
    BY DEF DeleteNodes
  <2> QED BY <2>1, NodeKeyMember
<1> HIDE DEF nst2, tn2
<1>6. ASSUME NEW k \in NumIDs, ns2[k] # NoNode
      PROVE  \/ nst2[ns2[k].repo][ns2[k].id] = ns2[k]
             \/ [repo |-> ns2[k].repo, id |-> ns2[k].id] \in tn2
  <2>1. k \notin K /\ ns2[k] = ns[k]
    BY <1>2, <1>6
  <2>2. ~\E n \in removed : n.repo = ns[k].repo /\ n.id = ns[k].id
    BY <2>1, <1>1, <1>3, <1>6
  <2> QED BY <2>1, <2>2, <1>1, <1>5, <1>6 DEF NodesDurable
<1>7. ASSUME NodesGone(nm, ns, nst, tn), NEW r \in RepoIDs, NEW i \in NodeIDs,
             nst2[r][i] # NoNode, nst2[r][i].type # "BOUNDARY"
      PROVE  \/ [repo |-> r, id |-> i] \in tn2
             \/ nm2[i] # 0 /\ ns2[nm2[i]] # NoNode /\ ns2[nm2[i]].type # "BOUNDARY"
  <2>1. nst[r][i] = nst2[r][i]
    BY <1>5, <1>7
  <2>2. nst[r][i] \in Node /\ nst[r][i].id = i /\ nst[r][i].repo = r
    BY <2>1, <1>7 DEF StoresOK
  <2>3. r = Home(i)
    BY <2>1, <2>2, <1>7 DEF Node
  <2>4. ~\E n \in removed : n.repo = r /\ n.id = i
    <3> SUFFICES ASSUME NEW n \in removed, n.repo = r, n.id = i PROVE FALSE
      OBVIOUS
    <3>1. Home(i) \in registered
      BY <1>3
    <3>2. r \in registered
      BY <3>1, <2>3
    <3>3. nst2[r][i] = NoNode
      BY <3>2, <1>5
    <3> QED BY <3>3, <1>7
  <2>5. ASSUME nm[i] # 0, ns[nm[i]] # NoNode, ns[nm[i]].type # "BOUNDARY"
        PROVE  nm2[i] = nm[i] /\ ns2[nm[i]] = ns[nm[i]]
    <3>1. nm[i] \in NumIDs
      BY <2>5, GraphAssumption DEF GraphOK, GraphAssumption, NumIDs
    <3>2. ns[nm[i]].id = i
      BY <2>5, <3>1, <1>1 DEF GraphOK
    <3>3. ns[nm[i]].repo = r
      BY <2>3, <2>5, <3>1, <3>2, <1>1 DEF Node
    <3>4. nm[i] \notin K
      BY <2>4, <3>2, <3>3, <1>4
    <3> QED BY <3>1, <3>4, <1>2
  <2> QED BY <2>1, <2>4, <2>5, <1>5, <1>7 DEF NodesGone
<1>8. NodesDurable(ns2, nst2, tn2)
  BY <1>6 DEF NodesDurable
<1>9. NodesGone(nm, ns, nst, tn) => NodesGone(nm2, ns2, nst2, tn2)
  BY <1>7 DEF NodesGone
<1> QED BY <1>8, <1>9 DEF removed, ns2, nst2, tn2

-----------------------------------------------------------------------------
(* What a merge keeps, whatever graph it starts from.                      *)

\* Staged edges start at names of the result, and those are declared by then.
LEMMA FiledEdgesLive ==
  ASSUME NEW nm, NEW ns, NEW es, NEW next, GraphOK(nm, ns, es, next), OneOfAType(es),
         SourcesLive(ns, es),
         NEW E, E \subseteq Edge, NEW res, res.edges = E,
         \A e \in E : nm[e.from] # 0 => ns[nm[e.from]] # NoNode
  PROVE  LET es2 == FileEdges(es, nm, StagedEdges(res, nm, es))
         IN  OneOfAType(es2) /\ SourcesLive(ns, es2)
<1> DEFINE staged == StagedEdges(res, nm, es)
           es2 == FileEdges(es, nm, staged)
<1>1. /\ OneOfAType(es2)
      /\ \A y \in es2 : y \in es \/ (y.edge \in staged /\ y.fromID = nm[y.edge.from])
  BY FileEdgesKeeps
<1>2. ASSUME NEW s \in staged
      PROVE  ns[nm[s.from]] # NoNode
  <2>1. PICK e \in Resolved(res, nm) : s = StageEdge(e, res, nm, es)
    BY DEF StagedEdges
  <2>2. s.from = e.from /\ e \in E /\ nm[e.from] # 0
    BY <2>1, StageEdgeKeepsKey DEF SameKey, Resolved
  <2> QED BY <2>2
<1> HIDE DEF es2, staged
<1>3. SourcesLive(ns, es2)
  BY <1>1, <1>2 DEF SourcesLive
<1> QED BY <1>1, <1>3 DEF es2, staged

LEMMA MergeSucceedsAgrees ==
  ASSUME NEW nm, NEW ns, NEW es, NEW nst, NEW est,
         GraphOK(nm, ns, es, nextNodeID), StoresOK(nst, est),
         NEW res \in ParseResult, res.repo \in registered,
         Agree(nm, ns, es, nst, est, loaded, tornNodes, tornEdges, parked),
         MergeSucceeds(res, nm, ns, es, nst, est)
  PROVE  SInv'
<1> DEFINE staged == StagedNodes(res, nm, ns)
           new == NewIDs(staged, nm)
<1>1. /\ res.nodes \subseteq Node /\ res.edges \subseteq Edge
      /\ \A n \in res.nodes : n.repo = res.repo
      /\ \A e \in res.edges :
           /\ e.repo = res.repo /\ e.from \in NodeIDs
           /\ KindOf[e.from] # "FUNC" \/ \E n \in res.nodes : n.id = e.from
  BY DEF ParseResult, Edge
<1>2. PICK num \in Numberings(new) :
        LET nm2 == ExtendMap(nm, num)
            W   == EdgeWrites(res, nm2, es)
        IN  /\ nextNodeID + Cardinality(new) <= MaxNodeID
            /\ nodeMap' = nm2
            /\ nodes' = FileNodes(ns, nm2, staged)
            /\ nextNodeID' = nextNodeID + Cardinality(new)
            /\ nodeStore' = PutNodes(nst, staged)
            /\ \E w \in Written(W) :
                 /\ KeysOf(w) = KeysOf(W)
                 /\ edgeStore' = PutEdges(est, w)
            /\ edges' = FileEdges(es, nm2, StagedEdges(res, nm2, es))
            /\ tornNodes' = tornNodes \ NodeKeysOf(staged)
            /\ tornEdges' = tornEdges \ KeysOf(W)
            /\ parked' = parked \cup KeysOf(res.edges \ Resolved(res, nm2))
            /\ UNCHANGED <<registered, loaded>>
  BY DEF MergeSucceeds
<1> DEFINE nm2 == ExtendMap(nm, num)
           ns2 == FileNodes(ns, nm2, staged)
           es2 == FileEdges(es, nm2, StagedEdges(res, nm2, es))
           W == EdgeWrites(res, nm2, es)
<1>3. PICK w \in Written(W) : KeysOf(w) = KeysOf(W) /\ edgeStore' = PutEdges(est, w)
  BY <1>2
<1>4. GraphOK(nm2, ns2, es, nextNodeID + Cardinality(new))
  BY <1>1, <1>2, FileNodesOK
<1>5. /\ \A k \in NumIDs : ns[k] # NoNode =>
           /\ ns2[k] # NoNode
           /\ ns[k].type # "BOUNDARY" => ns2[k] = ns[k]
      /\ \A n \in res.nodes : nm2[n.id] # 0 /\ ns2[nm2[n.id]] # NoNode
  <2> DEFINE repo == res.repo
             N == res.nodes
  <2>1. N \subseteq Node /\ res.nodes = N /\ \A n \in N : n.repo = repo
    BY <1>1
  <2>2. nextNodeID + Cardinality(new) <= MaxNodeID
    BY <1>2
  <2> HIDE DEF repo, N
  <2> QED BY <2>1, <2>2, FileNodesKeeps
<1>6. /\ NodesDurable(ns2, PutNodes(nst, staged), tornNodes \ NodeKeysOf(staged))
      /\ NodesGone(nm, ns, nst, tornNodes)
           => NodesGone(nm2, ns2, PutNodes(nst, staged), tornNodes \ NodeKeysOf(staged))
  BY <1>1, <1>2, MergedNodesAgree DEF Agree
<1> HIDE DEF nm2, ns2, staged, new
<1>7. SourcesLive(ns2, es)
  BY <1>5 DEF Agree, SourcesLive, GraphOK, GraphEdge
<1>8. OneOfAType(es2) /\ SourcesLive(ns2, es2)
  <2>1. \A e \in res.edges : nm2[e.from] # 0 => ns2[nm2[e.from]] # NoNode
    BY <1>1, <1>4, <1>5 DEF GraphOK
  <2> QED BY <1>1, <1>4, <1>7, <2>1, FiledEdgesLive DEF Agree
<1>9. /\ EdgesDurable(es2, edgeStore', tornEdges \ KeysOf(W))
      /\ EdgesGone(es, est, tornEdges, parked)
           => EdgesGone(es2, edgeStore', tornEdges \ KeysOf(W),
                        parked \cup KeysOf(res.edges \ Resolved(res, nm2)))
  <2>1. \A e \in res.edges : e.repo \in registered
    BY <1>1
  <2>2. OneOfAType(es) /\ EdgesDurable(es, est, tornEdges)
    BY DEF Agree
  <2>3. /\ EdgesDurable(es2, PutEdges(est, w), tornEdges \ KeysOf(W))
        /\ \A pk : EdgesGone(es, est, tornEdges, pk)
             => EdgesGone(es2, PutEdges(est, w), tornEdges \ KeysOf(W),
                          pk \cup KeysOf(res.edges \ Resolved(res, nm2)))
    BY <1>1, <1>3, <1>4, <2>1, <2>2, MergedEdgesAgree
  <2> QED BY <2>3, <1>3
<1>10. /\ nodeMap' = nm2 /\ nodes' = ns2 /\ edges' = es2
       /\ nodeStore' = PutNodes(nst, staged)
       /\ tornNodes' = tornNodes \ NodeKeysOf(staged)
       /\ tornEdges' = tornEdges \ KeysOf(W)
       /\ parked' = parked \cup KeysOf(res.edges \ Resolved(res, nm2))
       /\ loaded' = loaded
  BY <1>2 DEF nm2, ns2, staged
<1> HIDE DEF es2, W
<1>11. Agree(nodeMap', nodes', edges', nodeStore', edgeStore', loaded', tornNodes', tornEdges', parked')
  BY <1>6, <1>8, <1>9, <1>10 DEF Agree
<1> QED BY <1>11 DEF SInv

LEMMA MergeFailsOnNodesAgrees ==
  ASSUME NEW nm, NEW ns, NEW es, NEW nst, NEW est,
         GraphOK(nm, ns, es, nextNodeID), StoresOK(nst, est),
         NEW res,
         Agree(nm, ns, es, nst, est, loaded, tornNodes, tornEdges, parked),
         MergeFailsOnNodes(res, nm, ns, es, nst, est)
  PROVE  SInv'
<1>1. PICK w \in SUBSET {n \in StagedNodes(res, nm, ns) : n.repo \in registered} :
        /\ nodeMap' = nm
        /\ nodes' = ns
        /\ edges' = es
        /\ nodeStore' = PutNodes(nst, w)
        /\ edgeStore' = est
        /\ tornNodes' = tornNodes \cup NodeKeysOf(w)
        /\ UNCHANGED <<nextNodeID, registered, loaded, tornEdges, parked>>
  BY DEF MergeFailsOnNodes
<1>2. /\ NodesDurable(ns, PutNodes(nst, w), tornNodes \cup NodeKeysOf(w))
      /\ NodesGone(nm, ns, nst, tornNodes)
           => NodesGone(nm, ns, PutNodes(nst, w), tornNodes \cup NodeKeysOf(w))
  BY TornNodesAgree DEF Agree
<1>3. Agree(nodeMap', nodes', edges', nodeStore', edgeStore', loaded', tornNodes', tornEdges', parked')
  BY <1>1, <1>2 DEF Agree
<1> QED BY <1>3 DEF SInv

LEMMA MergeFailsOnEdgesAgrees ==
  ASSUME NEW nm, NEW ns, NEW es, NEW nst, NEW est,
         GraphOK(nm, ns, es, nextNodeID), StoresOK(nst, est),
         NEW res \in ParseResult, res.repo \in registered,
         Agree(nm, ns, es, nst, est, loaded, tornNodes, tornEdges, parked),
         MergeFailsOnEdges(res, nm, ns, es, nst, est)
  PROVE  SInv'
<1> DEFINE staged == StagedNodes(res, nm, ns)
           new == NewIDs(staged, nm)
<1>1. /\ res.nodes \subseteq Node /\ res.edges \subseteq Edge
      /\ \A n \in res.nodes : n.repo = res.repo
  BY DEF ParseResult
<1>2. PICK num \in Numberings(new) :
        LET nm2 == ExtendMap(nm, num)
        IN  /\ nextNodeID + Cardinality(new) <= MaxNodeID
            /\ nodeMap' = nm2
            /\ nodes' = FileNodes(ns, nm2, staged)
            /\ nextNodeID' = nextNodeID + Cardinality(new)
            /\ nodeStore' = PutNodes(nst, staged)
            /\ edges' = es
            /\ \E w \in Written({e \in EdgeWrites(res, nm2, es) : e.repo \in registered}) :
                 /\ edgeStore' = PutEdges(est, w)
                 /\ tornEdges' = tornEdges \cup KeysOf(w)
            /\ tornNodes' = tornNodes \ NodeKeysOf(staged)
            /\ UNCHANGED <<registered, loaded, parked>>
  BY DEF MergeFailsOnEdges
<1> DEFINE nm2 == ExtendMap(nm, num)
           ns2 == FileNodes(ns, nm2, staged)
           W == EdgeWrites(res, nm2, es)
<1>3. PICK w \in Written({e \in W : e.repo \in registered}) :
        edgeStore' = PutEdges(est, w) /\ tornEdges' = tornEdges \cup KeysOf(w)
  BY <1>2
<1>4. GraphOK(nm2, ns2, es, nextNodeID + Cardinality(new))
  BY <1>1, <1>2, FileNodesOK
<1>5. \A k \in NumIDs : ns[k] # NoNode =>
        /\ ns2[k] # NoNode
        /\ ns[k].type # "BOUNDARY" => ns2[k] = ns[k]
  <2> DEFINE repo == res.repo
             N == res.nodes
  <2>1. N \subseteq Node /\ res.nodes = N /\ \A n \in N : n.repo = repo
    BY <1>1
  <2>2. nextNodeID + Cardinality(new) <= MaxNodeID
    BY <1>2
  <2> HIDE DEF repo, N
  <2> QED BY <2>1, <2>2, FileNodesKeeps
<1>6. /\ NodesDurable(ns2, PutNodes(nst, staged), tornNodes \ NodeKeysOf(staged))
      /\ NodesGone(nm, ns, nst, tornNodes)
           => NodesGone(nm2, ns2, PutNodes(nst, staged), tornNodes \ NodeKeysOf(staged))
  BY <1>1, <1>2, MergedNodesAgree DEF Agree
<1>7. w \subseteq Edge /\ \A e \in w : e.repo \in registered
  <2>1. W \subseteq Edge
    <3> HIDE DEF nm2, ns2, new
    <3> QED BY <1>1, <1>4, FileEdgesOK
  <2> QED BY <2>1, <1>3 DEF Written
<1>8. /\ EdgesDurable(es, edgeStore', tornEdges \cup KeysOf(w))
      /\ EdgesGone(es, est, tornEdges, parked)
           => EdgesGone(es, edgeStore', tornEdges \cup KeysOf(w), parked)
  <2>1. \A x \in es : x.edge \in Edge
    BY DEF GraphOK, GraphEdge
  <2> QED BY <2>1, <1>3, <1>7, TornEdgesAgree DEF Agree
<1>9. /\ nodeMap' = nm2 /\ nodes' = ns2 /\ edges' = es
      /\ nodeStore' = PutNodes(nst, staged)
      /\ tornNodes' = tornNodes \ NodeKeysOf(staged)
      /\ parked' = parked /\ loaded' = loaded
  BY <1>2
<1> HIDE DEF nm2, ns2, staged, new
<1>10. SourcesLive(ns2, es)
  BY <1>5 DEF Agree, SourcesLive, GraphOK, GraphEdge
<1>11. Agree(nodeMap', nodes', edges', nodeStore', edgeStore', loaded', tornNodes', tornEdges', parked')
  BY <1>3, <1>6, <1>8, <1>9, <1>10 DEF Agree
<1> QED BY <1>11 DEF SInv

-----------------------------------------------------------------------------
(* What each action keeps.                                                 *)

\* The empty graph agrees with whatever the stores hold.
LEMMA EmptyAgrees ==
  ASSUME NEW nm, NEW nst, NEW est, NEW tn, NEW te, NEW pk
  PROVE  Agree(nm, [k \in NumIDs |-> NoNode], {}, nst, est, FALSE, tn, te, pk)
BY DEF Agree, OneOfAType, SourcesLive, NodesDurable, EdgesDurable

LEMMA AddNodeAgrees ==
  ASSUME IInv, SInv, NEW n \in SingleNodes, AddNode(n)
  PROVE  SInv'
<1> DEFINE res == [nodes |-> {n}]
           N == {n}
           repo == n.repo
           staged == StagedNodes(res, nodeMap, nodes)
           new == NewIDs(staged, nodeMap)
<1>1. /\ N \subseteq Node /\ res.nodes = N /\ \A m \in N : m.repo = repo
      /\ repo \in registered
  BY GraphAssumption DEF GraphAssumption, AddNode
<1>2. PICK num \in Numberings(new) : nodeMap' = ExtendMap(nodeMap, num)
  BY DEF AddNode
<1>3. /\ nextNodeID + Cardinality(new) <= MaxNodeID
      /\ nodes' = FileNodes(nodes, nodeMap', staged)
      /\ nodeStore' = PutNodes(nodeStore, staged)
      /\ tornNodes' = tornNodes \ NodeKeysOf(staged)
      /\ UNCHANGED <<edges, registered, edgeStore, loaded, tornEdges, parked>>
  BY DEF AddNode
<1>4. GraphOK(nodeMap, nodes, edges, nextNodeID) /\ StoresOK(nodeStore, edgeStore)
  BY DEF IInv
<1> HIDE DEF res, N, repo
<1> DEFINE nm2 == ExtendMap(nodeMap, num)
           ns2 == FileNodes(nodes, nm2, staged)
<1>5. \A k \in NumIDs : nodes[k] # NoNode =>
        /\ ns2[k] # NoNode
        /\ nodes[k].type # "BOUNDARY" => ns2[k] = nodes[k]
  BY <1>1, <1>3, <1>4, FileNodesKeeps
<1>6. /\ NodesDurable(ns2, PutNodes(nodeStore, staged), tornNodes \ NodeKeysOf(staged))
      /\ NodesGone(nodeMap, nodes, nodeStore, tornNodes)
           => NodesGone(nm2, ns2, PutNodes(nodeStore, staged), tornNodes \ NodeKeysOf(staged))
  <2>1. NodesDurable(nodes, nodeStore, tornNodes)
    BY DEF SInv, Agree
  <2> QED BY <2>1, <1>1, <1>3, <1>4, MergedNodesAgree
<1>7. /\ nodeMap' = nm2 /\ nodes' = ns2
  BY <1>2, <1>3
<1> HIDE DEF nm2, ns2, staged, new
<1>8. SourcesLive(ns2, edges)
  BY <1>4, <1>5 DEF SInv, Agree, SourcesLive, GraphOK, GraphEdge
<1>9. Agree(nodeMap', nodes', edges', nodeStore', edgeStore', loaded', tornNodes', tornEdges', parked')
  BY <1>3, <1>6, <1>7, <1>8 DEF Agree, SInv
<1> QED BY <1>9 DEF SInv

LEMMA AddEdgeAgrees ==
  ASSUME IInv, SInv, NEW e \in SingleEdges, AddEdge(e)
  PROVE  SInv'
<1> DEFINE res == [edges |-> {e}]
           E == {e}
           staged == StagedEdges(res, nodeMap, edges)
           es2 == FileEdges(edges, nodeMap, staged)
           W == EdgeWrites(res, nodeMap, edges)
<1>1. /\ E \subseteq Edge /\ res.edges = E /\ e \in Edge
      /\ \A f \in E : f.repo \in registered
      /\ \A f \in E : nodeMap[f.from] # 0 /\ nodes[nodeMap[f.from]] # NoNode
  BY GraphAssumption DEF GraphAssumption, AddEdge, Live, NodeAt, Known
<1>2. Resolved(res, nodeMap) = E
  BY DEF AddEdge, Resolved, Known, Live, NodeAt
<1>3. W = staged \ GraphEdges
  BY <1>1, <1>2 DEF EdgeWrites, GraphEdges
<1>4. /\ edges' = es2
      /\ \/ edgeStore' = PutEdges(edgeStore, W) /\ tornEdges' = tornEdges \ KeysOf(W)
         \/ edgeStore' = edgeStore /\ tornEdges' = tornEdges \cup KeysOf(W)
      /\ UNCHANGED <<nodeMap, nodes, nextNodeID, registered, nodeStore, loaded,
                     tornNodes, parked>>
  BY <1>3 DEF AddEdge
<1>5. GraphOK(nodeMap, nodes, edges, nextNodeID) /\ StoresOK(nodeStore, edgeStore)
  BY DEF IInv
<1>6. /\ OneOfAType(edges) /\ SourcesLive(nodes, edges)
      /\ EdgesDurable(edges, edgeStore, tornEdges)
      /\ loaded => EdgesGone(edges, edgeStore, tornEdges, parked)
  BY DEF SInv, Agree
<1> HIDE DEF res, E
<1>7. OneOfAType(es2) /\ SourcesLive(nodes, es2)
  BY <1>1, <1>5, <1>6, FiledEdgesLive
<1>8. /\ \A s, t \in staged : SameKey(s, t) => s = t
      /\ \A s \in staged : s \in Edge
      /\ \A x \in edges : \E y \in es2 : SameKey(x.edge, y.edge) /\ x.edge.sites \subseteq y.edge.sites
      /\ \A y \in es2 : \/ y \in edges /\ \A s \in staged : ~SameKey(y.edge, s)
                        \/ y.edge \in staged /\ y.fromID = nodeMap[y.edge.from]
  <2>1. /\ \A x \in edges : \E y \in es2 : /\ SameKey(x.edge, y.edge)
                                           /\ x.edge.sites \subseteq y.edge.sites
                                           /\ x.fromID = y.fromID
        /\ \A y \in es2 : \/ y \in edges /\ \A s \in staged : ~SameKey(y.edge, s)
                          \/ y.edge \in staged /\ y.fromID = nodeMap[y.edge.from]
        /\ \A s, t \in staged : SameKey(s, t) => s = t
        /\ \A s \in staged : s \in Edge /\ nodeMap[s.from] # 0 /\ nodeMap[s.to] # 0
    BY <1>1, <1>5, <1>6, FileEdgesKeeps
  <2> HIDE DEF es2, staged
  <2> QED BY <2>1
<1>9. W \in Written(W)
  BY <1>3, <1>8 DEF Written, OneEdgePerKey
<1>10. /\ EdgesDurable(es2, PutEdges(edgeStore, W), tornEdges \ KeysOf(W))
       /\ \A pk : EdgesGone(edges, edgeStore, tornEdges, pk)
             => EdgesGone(es2, PutEdges(edgeStore, W), tornEdges \ KeysOf(W),
                          pk \cup KeysOf(res.edges \ Resolved(res, nodeMap)))
  BY <1>1, <1>5, <1>6, <1>9, MergedEdgesAgree
<1>11. parked \cup KeysOf(res.edges \ Resolved(res, nodeMap)) = parked
  BY <1>1, <1>2 DEF KeysOf
<1>12. /\ EdgesDurable(es2, edgeStore, tornEdges \cup KeysOf(W))
       /\ EdgesGone(edges, edgeStore, tornEdges, parked)
            => EdgesGone(es2, edgeStore, tornEdges \cup KeysOf(W), parked)
  <2>1. \A y \in es2 : y \in edges \/ y.edge \in {x.edge : x \in edges} \/ y.edge \in W
    BY <1>3, <1>8 DEF GraphEdges
  <2> HIDE DEF es2, staged, W
  <2>2. EdgesDurable(es2, edgeStore, tornEdges \cup KeysOf(W))
    BY <2>1, <1>6 DEF EdgesDurable, KeysOf
  <2>3. \A f : InMemory(edges, f) => InMemory(es2, f)
    <3> SUFFICES ASSUME NEW f, InMemory(edges, f) PROVE InMemory(es2, f)
      OBVIOUS
    <3>1. PICK x \in edges : SameKey(x.edge, f) /\ f.sites \subseteq x.edge.sites
      BY DEF InMemory
    <3>2. PICK y \in es2 : SameKey(x.edge, y.edge) /\ x.edge.sites \subseteq y.edge.sites
      BY <1>8
    <3> QED BY <3>1, <3>2 DEF InMemory, SameKey
  <2> QED BY <2>2, <2>3 DEF EdgesGone
<1> HIDE DEF es2, staged, W
<1>13. /\ EdgesDurable(edges', edgeStore', tornEdges')
       /\ loaded => EdgesGone(edges', edgeStore', tornEdges', parked)
  BY <1>4, <1>6, <1>10, <1>11, <1>12
<1>14. Agree(nodeMap', nodes', edges', nodeStore', edgeStore', loaded', tornNodes', tornEdges', parked')
  BY <1>4, <1>7, <1>13 DEF Agree, SInv
<1> QED BY <1>14 DEF SInv

\* A call that deletes some keys and then fails leaves memory alone.
LEMMA FailedRemovalAgrees ==
  ASSUME IInv, SInv, NEW K, K \subseteq {k \in NumIDs : nodes[k] # NoNode},
         NEW D, nodeStore' = DeleteNodes(nodeStore, {nodes[k] : k \in K}),
         edgeStore' = DeleteEdges(edgeStore, D),
         tornNodes' = tornNodes \cup NodeKeysOf({nodes[k] : k \in K}),
         tornEdges' = tornEdges \cup KeysOf({d.edge : d \in D}),
         UNCHANGED <<memory, registered, loaded, parked>>
  PROVE  SInv'
<1> DEFINE N == {nodes[k] : k \in K}
           none == {x \in edges : FALSE}
<1>1. /\ GraphOK(nodeMap, nodes, edges, nextNodeID) /\ StoresOK(nodeStore, edgeStore)
      /\ \A x \in edges : x.edge \in Edge
  BY DEF IInv, GraphOK, GraphEdge
<1>2. /\ NodesDurable(nodes, nodeStore', tornNodes \cup NodeKeysOf(N))
      /\ NodesGone(nodeMap, nodes, nodeStore, tornNodes)
           => NodesGone(nodeMap, nodes, nodeStore', tornNodes \cup NodeKeysOf(N))
  BY <1>1, TornNodesAgree DEF SInv, Agree
<1>3. LET out == {x.edge : x \in none}
          est2 == DeleteEdges(edgeStore, AllVersions(out) \cup D)
          te2 == (tornEdges \ KeysOf(out)) \cup KeysOf({d.edge : d \in D})
      IN  /\ EdgesDurable(edges \ none, est2, te2)
          /\ \A pk : EdgesGone(edges, edgeStore, tornEdges, pk)
               => EdgesGone(edges \ none, est2, te2, pk \ KeysOf(out))
  <2>1. none \subseteq edges /\ \A x \in none : x.edge.repo \in registered
    OBVIOUS
  <2>2. OneOfAType(edges) /\ EdgesDurable(edges, edgeStore, tornEdges)
    BY DEF SInv, Agree
  <2> HIDE DEF none
  <2> QED BY <1>1, <2>1, <2>2, RemovedEdgesAgree
<1>4. /\ edges \ none = edges /\ {x.edge : x \in none} = {}
      /\ AllVersions({}) = {} /\ KeysOf({}) = {}
  BY DEF AllVersions, KeysOf
<1> HIDE DEF none
<1>5. /\ EdgesDurable(edges, edgeStore', tornEdges')
      /\ EdgesGone(edges, edgeStore, tornEdges, parked)
           => EdgesGone(edges, edgeStore', tornEdges', parked)
  <2>1. /\ edgeStore' = DeleteEdges(edgeStore, {} \cup D)
        /\ tornEdges' = (tornEdges \ {}) \cup KeysOf({d.edge : d \in D})
        /\ parked = parked \ {}
    OBVIOUS
  <2> QED BY <2>1, <1>3, <1>4
<1>6. Agree(nodeMap', nodes', edges', nodeStore', edgeStore', loaded', tornNodes', tornEdges', parked')
  BY <1>2, <1>5 DEF Agree, SInv, memory
<1> QED BY <1>6 DEF SInv

LEMMA RemovePackageAgrees ==
  ASSUME IInv, SInv, NEW p \in PkgPaths, RemovePackage(p)
  PROVE  SInv'
<1>1. /\ GraphOK(nodeMap, nodes, edges, nextNodeID) /\ StoresOK(nodeStore, edgeStore)
      /\ \A x \in edges : x.edge \in Edge
  BY DEF IInv, GraphOK, GraphEdge
<1>2. CASE RemovePackageSucceeds(p)
  <2> DEFINE gone == NodesOfPackage(p)
             removed == {nodes[k] : k \in gone}
             X == OutEdges(gone)
             out == {x.edge : x \in X}
             ns2 == [k \in NumIDs |-> IF k \in gone THEN NoNode ELSE nodes[k]]
  <2>1. /\ edgeStore' = DeleteEdges(edgeStore, AllVersions(out))
        /\ nodeStore' = DeleteNodes(nodeStore, removed)
        /\ nodes' = ns2
        /\ edges' = edges \ X
        /\ tornNodes' = tornNodes \ NodeKeysOf(removed)
        /\ tornEdges' = tornEdges \ KeysOf(out)
        /\ parked' = parked \ KeysOf(out)
        /\ UNCHANGED <<nodeMap, nextNodeID, registered, loaded>>
    BY <1>2 DEF RemovePackageSucceeds
  <2>2. \A k \in gone : /\ k \in NumIDs /\ nodes[k] # NoNode
                        /\ Home(nodes[k].id) = OwnerOf[p]
                        /\ Home(nodes[k].id) \in registered
                        /\ nodeMap[nodes[k].id] = k /\ nodes[k].id \in NodeIDs
    <3>1. \A k \in NumIDs : nodes[k] # NoNode =>
            nodes[k].id \in NodeIDs /\ nodeMap[nodes[k].id] = k
      BY <1>1 DEF GraphOK, Node
    <3>2. NoPkg # p /\ \A i \in NodeIDs : PkgPathOf[i] # NoPkg => KindOf[i] = "FUNC"
      BY GraphAssumption DEF GraphAssumption
    <3>3. OwnerOf[p] \in registered
      BY DEF RemovePackage
    <3> QED BY <3>1, <3>2, <3>3 DEF NodesOfPackage, Home
  <2>3. X \subseteq edges /\ \A x \in X : x.edge.repo \in registered
    <3>1. \A x \in X : x \in edges /\ x.fromID \in gone
      BY DEF OutEdges
    <3>2. ASSUME NEW x \in X PROVE x.edge.repo \in registered
      <4>1. /\ x.edge \in Edge /\ x.edge.from \in NodeIDs /\ x.fromID = nodeMap[x.edge.from]
            /\ x.fromID # 0
        BY <3>1, <1>1 DEF GraphOK, GraphEdge, Edge, NumIDs
      <4>2. x.edge.from = nodes[x.fromID].id
        BY <3>1, <4>1, <2>2, <1>1 DEF GraphOK
      <4>3. x.edge.repo = Home(x.edge.from)
        BY <4>1 DEF Edge
      <4>4. Home(nodes[x.fromID].id) \in registered
        BY <3>1, <2>2
      <4> QED BY <4>2, <4>3, <4>4
    <3> QED BY <3>1, <3>2
  <2>4. /\ NodesDurable(ns2, DeleteNodes(nodeStore, removed), tornNodes \ NodeKeysOf(removed))
        /\ NodesGone(nodeMap, nodes, nodeStore, tornNodes)
             => NodesGone(nodeMap, ns2, DeleteNodes(nodeStore, removed),
                          tornNodes \ NodeKeysOf(removed))
    <3>1. NodesDurable(nodes, nodeStore, tornNodes)
      BY DEF SInv, Agree
    <3>2. \A k \in gone : k \in NumIDs /\ nodes[k] # NoNode /\ Home(nodes[k].id) \in registered
      BY <2>2
    <3> HIDE DEF gone
    <3> QED BY <3>1, <3>2, <1>1, RemovedNodesAgree
  <2>5. LET est2 == DeleteEdges(edgeStore, AllVersions(out) \cup {})
            te2 == (tornEdges \ KeysOf(out)) \cup KeysOf({d.edge : d \in {}})
        IN  /\ EdgesDurable(edges \ X, est2, te2)
            /\ \A pk : EdgesGone(edges, edgeStore, tornEdges, pk)
                 => EdgesGone(edges \ X, est2, te2, pk \ KeysOf(out))
    <3>1. OneOfAType(edges) /\ EdgesDurable(edges, edgeStore, tornEdges)
      BY DEF SInv, Agree
    <3> HIDE DEF X
    <3> QED BY <1>1, <2>3, <3>1, RemovedEdgesAgree
  <2>6. OneOfAType(edges \ X) /\ SourcesLive(ns2, edges \ X)
    <3>1. \A x \in edges \ X : x.fromID \in NumIDs /\ x.fromID \notin gone
      BY <1>1 DEF OutEdges, GraphOK, GraphEdge
    <3> HIDE DEF gone, X
    <3> QED BY <3>1 DEF SInv, Agree, OneOfAType, SourcesLive
  <2>7. /\ AllVersions(out) \cup {} = AllVersions(out)
        /\ (tornEdges \ KeysOf(out)) \cup KeysOf({d.edge : d \in {}}) = tornEdges \ KeysOf(out)
    BY DEF KeysOf
  <2> HIDE DEF ns2, X, out, removed
  <2>8. /\ EdgesDurable(edges \ X, edgeStore', tornEdges')
        /\ EdgesGone(edges, edgeStore, tornEdges, parked)
             => EdgesGone(edges \ X, edgeStore', tornEdges', parked')
    BY <2>1, <2>5, <2>7
  <2>9. Agree(nodeMap', nodes', edges', nodeStore', edgeStore', loaded', tornNodes', tornEdges', parked')
    BY <2>1, <2>4, <2>6, <2>8 DEF Agree, SInv
  <2> QED BY <2>9 DEF SInv
<1>3. CASE RemovePackageFails(p)
  <2>1. PICK done \in SUBSET NodesOfPackage(p), cur \in NodesOfPackage(p) :
          \E part \in SUBSET AllVersions({x.edge : x \in OutEdges({cur})}) :
            LET all  == {x.edge : x \in OutEdges(done)}
                keys == AllVersions(all) \cup part
            IN  /\ edgeStore' = DeleteEdges(edgeStore, keys)
                /\ nodeStore' = DeleteNodes(nodeStore, {nodes[k] : k \in done})
                /\ tornNodes' = tornNodes \cup NodeKeysOf({nodes[k] : k \in done})
                /\ tornEdges' = tornEdges \cup KeysOf({d.edge : d \in keys})
                /\ UNCHANGED <<memory, registered, loaded, parked>>
    BY <1>3 DEF RemovePackageFails
  <2>2. \E keys :
            /\ edgeStore' = DeleteEdges(edgeStore, keys)
            /\ nodeStore' = DeleteNodes(nodeStore, {nodes[k] : k \in done})
            /\ tornNodes' = tornNodes \cup NodeKeysOf({nodes[k] : k \in done})
            /\ tornEdges' = tornEdges \cup KeysOf({d.edge : d \in keys})
            /\ UNCHANGED <<memory, registered, loaded, parked>>
    BY <2>1
  <2>3. done \subseteq {k \in NumIDs : nodes[k] # NoNode}
    BY <2>1 DEF NodesOfPackage
  <2> QED BY <2>2, <2>3, FailedRemovalAgrees
<1> QED BY <1>2, <1>3 DEF RemovePackage

\* The edges of a folder tree are of its repository, and every edge that leaves one of
\* its nodes is among them.
LEMMA StructureEdgesOwn ==
  ASSUME IInv, NEW r \in RepoIDs
  PROVE  /\ \A x \in StructureEdges(r) : x \in edges /\ x.edge.repo = r
         /\ OutEdges(StructureNodes(r)) \subseteq StructureEdges(r)
         /\ \A k \in StructureNodes(r) :
              /\ k \in NumIDs /\ nodes[k] # NoNode /\ nodes[k].id \in NodeIDs
              /\ Home(nodes[k].id) = r
              /\ nodeMap[nodes[k].id] = k
<1>1. GraphOK(nodeMap, nodes, edges, nextNodeID)
  BY DEF IInv
<1>2. \A x \in StructureEdges(r) : x \in edges /\ x.edge.repo = r
  BY DEF StructureEdges
<1>3. ASSUME NEW k \in StructureNodes(r)
      PROVE  /\ k \in NumIDs /\ nodes[k] # NoNode /\ nodes[k].id \in NodeIDs
             /\ Home(nodes[k].id) = r
             /\ nodeMap[nodes[k].id] = k
             /\ nodes[k].type = KindOf[nodes[k].id]
             /\ nodes[k].type \in StructureKinds
  <2>1. /\ k \in NumIDs /\ nodes[k] # NoNode /\ nodes[k] \in Node
        /\ nodes[k].type \in StructureKinds /\ nodes[k].repo = r
        /\ nodeMap[nodes[k].id] = k
    BY <1>1 DEF StructureNodes, IsStructureOwned, GraphOK
  <2> QED BY <2>1 DEF Node, StructureKinds
<1>4. ASSUME NEW x \in OutEdges(StructureNodes(r))
      PROVE  x \in StructureEdges(r)
  <2>1. x \in edges /\ x.fromID \in StructureNodes(r)
    BY DEF OutEdges
  <2>2. /\ x.edge \in Edge /\ x.edge.from \in NodeIDs /\ x.fromID = nodeMap[x.edge.from]
        /\ x.fromID # 0
    BY <2>1, <1>1 DEF GraphOK, GraphEdge, Edge, NumIDs
  <2>3. x.edge.from = nodes[x.fromID].id
    BY <2>1, <2>2, <1>1, <1>3 DEF GraphOK
  <2>4. KindOf[x.edge.from] \in StructureKinds /\ Home(x.edge.from) = r
    BY <2>1, <2>3, <1>3
  <2>5. x.edge.type = "CONTAINS" /\ KindOf[x.edge.from] = "FOLDER" /\ x.edge.repo = r
    BY <2>2, <2>4 DEF Edge
  <2>6. IsStructureEndpoint(x.edge.from)
    BY <2>1, <2>2, <2>3, <2>5, <1>3 DEF IsStructureEndpoint, Live, NodeAt, Known
  <2> QED BY <2>1, <2>5, <2>6 DEF StructureEdges
<1> QED BY <1>2, <1>3, <1>4

\* What the removal of a folder tree leaves still agrees, before anything is merged.
LEMMA StructureRemovalAgrees ==
  ASSUME IInv, SInv, NEW r \in RepoIDs, r \in registered
  PROVE  LET gone  == StructureNodes(r)
             owned == {nodes[k] : k \in gone}
             out   == StructureEdges(r)
             nm  == [i \in NodeIDs |-> IF nodeMap[i] \in gone THEN 0 ELSE nodeMap[i]]
             ns  == [k \in NumIDs |-> IF k \in gone THEN NoNode ELSE nodes[k]]
             es  == (edges \ out) \ OutEdges(gone)
             nst == DeleteNodes(nodeStore, owned)
             est == DeleteEdges(edgeStore, AllVersions({x.edge : x \in out}))
         IN  Agree(nm, ns, es, nst, est, loaded, tornNodes, tornEdges, parked)
<1> DEFINE gone  == StructureNodes(r)
           owned == {nodes[k] : k \in gone}
           X   == StructureEdges(r)
           out == {x.edge : x \in X}
           nm  == [i \in NodeIDs |-> IF nodeMap[i] \in gone THEN 0 ELSE nodeMap[i]]
           ns  == [k \in NumIDs |-> IF k \in gone THEN NoNode ELSE nodes[k]]
           es  == (edges \ X) \ OutEdges(gone)
           nst == DeleteNodes(nodeStore, owned)
           est == DeleteEdges(edgeStore, AllVersions(out))
<1>1. /\ GraphOK(nodeMap, nodes, edges, nextNodeID) /\ StoresOK(nodeStore, edgeStore)
      /\ \A x \in edges : x.edge \in Edge
  BY DEF IInv, GraphOK, GraphEdge
<1>2. /\ X \subseteq edges /\ \A x \in X : x.edge.repo \in registered
      /\ OutEdges(gone) \subseteq X
      /\ \A k \in gone : k \in NumIDs /\ nodes[k] # NoNode /\ Home(nodes[k].id) \in registered
  BY StructureEdgesOwn
<1>3. es = edges \ X
  BY <1>2
<1>4. /\ NodesDurable(ns, nst, tornNodes \ NodeKeysOf(owned))
      /\ NodesGone(nodeMap, nodes, nodeStore, tornNodes)
           => NodesGone(nm, ns, nst, tornNodes \ NodeKeysOf(owned))
  <2>1. NodesDurable(nodes, nodeStore, tornNodes)
    BY DEF SInv, Agree
  <2>2. \A i \in NodeIDs : nodeMap[i] \notin gone => nm[i] = nodeMap[i]
    OBVIOUS
  <2> HIDE DEF gone, nm
  <2> QED BY <2>1, <2>2, <1>1, <1>2, RemovedNodesAgree
<1>5. LET est2 == DeleteEdges(edgeStore, AllVersions(out) \cup {})
          te2 == (tornEdges \ KeysOf(out)) \cup KeysOf({d.edge : d \in {}})
      IN  /\ EdgesDurable(edges \ X, est2, te2)
          /\ \A pk : EdgesGone(edges, edgeStore, tornEdges, pk)
               => EdgesGone(edges \ X, est2, te2, pk \ KeysOf(out))
  <2>1. OneOfAType(edges) /\ EdgesDurable(edges, edgeStore, tornEdges)
    BY DEF SInv, Agree
  <2> HIDE DEF X
  <2> QED BY <1>1, <1>2, <2>1, RemovedEdgesAgree
<1>6. /\ AllVersions(out) \cup {} = AllVersions(out)
      /\ (tornEdges \ KeysOf(out)) \cup KeysOf({d.edge : d \in {}}) = tornEdges \ KeysOf(out)
  BY DEF KeysOf
<1>7. OneOfAType(es) /\ SourcesLive(ns, es)
  <2>1. \A x \in es : x \in edges /\ x.fromID \in NumIDs /\ x.fromID \notin gone
    BY <1>1 DEF OutEdges, GraphOK, GraphEdge
  <2> HIDE DEF gone, es
  <2> QED BY <2>1 DEF SInv, Agree, OneOfAType, SourcesLive
<1> HIDE DEF nm, ns, es, X, out, owned
<1>8. /\ EdgesDurable(es, est, tornEdges)
      /\ EdgesGone(edges, edgeStore, tornEdges, parked) => EdgesGone(es, est, tornEdges, parked)
  <2>1. /\ EdgesDurable(es, est, tornEdges \ KeysOf(out))
        /\ EdgesGone(edges, edgeStore, tornEdges, parked)
             => EdgesGone(es, est, tornEdges \ KeysOf(out), parked \ KeysOf(out))
    BY <1>3, <1>5, <1>6
  <2> HIDE DEF est
  <2> QED BY <2>1 DEF EdgesDurable, EdgesGone
<1>9. /\ NodesDurable(ns, nst, tornNodes)
      /\ NodesGone(nodeMap, nodes, nodeStore, tornNodes) => NodesGone(nm, ns, nst, tornNodes)
  <2> HIDE DEF nst
  <2> QED BY <1>4 DEF NodesDurable, NodesGone
<1> HIDE DEF nst, est
<1>10. Agree(nm, ns, es, nst, est, loaded, tornNodes, tornEdges, parked)
  BY <1>7, <1>8, <1>9 DEF Agree, SInv
<1> QED BY <1>10 DEF nm, ns, es, X, out, owned, nst, est, gone

LEMMA ReplaceRepositoryStructureAgrees ==
  ASSUME IInv, SInv, NEW res \in StructureResults, ReplaceRepositoryStructure(res)
  PROVE  SInv'
<1>1. res \in ParseResult /\ res.repo \in RepoIDs /\ res.repo \in registered
  BY GraphAssumption
  DEF GraphAssumption, StructureResult, ParseResult, ReplaceRepositoryStructure
<1>2. /\ GraphOK(nodeMap, nodes, edges, nextNodeID) /\ StoresOK(nodeStore, edgeStore)
      /\ \A x \in edges : x.edge \in Edge
  BY DEF IInv, GraphOK, GraphEdge
<1>3. CASE ReplaceStructureFailsOnRemoval(res)
  <2> DEFINE r == res.repo
             owned == {nodes[k] : k \in StructureNodes(r)}
  <2>1. CASE \E done \in SUBSET owned :
               /\ nodeStore' = DeleteNodes(nodeStore, done)
               /\ tornNodes' = tornNodes \cup NodeKeysOf(done)
               /\ UNCHANGED <<memory, registered, edgeStore, loaded, tornEdges, parked>>
    <3>1. PICK done \in SUBSET owned :
               /\ nodeStore' = DeleteNodes(nodeStore, done)
               /\ tornNodes' = tornNodes \cup NodeKeysOf(done)
               /\ UNCHANGED <<memory, registered, edgeStore, loaded, tornEdges, parked>>
      BY <2>1
    <3>2. /\ NodesDurable(nodes, nodeStore', tornNodes')
          /\ NodesGone(nodeMap, nodes, nodeStore, tornNodes)
               => NodesGone(nodeMap, nodes, nodeStore', tornNodes')
      BY <3>1, <1>2, TornNodesAgree DEF SInv, Agree
    <3>3. Agree(nodeMap', nodes', edges', nodeStore', edgeStore', loaded', tornNodes', tornEdges', parked')
      BY <3>1, <3>2 DEF Agree, SInv, memory
    <3> QED BY <3>3 DEF SInv
  <2>2. CASE \E done \in SUBSET StructureEdges(r) :
               \E cur \in StructureEdges(r) \ done :
                 \E part \in SUBSET AllVersions({cur.edge}) :
                   LET keys == AllVersions({x.edge : x \in done}) \cup part
                   IN  /\ nodeStore' = DeleteNodes(nodeStore, owned)
                       /\ edgeStore' = DeleteEdges(edgeStore, keys)
                       /\ edges' = edges \ done
                       /\ tornNodes' = tornNodes \cup NodeKeysOf(owned)
                       /\ tornEdges' = (tornEdges \ KeysOf({x.edge : x \in done}))
                                         \cup KeysOf({d.edge : d \in part})
                       /\ UNCHANGED <<nodeMap, nodes, nextNodeID, registered, loaded, parked>>
    <3>1. PICK done \in SUBSET StructureEdges(r) :
            \E part :
                   LET keys == AllVersions({x.edge : x \in done}) \cup part
                   IN  /\ nodeStore' = DeleteNodes(nodeStore, owned)
                       /\ edgeStore' = DeleteEdges(edgeStore, keys)
                       /\ edges' = edges \ done
                       /\ tornNodes' = tornNodes \cup NodeKeysOf(owned)
                       /\ tornEdges' = (tornEdges \ KeysOf({x.edge : x \in done}))
                                         \cup KeysOf({d.edge : d \in part})
                       /\ UNCHANGED <<nodeMap, nodes, nextNodeID, registered, loaded, parked>>
      BY <2>2
    <3>2. PICK part :
                   LET keys == AllVersions({x.edge : x \in done}) \cup part
                   IN  /\ nodeStore' = DeleteNodes(nodeStore, owned)
                       /\ edgeStore' = DeleteEdges(edgeStore, keys)
                       /\ edges' = edges \ done
                       /\ tornNodes' = tornNodes \cup NodeKeysOf(owned)
                       /\ tornEdges' = (tornEdges \ KeysOf({x.edge : x \in done}))
                                         \cup KeysOf({d.edge : d \in part})
                       /\ UNCHANGED <<nodeMap, nodes, nextNodeID, registered, loaded, parked>>
      BY <3>1
    <3>3. done \subseteq edges /\ \A x \in done : x.edge.repo \in registered
      BY <3>1, <1>1, StructureEdgesOwn
    <3>4. /\ EdgesDurable(edges \ done, edgeStore', tornEdges')
          /\ \A pk : EdgesGone(edges, edgeStore, tornEdges, pk)
               => EdgesGone(edges \ done, edgeStore', tornEdges', pk \ KeysOf({x.edge : x \in done}))
      <4>1. OneOfAType(edges) /\ EdgesDurable(edges, edgeStore, tornEdges)
        BY DEF SInv, Agree
      <4>2. LET out == {x.edge : x \in done}
                est2 == DeleteEdges(edgeStore, AllVersions(out) \cup part)
                te2 == (tornEdges \ KeysOf(out)) \cup KeysOf({d.edge : d \in part})
            IN  /\ EdgesDurable(edges \ done, est2, te2)
                /\ \A pk : EdgesGone(edges, edgeStore, tornEdges, pk)
                     => EdgesGone(edges \ done, est2, te2, pk \ KeysOf(out))
        BY <1>2, <3>3, <4>1, RemovedEdgesAgree
      <4> QED BY <3>2, <4>2
    <3>5. EdgesGone(edges, edgeStore, tornEdges, parked)
            => EdgesGone(edges \ done, edgeStore', tornEdges', parked)
      BY <3>4 DEF EdgesGone
    <3>6. /\ NodesDurable(nodes, nodeStore', tornNodes')
          /\ NodesGone(nodeMap, nodes, nodeStore, tornNodes)
               => NodesGone(nodeMap, nodes, nodeStore', tornNodes')
      BY <3>2, <1>2, TornNodesAgree DEF SInv, Agree
    <3>7. OneOfAType(edges \ done) /\ SourcesLive(nodes, edges \ done)
      BY DEF SInv, Agree, OneOfAType, SourcesLive
    <3>8. Agree(nodeMap', nodes', edges', nodeStore', edgeStore', loaded', tornNodes', tornEdges', parked')
      BY <3>2, <3>4, <3>5, <3>6, <3>7 DEF Agree, SInv
    <3> QED BY <3>8 DEF SInv
  <2> QED BY <1>3, <2>1, <2>2 DEF ReplaceStructureFailsOnRemoval
<1>4. CASE ~ReplaceStructureFailsOnRemoval(res)
  <2> DEFINE gone  == StructureNodes(res.repo)
             owned == {nodes[k] : k \in gone}
             out   == StructureEdges(res.repo)
             nm  == [i \in NodeIDs |-> IF nodeMap[i] \in gone THEN 0 ELSE nodeMap[i]]
             ns  == [k \in NumIDs |-> IF k \in gone THEN NoNode ELSE nodes[k]]
             es  == (edges \ out) \ OutEdges(gone)
             nst == DeleteNodes(nodeStore, owned)
             est == DeleteEdges(edgeStore, AllVersions({x.edge : x \in out}))
  <2>1. GraphOK(nm, ns, es, nextNodeID)
    BY <1>1, StructureRemovalOK
  <2>2. StoresOK(nst, est)
    BY <1>2, DeleteNodesOK, DeleteEdgesOK
  <2>3. \/ MergeSucceeds(res, nm, ns, es, nst, est)
        \/ MergeFailsOnNodes(res, nm, ns, es, nst, est)
        \/ MergeFailsOnEdges(res, nm, ns, es, nst, est)
    BY <1>4 DEF ReplaceRepositoryStructure
  <2>4. Agree(nm, ns, es, nst, est, loaded, tornNodes, tornEdges, parked)
    BY <1>1, StructureRemovalAgrees
  <2> HIDE DEF nm, ns, es, nst, est
  <2> QED BY <1>1, <2>1, <2>2, <2>3, <2>4,
             MergeSucceedsAgrees, MergeFailsOnNodesAgrees, MergeFailsOnEdgesAgrees
<1> QED BY <1>3, <1>4

\* What is read from the stores agrees with them: a name takes a declaration if any store
\* has one, an edge has the call sites of all versions of its key, and what cannot be
\* linked is counted as parked.
LEMMA LoadFromStoragesAgrees ==
  ASSUME IInv, LoadFromStorages
  PROVE  SInv'
<1> DEFINE stored(i) == {nodeStore[r][i] : r \in RepoIDs} \ {NoNode}
           ids  == {i \in NodeIDs : stored(i) # {}}
           pick(i) == CHOOSE n \in stored(i) :
                        ~\E m \in stored(i) : ShouldReplaceNode(n, m)
           all  == {s.edge : s \in UNION {edgeStore[r] : r \in RepoIDs}}
           both == {e \in all : e.from \in ids /\ e.to \in ids}
           merged(e) == LET same == {d \in both : SameKey(d, e)}
                        IN  [(CHOOSE d \in same : TRUE) EXCEPT !.sites = SitesOf(same)]
<1>1. PICK num \in Numberings(ids) :
        /\ nodeMap' = [i \in NodeIDs |-> IF i \in ids THEN num[i] ELSE 0]
        /\ nodes' = [k \in NumIDs |->
                       IF \E i \in ids : num[i] = k
                       THEN pick(CHOOSE i \in ids : num[i] = k) ELSE NoNode]
        /\ edges' = {[fromID |-> num[e.from], toID |-> num[e.to], edge |-> merged(e)]
                       : e \in both}
  BY DEF LoadFromStorages
<1>2. /\ nextNodeID = 0
      /\ Cardinality(ids) <= MaxNodeID
      /\ loaded' = TRUE /\ tornNodes' = {} /\ tornEdges' = {}
      /\ parked' = KeysOf(all \ both)
      /\ nodeStore' = nodeStore /\ edgeStore' = edgeStore
  BY DEF LoadFromStorages, stores
<1>3. Cardinality(ids) \in Nat /\ MaxNodeID \in Nat
  BY FS_Subset, FS_CardinalityType, GraphAssumption DEF GraphAssumption
<1>4. /\ \A i, j \in ids : num[i] = num[j] => i = j
      /\ \A i \in ids : num[i] \in NumIDs /\ num[i] # 0
  <2> HIDE DEF ids
  <2>1. num \in [ids -> 1..Cardinality(ids)] /\ \A i, j \in ids : num[i] = num[j] => i = j
    BY <1>2, <1>3 DEF Numberings
  <2> QED BY <2>1, <1>2, <1>3 DEF NumIDs
<1>5. all \subseteq Edge /\ \A e \in all : \E t \in edgeStore[e.repo] : t.edge = e
  <2>1. \A r \in RepoIDs : \A s \in edgeStore[r] : s.edge \in Edge /\ s.edge.repo = r
    BY DEF IInv, StoresOK, StoredEdge
  <2> QED BY <2>1
<1>6. ASSUME NEW i \in ids
      PROVE  /\ pick(i) # NoNode
             /\ pick(i).id = i /\ pick(i) = nodeStore[pick(i).repo][i]
             /\ \A r \in RepoIDs :
                  nodeStore[r][i] # NoNode /\ nodeStore[r][i].type # "BOUNDARY"
                    => pick(i).type # "BOUNDARY"
  <2>1. \A n \in stored(i) : n # NoNode /\ n.id = i /\ n = nodeStore[n.repo][i]
    BY DEF IInv, StoresOK
  <2>2. \E n \in stored(i) : ~\E m \in stored(i) : ShouldReplaceNode(n, m)
    <3>1. PICK n \in stored(i) : TRUE
      OBVIOUS
    <3> QED BY <3>1 DEF ShouldReplaceNode
  <2>3. pick(i) \in stored(i) /\ ~\E m \in stored(i) : ShouldReplaceNode(pick(i), m)
    BY <2>2
  <2>4. \A r \in RepoIDs : nodeStore[r][i] # NoNode => nodeStore[r][i] \in stored(i)
    OBVIOUS
  <2> HIDE DEF pick, stored
  <2> QED BY <2>1, <2>3, <2>4 DEF ShouldReplaceNode
<1>7. ASSUME NEW e \in both
      PROVE  /\ merged(e) \in Edge /\ SameKey(merged(e), e)
             /\ e.sites \subseteq merged(e).sites
             /\ HeldIn(edgeStore, merged(e))
  <2> DEFINE same == {d \in both : SameKey(d, e)}
             d0 == CHOOSE d \in same : TRUE
             m == [d0 EXCEPT !.sites = SitesOf(same)]
  <2>1. e \in same /\ same \subseteq Edge /\ \A d \in same : d \in all /\ SameKey(d, e)
    BY <1>5 DEF SameKey
  <2>2. d0 \in same
    BY <2>1
  <2>3. merged(e) = m
    OBVIOUS
  <2>4. SitesOf(same) \subseteq Sites
    <3>1. \A d \in same : d.sites \subseteq Sites
      BY <2>1 DEF Edge
    <3> QED BY <3>1 DEF SitesOf
  <2>5. e.sites \subseteq SitesOf(same)
    BY <2>1 DEF SitesOf
  <2> HIDE DEF d0, same, merged
  <2>6. d0 \in Edge /\ SameKey(d0, e)
    BY <2>1, <2>2
  <2>7. m \in Edge /\ SameKey(m, e) /\ m.repo = d0.repo /\ m.sites = SitesOf(same)
    BY <2>4, <2>6 DEF Edge, SameKey
  <2> HIDE DEF m
  <2>8. \A d \in same : d.repo = m.repo /\ SameKey(d, m)
                        /\ \E t \in edgeStore[m.repo] : t.edge = d
    <3>1. \A d \in same : SameKey(d, m)
      BY <2>1, <2>7 DEF SameKey
    <3> QED BY <3>1, <2>1, <2>7, <1>5, KeyTellsRepo
  <2>9. \A i \in SitesOf(same) : \E d \in same : i \in d.sites
    BY DEF SitesOf
  <2>10. HeldIn(edgeStore, m)
    BY <2>1, <2>7, <2>8, <2>9 DEF HeldIn
  <2> QED BY <2>3, <2>5, <2>7, <2>10
<1>8. \A e, f \in both : SameKey(e, f) => merged(e) = merged(f)
  <2> SUFFICES ASSUME NEW e \in both, NEW f \in both, SameKey(e, f)
               PROVE  merged(e) = merged(f)
    OBVIOUS
  <2> DEFINE like(d) == {c \in both : SameKey(c, d)}
             made(S) == [(CHOOSE d \in S : TRUE) EXCEPT !.sites = SitesOf(S)]
  <2>1. like(e) = like(f)
    BY DEF SameKey
  <2>2. merged(e) = made(like(e)) /\ merged(f) = made(like(f))
    OBVIOUS
  <2> HIDE DEF made, like, merged
  <2> QED BY <2>1, <2>2
<1>9. /\ \A s \in UNION {edgeStore[r] : r \in RepoIDs} : s.edge \in all
      /\ both \subseteq all /\ \A e \in both : e.from \in ids /\ e.to \in ids
      /\ ids \subseteq NodeIDs
      /\ \A r \in RepoIDs, i \in NodeIDs : nodeStore[r][i] # NoNode => i \in ids
  OBVIOUS
<1> HIDE DEF ids, both, merged, pick, stored, all
<1>10. \A i \in ids : nodeMap'[i] = num[i] /\ nodes'[num[i]] = pick(i)
  <2> SUFFICES ASSUME NEW i \in ids PROVE nodeMap'[i] = num[i] /\ nodes'[num[i]] = pick(i)
    OBVIOUS
  <2>1. PICK j \in ids : j = CHOOSE x \in ids : num[x] = num[i]
    OBVIOUS
  <2>2. num[j] = num[i]
    BY <2>1
  <2> QED BY <2>1, <2>2, <1>1, <1>4, <1>9
<1>11. \A k \in NumIDs : nodes'[k] # NoNode => \E i \in ids : num[i] = k
  BY <1>1
<1>12. NodesDurable(nodes', nodeStore', tornNodes')
  BY <1>2, <1>6, <1>10, <1>11 DEF NodesDurable
<1>13. NodesGone(nodeMap', nodes', nodeStore', tornNodes')
  <2> SUFFICES ASSUME NEW r \in RepoIDs, NEW i \in NodeIDs, nodeStore[r][i] # NoNode,
                      nodeStore[r][i].type # "BOUNDARY"
               PROVE  /\ nodeMap'[i] # 0 /\ nodes'[nodeMap'[i]] # NoNode
                      /\ nodes'[nodeMap'[i]].type # "BOUNDARY"
    BY <1>2 DEF NodesGone
  <2>1. i \in ids
    BY <1>9
  <2>2. nodeMap'[i] = num[i] /\ nodes'[num[i]] = pick(i) /\ num[i] # 0
    BY <2>1, <1>4, <1>10
  <2>3. pick(i) # NoNode /\ pick(i).type # "BOUNDARY"
    BY <2>1, <1>6
  <2> QED BY <2>2, <2>3
<1>14. \A e \in both : \E x \in edges' : x.edge = merged(e)
  <2> SUFFICES ASSUME NEW e \in both PROVE \E x \in edges' : x.edge = merged(e)
    OBVIOUS
  <2>1. [fromID |-> num[e.from], toID |-> num[e.to], edge |-> merged(e)] \in edges'
    BY <1>1
  <2> QED BY <2>1
<1>15. \A x \in edges' : \E e \in both : /\ x.edge = merged(e)
                                        /\ x.fromID = num[e.from] /\ x.toID = num[e.to]
  BY <1>1
<1>16. OneOfAType(edges')
  <2> SUFFICES ASSUME NEW x \in edges', NEW y \in edges', SameKey(x.edge, y.edge)
               PROVE  x = y
    BY DEF OneOfAType
  <2>1. PICK e \in both :
          x = [fromID |-> num[e.from], toID |-> num[e.to], edge |-> merged(e)]
    BY <1>1
  <2>2. PICK f \in both :
          y = [fromID |-> num[f.from], toID |-> num[f.to], edge |-> merged(f)]
    BY <1>1
  <2>3. SameKey(merged(e), e) /\ SameKey(merged(f), f) /\ SameKey(merged(e), merged(f))
    BY <1>7, <2>1, <2>2
  <2>4. SameKey(e, f)
    BY <2>3 DEF SameKey
  <2> QED BY <2>1, <2>2, <2>4, <1>8 DEF SameKey
<1>17. SourcesLive(nodes', edges')
  BY <1>6, <1>9, <1>10, <1>15 DEF SourcesLive
<1>18. EdgesDurable(edges', edgeStore', tornEdges')
  BY <1>2, <1>7, <1>15 DEF EdgesDurable
<1>19. EdgesGone(edges', edgeStore', tornEdges', parked')
  <2> SUFFICES ASSUME NEW r \in RepoIDs, NEW s \in edgeStore[r]
               PROVE  KeyOf(s.edge) \in parked' \/ InMemory(edges', s.edge)
    BY <1>2 DEF EdgesGone
  <2>1. s.edge \in all
    BY <1>9
  <2>2. CASE s.edge \in both
    <3>1. PICK x \in edges' : x.edge = merged(s.edge)
      BY <2>2, <1>14
    <3> QED BY <2>2, <3>1, <1>7 DEF InMemory, SameKey
  <2>3. CASE s.edge \notin both
    BY <2>1, <2>3, <1>2 DEF KeysOf
  <2> QED BY <2>2, <2>3
<1>20. Agree(nodeMap', nodes', edges', nodeStore', edgeStore', loaded', tornNodes', tornEdges', parked')
  BY <1>12, <1>13, <1>16, <1>17, <1>18, <1>19 DEF Agree
<1> QED BY <1>20 DEF SInv

-----------------------------------------------------------------------------
(* The theorems.                                                           *)

LEMMA InitAgrees == Init => SInv
<1> SUFFICES ASSUME Init PROVE SInv
  OBVIOUS
<1>1. /\ nodes = [k \in NumIDs |-> NoNode] /\ edges = {} /\ loaded = FALSE
  BY DEF Init
<1>2. Agree(nodeMap, [k \in NumIDs |-> NoNode], {}, nodeStore, edgeStore, FALSE,
            tornNodes, tornEdges, parked)
  BY EmptyAgrees
<1> QED BY <1>1, <1>2 DEF SInv

LEMMA NextAgrees == IInv /\ SInv /\ [Next]_vars => SInv'
<1> SUFFICES ASSUME IInv, SInv, [Next]_vars PROVE SInv'
  OBVIOUS
<1>1. GraphOK(nodeMap, nodes, edges, nextNodeID) /\ StoresOK(nodeStore, edgeStore)
  BY DEF IInv
<1>2. CASE NewGraph
  BY <1>2, EmptyAgrees DEF NewGraph, SInv
<1>3. CASE LoadFromStorages
  BY <1>3, LoadFromStoragesAgrees
<1>4. ASSUME NEW r \in RepoIDs, SetRepoStore(r) PROVE SInv'
  BY <1>4 DEF SetRepoStore, memory, stores, history, SInv
<1>5. ASSUME NEW n \in SingleNodes, AddNode(n) PROVE SInv'
  BY <1>5, AddNodeAgrees
<1>6. ASSUME NEW e \in SingleEdges, AddEdge(e) PROVE SInv'
  BY <1>6, AddEdgeAgrees
<1>7. ASSUME NEW res \in ParseResults, BuildFromParseResults(res) PROVE SInv'
  <2>1. res \in ParseResult
    BY GraphAssumption DEF GraphAssumption
  <2>2. Agree(nodeMap, nodes, edges, nodeStore, edgeStore, loaded, tornNodes, tornEdges, parked)
    BY DEF SInv
  <2> QED BY <1>1, <1>7, <2>1, <2>2,
             MergeSucceedsAgrees, MergeFailsOnNodesAgrees, MergeFailsOnEdgesAgrees
          DEF BuildFromParseResults
<1>8. ASSUME NEW p \in PkgPaths, RemovePackage(p) PROVE SInv'
  BY <1>8, RemovePackageAgrees
<1>9. ASSUME NEW res \in StructureResults, ReplaceRepositoryStructure(res) PROVE SInv'
  BY <1>9, ReplaceRepositoryStructureAgrees
<1>10. CASE UNCHANGED vars
  BY <1>10 DEF vars, memory, stores, history, SInv
<1> QED BY <1>2, <1>3, <1>4, <1>5, <1>6, <1>7, <1>8, <1>9, <1>10 DEF Next

\* In every reachable state the stores and the memory agree edge by edge and node by node.
THEOREM Agreement == Spec => []SInv
<1>1. Init => IInv /\ SInv
  BY InitOK, InitAgrees
<1>2. IInv /\ SInv /\ [Next]_vars => IInv' /\ SInv'
  BY NextOK, NextAgrees
<1> QED BY <1>1, <1>2, PTL DEF Spec

\* At most one edge of a type joins two nodes, and no edge outlives its source, through
\* merges, removals, failed calls and restarts.
THEOREM EdgesStayWhole == Spec => []EdgesAreWhole
<1>1. IInv /\ SInv => EdgesAreWhole
  BY DEF SInv, Agree, OneOfAType, SourcesLive, EdgesAreWhole, OneEdgePerType, EdgesLeaveLiveNodes
<1> QED BY Inductive, Agreement, <1>1, PTL

\* What is live is durable, and in a process that loaded its stores what was removed is
\* gone from them, unless a failed call left the key undecided.
THEOREM MemoryAndStoresAgree == Spec => []StoresAgree
<1>1. IInv /\ SInv => LiveIsDurable
  <2> SUFFICES ASSUME IInv, SInv PROVE LiveIsDurable
    OBVIOUS
  <2>1. \A n \in LiveNodes :
          nodeStore[n.repo][n.id] = n \/ [repo |-> n.repo, id |-> n.id] \in tornNodes
    BY DEF SInv, Agree, NodesDurable, LiveNodes
  <2>2. ASSUME NEW e \in GraphEdges, KeyOf(e) \notin tornEdges
        PROVE  LET stored == {s.edge : s \in {t \in edgeStore[e.repo] : SameKey(t.edge, e)}}
               IN  stored # {} /\ e.sites \subseteq SitesOf(stored)
    <3>1. HeldIn(edgeStore, e)
      BY <2>2 DEF GraphEdges, SInv, Agree, EdgesDurable
    <3> QED BY <3>1 DEF HeldIn, SitesOf
  <2> QED BY <2>1, <2>2 DEF LiveIsDurable
<1>2. IInv /\ SInv => RemovedIsGone
  <2> SUFFICES ASSUME IInv, SInv, loaded PROVE RemovedIsGone
    BY DEF RemovedIsGone
  <2>1. NodesGone(nodeMap, nodes, nodeStore, tornNodes)
        /\ EdgesGone(edges, edgeStore, tornEdges, parked)
    BY DEF SInv, Agree
  <2>2. \A r \in RepoIDs, i \in NodeIDs :
          \/ nodeStore[r][i] = NoNode
          \/ nodeStore[r][i].type = "BOUNDARY"
          \/ [repo |-> r, id |-> i] \in tornNodes
          \/ Live(i) /\ NodeAt(i).type # "BOUNDARY"
    <3>1. \A i \in NodeIDs : nodeMap[i] # 0 => NodeAt(i) = nodes[nodeMap[i]]
      BY DEF NodeAt, Known
    <3> QED BY <2>1, <3>1 DEF NodesGone, Live
  <2>3. ASSUME NEW r \in RepoIDs, NEW s \in edgeStore[r]
        PROVE  \/ KeyOf(s.edge) \in tornEdges \cup parked
               \/ \E e \in GraphEdges : SameKey(e, s.edge) /\ s.edge.sites \subseteq e.sites
    <3>1. InMemory(edges, s.edge)
            => \E e \in GraphEdges : SameKey(e, s.edge) /\ s.edge.sites \subseteq e.sites
      BY DEF InMemory, GraphEdges
    <3> QED BY <2>1, <3>1 DEF EdgesGone
  <2> QED BY <2>2, <2>3 DEF RemovedIsGone
<1> QED BY Inductive, Agreement, <1>1, <1>2, PTL DEF StoresAgree

-----------------------------------------------------------------------------
(* What a step may never do.                                               *)

\* What is written for a result are its own edges or edges with their keys.
LEMMA WritesOfResult ==
  ASSUME NEW nm, NEW ns, NEW es, NEW next, GraphOK(nm, ns, es, next), OneOfAType(es),
         NEW E, E \subseteq Edge, NEW res, res.edges = E
  PROVE  /\ \A s \in StagedEdges(res, nm, es) : \E e \in E : SameKey(s, e)
         /\ \A s \in EdgeWrites(res, nm, es) : \E e \in E : SameKey(s, e)
<1>1. ASSUME NEW s \in StagedEdges(res, nm, es)
      PROVE  \E e \in E : SameKey(s, e)
  <2>1. PICK e \in Resolved(res, nm) : s = StageEdge(e, res, nm, es)
    BY DEF StagedEdges
  <2>2. e \in E /\ SameKey(s, e)
    BY <2>1, StageEdgeKeepsKey DEF Resolved
  <2> QED BY <2>2
<1>2. ASSUME NEW s \in EdgeWrites(res, nm, es)
      PROVE  \E e \in E : SameKey(s, e)
  <2>1. s \in E \/ s \in StagedEdges(res, nm, es)
    BY DEF EdgeWrites
  <2> QED BY <2>1, <1>1 DEF SameKey
<1> QED BY <1>1, <1>2

\* Writing edges touches no other key.
LEMMA PutEdgesLocal ==
  ASSUME NEW est, est \in [RepoIDs -> SUBSET StoredEdge], NEW w, NEW E,
         \A e \in w : \E f \in E : SameKey(e, f),
         NEW r \in RepoIDs, NEW s, \A f \in E : ~SameKey(s.edge, f)
  PROVE  s \in PutEdges(est, w)[r] <=> s \in est[r]
<1>1. \A e \in w : ~SameKey(s.edge, e)
  BY DEF SameKey
<1>2. CASE r \notin registered
  BY <1>2 DEF PutEdges
<1>3. CASE r \in registered
  <2> DEFINE new == {e \in w : e.repo = r}
             kept == {t \in est[r] : ~(t.ver = "v3" /\ \E e \in new : SameKey(t.edge, e))}
             added == {[ver |-> "v3", edge |-> e] : e \in new}
  <2>1. PutEdges(est, w)[r] = kept \cup added
    BY <1>3 DEF PutEdges
  <2>2. s \notin added
    <3> SUFFICES ASSUME s \in added PROVE FALSE
      OBVIOUS
    <3>1. PICK e \in new : s = [ver |-> "v3", edge |-> e]
      OBVIOUS
    <3>2. SameKey(s.edge, e)
      BY <3>1 DEF SameKey
    <3> QED BY <3>1, <3>2, <1>1
  <2>3. s \in kept <=> s \in est[r]
    BY <1>1
  <2> HIDE DEF kept, added
  <2> QED BY <2>1, <2>2, <2>3
<1> QED BY <1>2, <1>3

\* Filing the staged edges of a result touches no edge with another key.
LEMMA FileEdgesLocal ==
  ASSUME NEW nm, NEW ns, NEW es, NEW next, GraphOK(nm, ns, es, next), OneOfAType(es),
         NEW E, E \subseteq Edge, NEW res, res.edges = E
  PROVE  LET es2 == FileEdges(es, nm, StagedEdges(res, nm, es))
         IN  /\ \A x \in es : (\A e \in E : ~SameKey(x.edge, e)) => x \in es2
             /\ \A y \in es2 : y \in es \/ \E e \in E : SameKey(y.edge, e)
<1> DEFINE staged == StagedEdges(res, nm, es)
           es2 == FileEdges(es, nm, staged)
<1>1. /\ \A s \in staged : s \in Edge /\ nm[s.from] # 0 /\ nm[s.to] # 0
      /\ \A y \in es2 : y \in es \/ y.edge \in staged
  BY FileEdgesKeeps
<1>2. \A s \in staged : \E e \in E : SameKey(s, e)
  BY WritesOfResult
<1>3. ASSUME NEW x \in es, \A e \in E : ~SameKey(x.edge, e)
      PROVE  x \in es2
  <2>1. \A s \in staged : ~SameKey(x.edge, s)
    BY <1>2, <1>3 DEF SameKey
  <2>2. \A s \in staged : x \notin FindEdgeByType(es, nm, s)
    BY <1>1, <2>1, FindIsSameKey
  <2> HIDE DEF staged
  <2> QED BY <2>2 DEF FileEdges
<1>4. \A y \in es2 : y \in es \/ \E e \in E : SameKey(y.edge, e)
  BY <1>1, <1>2
<1> QED BY <1>3, <1>4

\* What a merge may do to the graph and the edge stores it starts from, whether it
\* succeeds or fails half-way: it gives a name a node it lacked or a declaration for a
\* stub, adds call sites, and touches no edge whose key is not in the result.
LEMMA MergeKeeps ==
  ASSUME NEW nm, NEW ns, NEW es, NEW nst, NEW est,
         GraphOK(nm, ns, es, nextNodeID), StoresOK(nst, est), OneOfAType(es),
         NEW res \in ParseResult,
         \/ MergeSucceeds(res, nm, ns, es, nst, est)
         \/ MergeFailsOnNodes(res, nm, ns, es, nst, est)
         \/ MergeFailsOnEdges(res, nm, ns, es, nst, est)
  PROVE  /\ \A k \in NumIDs : ns[k] # NoNode =>
              /\ nodes'[k] # NoNode
              /\ ns[k].type # "BOUNDARY" => nodes'[k] = ns[k]
         /\ \A k \in NumIDs :
              \/ nodes'[k] = ns[k]
              \/ /\ nodes'[k] \in res.nodes
                 /\ nm[nodes'[k].id] = k \/ k > nextNodeID
         /\ \A x \in es : \E y \in edges' : /\ SameKey(x.edge, y.edge)
                                           /\ x.edge.sites \subseteq y.edge.sites
         /\ \A x \in es : (\A e \in res.edges : ~SameKey(x.edge, e)) => x \in edges'
         /\ \A y \in edges' : y \in es \/ \E e \in res.edges : SameKey(y.edge, e)
         /\ \A r \in RepoIDs : \A s : (\A e \in res.edges : ~SameKey(s.edge, e))
              => (s \in edgeStore'[r] <=> s \in est[r])
<1> DEFINE N == res.nodes
           E == res.edges
           repo == res.repo
<1>1. /\ N \subseteq Node /\ E \subseteq Edge /\ est \in [RepoIDs -> SUBSET StoredEdge]
      /\ \A n \in N : n.repo = repo
  BY DEF ParseResult, StoresOK
<1>2. res.nodes = N /\ res.edges = E
  OBVIOUS
<1> HIDE DEF N, E, repo
<1> DEFINE staged == StagedNodes(res, nm, ns)
           new == NewIDs(staged, nm)
           nm2(num) == ExtendMap(nm, num)
           ns2(num) == FileNodes(ns, nm2(num), staged)
<1>3. ASSUME NEW num \in Numberings(new), nextNodeID + Cardinality(new) <= MaxNodeID
      PROVE  /\ GraphOK(nm2(num), ns2(num), es, nextNodeID + Cardinality(new))
             /\ \A k \in NumIDs : ns[k] # NoNode =>
                  /\ ns2(num)[k] # NoNode
                  /\ ns[k].type # "BOUNDARY" => ns2(num)[k] = ns[k]
             /\ \A k \in NumIDs :
                  \/ ns2(num)[k] = ns[k]
                  \/ /\ ns2(num)[k] \in res.nodes
                     /\ nm[ns2(num)[k].id] = k \/ k > nextNodeID
  <2>1. GraphOK(nm2(num), ns2(num), es, nextNodeID + Cardinality(new))
    BY <1>1, <1>2, <1>3, FileNodesOK
  <2>2. /\ \A k \in NumIDs : ns2(num)[k] = ns[k]
                             \/ (ns2(num)[k] \in staged /\ nm2(num)[ns2(num)[k].id] = k)
        /\ \A k \in NumIDs : ns[k] # NoNode =>
             /\ ns2(num)[k] # NoNode
             /\ ns[k].type # "BOUNDARY" => ns2(num)[k] = ns[k]
    BY <1>1, <1>2, <1>3, FileNodesKeeps
  <2>3. staged \subseteq N /\ \A n \in staged : n.id \in NodeIDs
    BY <1>1, <1>2 DEF StagedNodes, Node
  <2>4. new \subseteq {i \in NodeIDs : nm[i] = 0} /\ \A n \in staged : nm[n.id] # 0 \/ n.id \in new
    BY <1>1, <1>2, StagedNodesOK
  <2>5. \A i \in NodeIDs : nm[i] # 0 => nm2(num)[i] = nm[i]
    BY <1>3, <2>4, ExtendMapOK
  <2>6. \A i \in new : nm2(num)[i] \in (nextNodeID + 1)..(nextNodeID + Cardinality(new))
    <3>1. num \in [new -> (nextNodeID + 1)..(nextNodeID + Cardinality(new))]
      BY <1>3 DEF Numberings
    <3> HIDE DEF new
    <3>2. \A i \in new : nm2(num)[i] = num[i]
      BY <3>1, <2>4 DEF ExtendMap
    <3> QED BY <3>1, <3>2
  <2>7. nextNodeID \in Nat /\ Cardinality(new) \in Nat
    BY <2>4, FS_Subset, FS_CardinalityType, GraphAssumption DEF GraphAssumption, GraphOK
  <2> HIDE DEF staged, new, nm2, ns2
  <2>8. ASSUME NEW k \in NumIDs, ns2(num)[k] # ns[k]
        PROVE  ns2(num)[k] \in res.nodes /\ (nm[ns2(num)[k].id] = k \/ k > nextNodeID)
    <3>1. ns2(num)[k] \in staged /\ nm2(num)[ns2(num)[k].id] = k
      BY <2>2, <2>8
    <3>2. CASE nm[ns2(num)[k].id] # 0
      BY <3>1, <3>2, <2>3, <2>5, <1>2
    <3>3. CASE nm[ns2(num)[k].id] = 0
      <4>1. k \in (nextNodeID + 1)..(nextNodeID + Cardinality(new))
        BY <3>1, <3>3, <2>4, <2>6
      <4> QED BY <4>1, <3>1, <2>3, <2>7, <1>2
    <3> QED BY <3>2, <3>3
  <2> QED BY <2>1, <2>2, <2>8
<1> HIDE DEF staged, new, nm2, ns2
<1>4. CASE MergeSucceeds(res, nm, ns, es, nst, est)
  <2>1. PICK num \in Numberings(new) :
          /\ nextNodeID + Cardinality(new) <= MaxNodeID
          /\ nodes' = ns2(num)
          /\ \E w \in SUBSET EdgeWrites(res, nm2(num), es) : edgeStore' = PutEdges(est, w)
          /\ edges' = FileEdges(es, nm2(num), StagedEdges(res, nm2(num), es))
    BY <1>4 DEF MergeSucceeds, Written, ns2, nm2, new, staged
  <2>2. PICK w \in SUBSET EdgeWrites(res, nm2(num), es) : edgeStore' = PutEdges(est, w)
    BY <2>1
  <2>3. GraphOK(nm2(num), ns2(num), es, nextNodeID + Cardinality(new))
    BY <1>3, <2>1
  <2>4. \A e \in w : \E f \in E : SameKey(e, f)
    BY <1>1, <1>2, <2>2, <2>3, WritesOfResult
  <2>5. \A r \in RepoIDs : \A s : (\A e \in E : ~SameKey(s.edge, e))
           => (s \in edgeStore'[r] <=> s \in est[r])
    BY <1>1, <2>2, <2>4, PutEdgesLocal
  <2>6. /\ \A x \in es : (\A e \in E : ~SameKey(x.edge, e)) => x \in edges'
        /\ \A y \in edges' : y \in es \/ \E e \in E : SameKey(y.edge, e)
    BY <1>1, <1>2, <2>1, <2>3, FileEdgesLocal
  <2>7. \A x \in es : \E y \in edges' : /\ SameKey(x.edge, y.edge)
                                       /\ x.edge.sites \subseteq y.edge.sites
    BY <1>1, <1>2, <2>1, <2>3, FileEdgesKeeps
  <2> QED BY <1>2, <1>3, <2>1, <2>5, <2>6, <2>7
<1>5. CASE MergeFailsOnNodes(res, nm, ns, es, nst, est)
  <2>1. nodes' = ns /\ edges' = es /\ edgeStore' = est
    BY <1>5 DEF MergeFailsOnNodes
  <2> QED BY <2>1 DEF SameKey
<1>6. CASE MergeFailsOnEdges(res, nm, ns, es, nst, est)
  <2>1. PICK num \in Numberings(new) :
          /\ nextNodeID + Cardinality(new) <= MaxNodeID
          /\ nodes' = ns2(num)
          /\ \E w \in SUBSET EdgeWrites(res, nm2(num), es) : edgeStore' = PutEdges(est, w)
          /\ edges' = es
    BY <1>6 DEF MergeFailsOnEdges, Written, ns2, nm2, new, staged
  <2>2. PICK w \in SUBSET EdgeWrites(res, nm2(num), es) : edgeStore' = PutEdges(est, w)
    BY <2>1
  <2>3. GraphOK(nm2(num), ns2(num), es, nextNodeID + Cardinality(new))
    BY <1>3, <2>1
  <2>4. \A e \in w : \E f \in E : SameKey(e, f)
    BY <1>1, <1>2, <2>2, <2>3, WritesOfResult
  <2>5. \A r \in RepoIDs : \A s : (\A e \in E : ~SameKey(s.edge, e))
           => (s \in edgeStore'[r] <=> s \in est[r])
    BY <1>1, <2>2, <2>4, PutEdgesLocal
  <2>6. \A x \in es : SameKey(x.edge, x.edge)
    BY DEF SameKey
  <2> QED BY <1>2, <1>3, <2>1, <2>5, <2>6
<1> QED BY <1>4, <1>5, <1>6

\* What a replacement of the folder tree may change, on each of its paths: folders, their
\* files and CONTAINS edges.
LEMMA StructureStepIsLocal ==
  ASSUME IInv, SInv, NEW res \in StructureResults, ReplaceRepositoryStructure(res)
  PROVE  /\ \A k \in NumIDs :
              nodes[k] # NoNode /\ ~IsStructureOwned(nodes[k]) => nodes'[k] = nodes[k]
         /\ \A k \in NumIDs :
              nodes[k] # NoNode /\ IsStructureOwned(nodes[k]) /\ nodes'[k] # NoNode
                => nodes'[k].type # "BOUNDARY"
         /\ \A x \in edges : x.edge.type = "CONTAINS" \/ x \in edges'
         /\ \A y \in edges' : y.edge.type = "CONTAINS" \/ y \in edges
         /\ \A r \in RepoIDs : \A s :
              s.edge.type = "CONTAINS" \/ (s \in edgeStore'[r] <=> s \in edgeStore[r])
<1>1. /\ res \in ParseResult
      /\ \A n \in res.nodes : n.type = "REPO" \/ n.type \in StructureKinds
      /\ \A e \in res.edges : e.type = "CONTAINS"
  BY GraphAssumption DEF GraphAssumption, StructureResult
<1>2. GraphOK(nodeMap, nodes, edges, nextNodeID) /\ StoresOK(nodeStore, edgeStore)
  BY DEF IInv
<1>3. \A x \in StructureEdges(res.repo) : x.edge.type = "CONTAINS"
  BY DEF StructureEdges
<1>4. ASSUME NEW D, \A d \in D : d.edge.type = "CONTAINS", NEW r \in RepoIDs, NEW s,
             s.edge.type # "CONTAINS"
      PROVE  s \in DeleteEdges(edgeStore, D)[r] <=> s \in edgeStore[r]
  BY <1>4 DEF DeleteEdges, SameKey
<1>5. ASSUME NEW O, \A e \in O : e.type = "CONTAINS"
      PROVE  \A d \in AllVersions(O) : d.edge.type = "CONTAINS"
  BY <1>5 DEF AllVersions
<1>6. \A k \in NumIDs : nodes[k] # NoNode /\ IsStructureOwned(nodes[k]) =>
        nodes[k].type # "BOUNDARY"
  BY DEF IsStructureOwned, StructureKinds
<1>9. ASSUME NEW n \in res.nodes
      PROVE  n \in Node /\ KindOf[n.id] # "FUNC"
  <2>1. n \in Node
    BY <1>1 DEF ParseResult
  <2>2. n.type \in {"REPO", "FOLDER", "FILE"}
    BY <1>1 DEF StructureKinds
  <2>3. n.type = KindOf[n.id] \/ n.type = "BOUNDARY"
    BY <2>1 DEF Node
  <2> QED BY <2>1, <2>2, <2>3
<1>7. CASE ReplaceStructureFailsOnRemoval(res)
  <2>1. \/ nodes' = nodes /\ edges' = edges /\ edgeStore' = edgeStore
        \/ \E done \in SUBSET StructureEdges(res.repo) :
             \E cur \in StructureEdges(res.repo) : \E part \in SUBSET AllVersions({cur.edge}) :
               /\ nodes' = nodes /\ edges' = edges \ done
               /\ edgeStore' = DeleteEdges(edgeStore, AllVersions({x.edge : x \in done}) \cup part)
    BY <1>7 DEF ReplaceStructureFailsOnRemoval, memory
  <2>2. CASE nodes' = nodes /\ edges' = edges /\ edgeStore' = edgeStore
    BY <2>2, <1>6
  <2>3. ASSUME NEW done \in SUBSET StructureEdges(res.repo),
               NEW cur \in StructureEdges(res.repo),
               NEW part \in SUBSET AllVersions({cur.edge}),
               nodes' = nodes, edges' = edges \ done,
               edgeStore' = DeleteEdges(edgeStore, AllVersions({x.edge : x \in done}) \cup part)
        PROVE  /\ \A x \in edges : x.edge.type = "CONTAINS" \/ x \in edges'
               /\ \A r \in RepoIDs : \A s :
                    s.edge.type = "CONTAINS" \/ (s \in edgeStore'[r] <=> s \in edgeStore[r])
    <3>1. \A e \in {x.edge : x \in done} \cup {cur.edge} : e.type = "CONTAINS"
      BY <1>3
    <3>2. \A d \in AllVersions({x.edge : x \in done}) \cup part : d.edge.type = "CONTAINS"
      BY <3>1, <1>5
    <3> DEFINE D == AllVersions({x.edge : x \in done}) \cup part
    <3>3. edgeStore' = DeleteEdges(edgeStore, D) /\ \A d \in D : d.edge.type = "CONTAINS"
      BY <2>3, <3>2
    <3> HIDE DEF D
    <3>4. \A r \in RepoIDs : \A s :
            s.edge.type = "CONTAINS" \/ (s \in edgeStore'[r] <=> s \in edgeStore[r])
      BY <3>3, <1>4
    <3> QED BY <2>3, <3>4, <1>3
  <2> QED BY <2>1, <2>2, <2>3, <1>6
<1>8. CASE ~ReplaceStructureFailsOnRemoval(res)
  <2> DEFINE gone  == StructureNodes(res.repo)
             owned == {nodes[k] : k \in gone}
             out   == StructureEdges(res.repo)
             nm  == [i \in NodeIDs |-> IF nodeMap[i] \in gone THEN 0 ELSE nodeMap[i]]
             ns  == [k \in NumIDs |-> IF k \in gone THEN NoNode ELSE nodes[k]]
             es  == (edges \ out) \ OutEdges(gone)
             nst == DeleteNodes(nodeStore, owned)
             est == DeleteEdges(edgeStore, AllVersions({x.edge : x \in out}))
  <2>1. GraphOK(nm, ns, es, nextNodeID)
    BY StructureRemovalOK, GraphAssumption DEF GraphAssumption, StructureResult, ParseResult
  <2>2. StoresOK(nst, est)
    BY <1>2, DeleteNodesOK, DeleteEdgesOK
  <2>3. OneOfAType(es)
    BY DEF SInv, Agree, OneOfAType
  <2>4. \/ MergeSucceeds(res, nm, ns, es, nst, est)
        \/ MergeFailsOnNodes(res, nm, ns, es, nst, est)
        \/ MergeFailsOnEdges(res, nm, ns, es, nst, est)
    BY <1>8 DEF ReplaceRepositoryStructure
  <2>5. /\ \A k \in NumIDs : k \in gone => ns[k] = NoNode
        /\ \A k \in NumIDs : k \notin gone => ns[k] = nodes[k]
        /\ \A k \in gone : nodes[k] # NoNode /\ IsStructureOwned(nodes[k])
        /\ \A i \in NodeIDs : nm[i] # 0 => nm[i] = nodeMap[i]
    BY DEF StructureNodes
  <2>6. \A x \in edges : x.edge.type = "CONTAINS" \/ x \in es
    <3>1. res.repo \in RepoIDs
      BY <1>1 DEF ParseResult
    <3>2. OutEdges(gone) \subseteq out
      BY <3>1, StructureEdgesOwn
    <3> QED BY <3>2, <1>3
  <2>7. es \subseteq edges
    OBVIOUS
  <2>8. \A r \in RepoIDs : \A s :
          s.edge.type = "CONTAINS" \/ (s \in est[r] <=> s \in edgeStore[r])
    <3> DEFINE D == AllVersions({x.edge : x \in out})
    <3>1. \A e \in {x.edge : x \in out} : e.type = "CONTAINS"
      BY <1>3
    <3>2. est = DeleteEdges(edgeStore, D) /\ \A d \in D : d.edge.type = "CONTAINS"
      BY <3>1, <1>5
    <3> HIDE DEF D, est
    <3> QED BY <3>2, <1>4
  <2> HIDE DEF nm, ns, es, nst, est, owned, out, gone
  <2>9. /\ \A k \in NumIDs : ns[k] # NoNode =>
             /\ nodes'[k] # NoNode
             /\ ns[k].type # "BOUNDARY" => nodes'[k] = ns[k]
        /\ \A k \in NumIDs :
             \/ nodes'[k] = ns[k]
             \/ /\ nodes'[k] \in res.nodes
                /\ nm[nodes'[k].id] = k \/ k > nextNodeID
        /\ \A x \in es : (\A e \in res.edges : ~SameKey(x.edge, e)) => x \in edges'
        /\ \A y \in edges' : y \in es \/ \E e \in res.edges : SameKey(y.edge, e)
        /\ \A r \in RepoIDs : \A s : (\A e \in res.edges : ~SameKey(s.edge, e))
             => (s \in edgeStore'[r] <=> s \in est[r])
    BY <1>1, <2>1, <2>2, <2>3, <2>4, MergeKeeps
  <2>10. \A e \in res.edges : \A d : d.type # "CONTAINS" => ~SameKey(d, e)
    BY <1>1 DEF SameKey
  <2>11. ASSUME NEW k \in NumIDs, nodes[k] # NoNode, ~IsStructureOwned(nodes[k])
         PROVE  nodes'[k] = nodes[k]
    <3>1. k \notin gone /\ ns[k] = nodes[k]
      BY <2>5, <2>11
    <3>2. CASE nodes[k].type # "BOUNDARY"
      BY <3>1, <3>2, <2>9, <2>11
    <3>3. CASE nodes[k].type = "BOUNDARY"
      <4> SUFFICES ASSUME nodes'[k] # ns[k] PROVE FALSE
        BY <3>1
      <4>1. nodes'[k] \in res.nodes /\ (nm[nodes'[k].id] = k \/ k > nextNodeID)
        BY <2>9
      <4>2. /\ nodes[k] \in Node /\ nodeMap[nodes[k].id] = k
            /\ nodeMap[nodes[k].id] <= nextNodeID
            /\ \A i, j \in NodeIDs : nodeMap[i] # 0 /\ nodeMap[i] = nodeMap[j] => i = j
        <5>1. nodes[k] \in Node /\ nodes[k].id \in NodeIDs
          BY <1>2, <2>11 DEF GraphOK, Node
        <5> QED BY <5>1, <1>2, <2>11 DEF GraphOK
      <4>3. nodes'[k] \in Node /\ KindOf[nodes'[k].id] # "FUNC"
        BY <4>1, <1>9
      <4>4. nodes[k].id \in NodeIDs /\ nodes'[k].id \in NodeIDs /\ KindOf[nodes[k].id] = "FUNC"
        <5>1. KindOf \in [NodeIDs -> Kinds] /\ "BOUNDARY" \notin Kinds
          BY GraphAssumption DEF GraphAssumption, Kinds
        <5> QED BY <5>1, <4>2, <4>3, <3>3 DEF Node
      <4>5. k \in Nat /\ k # 0 /\ nextNodeID \in Nat
        BY <1>2, GraphAssumption DEF NumIDs, GraphOK, GraphAssumption
      <4>6. nm[nodes'[k].id] = k
        BY <4>1, <4>2, <4>5
      <4>7. nodeMap[nodes'[k].id] = k
        BY <4>4, <4>5, <4>6, <2>5
      <4>8. nodes'[k].id = nodes[k].id
        BY <4>2, <4>4, <4>5, <4>7
      <4> QED BY <4>3, <4>4, <4>8
    <3> QED BY <3>2, <3>3
  <2>12. ASSUME NEW k \in NumIDs, nodes[k] # NoNode, IsStructureOwned(nodes[k]),
                nodes'[k] # NoNode
         PROVE  nodes'[k].type # "BOUNDARY"
    <3>1. nodes'[k] = ns[k] \/ nodes'[k] \in res.nodes
      BY <2>9
    <3>2. ns[k] = NoNode \/ ns[k] = nodes[k]
      BY <2>5
    <3> QED BY <3>1, <3>2, <2>12, <1>1, <1>6 DEF StructureKinds
  <2>13. \A x \in edges : x.edge.type = "CONTAINS" \/ x \in edges'
    BY <2>6, <2>9, <2>10
  <2>14. \A y \in edges' : y.edge.type = "CONTAINS" \/ y \in edges
    BY <2>7, <2>9, <2>10
  <2>15. \A r \in RepoIDs : \A s :
           s.edge.type = "CONTAINS" \/ (s \in edgeStore'[r] <=> s \in edgeStore[r])
    BY <2>8, <2>9, <2>10
  <2> QED BY <2>11, <2>12, <2>13, <2>14, <2>15
<1> QED BY <1>7, <1>8

\* An empty graph has no node and no edge.
LEMMA EmptyIsEmpty ==
  ASSUME IInv, nextNodeID = 0
  PROVE  edges = {} /\ \A k \in NumIDs : nodes[k] = NoNode
<1>1. /\ \A i \in NodeIDs : nodeMap[i] \in Nat /\ nodeMap[i] <= 0
      /\ \A k \in NumIDs : k \in Nat /\ k > 0
  BY GraphAssumption DEF IInv, GraphOK, GraphAssumption, NumIDs
<1>2. \A k \in NumIDs : nodes[k] # NoNode => nodes[k].id \in NodeIDs /\ nodeMap[nodes[k].id] = k
  BY DEF IInv, GraphOK, Node
<1>3. \A x \in edges : x.fromID \in NumIDs /\ x.edge.from \in NodeIDs
                       /\ x.fromID = nodeMap[x.edge.from]
  BY DEF IInv, GraphOK, GraphEdge, Edge
<1> QED BY <1>1, <1>2, <1>3

\* Removing a package takes nodes away and, of the edges, only those they are the source of.
LEMMA RemovePackageKeeps ==
  ASSUME NEW p, RemovePackage(p)
  PROVE  /\ \A k \in NumIDs : nodes'[k] = nodes[k] \/ nodes'[k] = NoNode
         /\ \A x \in edges : x \in edges' \/ (x.fromID \in NumIDs => nodes'[x.fromID] = NoNode)
<1>1. CASE RemovePackageSucceeds(p)
  BY <1>1 DEF RemovePackageSucceeds, OutEdges
<1>2. CASE RemovePackageFails(p)
  <2>1. nodes' = nodes /\ edges' = edges
    BY <1>2 DEF RemovePackageFails, memory
  <2> QED BY <2>1
<1> QED BY <1>1, <1>2 DEF RemovePackage

\* What every step but a restart keeps of the graph.
LEMMA StepKeeps ==
  ASSUME IInv, SInv, [Next]_vars
  PROVE  /\ DeclarationNeverDemoted
         /\ nextNodeID' # 0 =>
              \A x \in edges :
                \/ \E y \in edges' : /\ SameKey(x.edge, y.edge)
                                     /\ x.edge.sites \subseteq y.edge.sites
                \/ nodes'[x.fromID] = NoNode
                \/ x.edge.type = "CONTAINS"
<1> DEFINE Kept(x) == \/ \E y \in edges' : /\ SameKey(x.edge, y.edge)
                                         /\ x.edge.sites \subseteq y.edge.sites
                      \/ nodes'[x.fromID] = NoNode
                      \/ x.edge.type = "CONTAINS"
           Goal == DeclarationNeverDemoted /\ (nextNodeID' # 0 => \A x \in edges : Kept(x))
<1>1. /\ GraphOK(nodeMap, nodes, edges, nextNodeID) /\ StoresOK(nodeStore, edgeStore)
      /\ OneOfAType(edges)
      /\ \A x \in edges : x.fromID \in NumIDs
  BY DEF IInv, SInv, Agree, GraphOK, GraphEdge
<1>2. \A x \in edges : x \in edges' => Kept(x)
  BY DEF SameKey
<1>3. CASE NewGraph
  <2>1. nextNodeID' = 0 /\ \A k \in NumIDs : nodes'[k] = NoNode
    BY <1>3 DEF NewGraph
  <2> QED BY <2>1 DEF DeclarationNeverDemoted
<1>4. CASE LoadFromStorages
  <2>1. nextNodeID = 0
    BY <1>4 DEF LoadFromStorages
  <2> QED BY <2>1, EmptyIsEmpty DEF DeclarationNeverDemoted
<1>5. CASE nodes' = nodes /\ edges' = edges
  BY <1>2, <1>5 DEF DeclarationNeverDemoted
<1>6. ASSUME NEW r \in RepoIDs, SetRepoStore(r) PROVE Goal
  BY <1>5, <1>6 DEF SetRepoStore, memory
<1>7. ASSUME NEW n \in SingleNodes, AddNode(n) PROVE Goal
  <2> DEFINE res == [nodes |-> {n}]
             N == {n}
             repo == n.repo
             staged == StagedNodes(res, nodeMap, nodes)
             new == NewIDs(staged, nodeMap)
  <2>1. N \subseteq Node /\ res.nodes = N /\ \A m \in N : m.repo = repo
    BY GraphAssumption DEF GraphAssumption
  <2>2. PICK num \in Numberings(new) : nodeMap' = ExtendMap(nodeMap, num)
    BY <1>7 DEF AddNode
  <2>3. /\ nextNodeID + Cardinality(new) <= MaxNodeID
        /\ nodes' = FileNodes(nodes, nodeMap', staged)
        /\ edges' = edges
    BY <1>7 DEF AddNode
  <2> HIDE DEF res, N, repo
  <2>4. \A k \in NumIDs : nodes[k] # NoNode =>
          /\ FileNodes(nodes, ExtendMap(nodeMap, num), staged)[k] # NoNode
          /\ nodes[k].type # "BOUNDARY"
               => FileNodes(nodes, ExtendMap(nodeMap, num), staged)[k] = nodes[k]
    BY <1>1, <2>1, <2>2, <2>3, FileNodesKeeps
  <2> QED BY <1>2, <2>2, <2>3, <2>4 DEF DeclarationNeverDemoted
<1>8. ASSUME NEW e \in SingleEdges, AddEdge(e) PROVE Goal
  <2> DEFINE res == [edges |-> {e}]
             E == {e}
  <2>1. E \subseteq Edge /\ res.edges = E
    BY GraphAssumption DEF GraphAssumption
  <2>2. nodes' = nodes /\ edges' = FileEdges(edges, nodeMap, StagedEdges(res, nodeMap, edges))
    BY <1>8 DEF AddEdge
  <2> HIDE DEF res, E
  <2>3. \A x \in edges : \E y \in edges' : /\ SameKey(x.edge, y.edge)
                                          /\ x.edge.sites \subseteq y.edge.sites
    BY <1>1, <2>1, <2>2, FileEdgesKeeps
  <2> QED BY <2>2, <2>3 DEF DeclarationNeverDemoted
<1>9. ASSUME NEW res \in ParseResults, BuildFromParseResults(res) PROVE Goal
  <2>1. res \in ParseResult
    BY GraphAssumption DEF GraphAssumption
  <2>2. \/ MergeSucceeds(res, nodeMap, nodes, edges, nodeStore, edgeStore)
        \/ MergeFailsOnNodes(res, nodeMap, nodes, edges, nodeStore, edgeStore)
        \/ MergeFailsOnEdges(res, nodeMap, nodes, edges, nodeStore, edgeStore)
    BY <1>9 DEF BuildFromParseResults
  <2>3. /\ \A k \in NumIDs : nodes[k] # NoNode =>
             /\ nodes'[k] # NoNode
             /\ nodes[k].type # "BOUNDARY" => nodes'[k] = nodes[k]
        /\ \A x \in edges : \E y \in edges' : /\ SameKey(x.edge, y.edge)
                                             /\ x.edge.sites \subseteq y.edge.sites
    BY <1>1, <2>1, <2>2, MergeKeeps
  <2> QED BY <2>3 DEF DeclarationNeverDemoted
<1>10. ASSUME NEW p \in PkgPaths, RemovePackage(p) PROVE Goal
  BY <1>1, <1>2, <1>10, RemovePackageKeeps DEF DeclarationNeverDemoted
<1>11. ASSUME NEW res \in StructureResults, ReplaceRepositoryStructure(res) PROVE Goal
  <2>1. \A k \in NumIDs :
          nodes[k] # NoNode /\ ~IsStructureOwned(nodes[k]) => nodes'[k] = nodes[k]
    BY <1>11, StructureStepIsLocal
  <2>2. \A k \in NumIDs :
          nodes[k] # NoNode /\ IsStructureOwned(nodes[k]) /\ nodes'[k] # NoNode
            => nodes'[k].type # "BOUNDARY"
    BY <1>11, StructureStepIsLocal
  <2>3. \A x \in edges : x.edge.type = "CONTAINS" \/ x \in edges'
    BY <1>11, StructureStepIsLocal
  <2> QED BY <1>2, <2>1, <2>2, <2>3 DEF DeclarationNeverDemoted
<1>12. CASE UNCHANGED vars
  BY <1>5, <1>12 DEF vars, memory
<1> QED BY <1>3, <1>4, <1>6, <1>7, <1>8, <1>9, <1>10, <1>11, <1>12 DEF Next

\* An edge disappears from memory only with its source, whatever is merged, removed or
\* half-written: inbound edges survive the rebuild of a package.
THEOREM EdgesLeaveWithSource == Spec => EdgeLeavesWithSource
<1>1. IInv /\ SInv /\ [Next]_vars =>
        [nextNodeID' # 0 =>
           \A x \in edges :
             \/ \E y \in edges' : SameKey(x.edge, y.edge) /\ x.edge.sites \subseteq y.edge.sites
             \/ nodes'[x.fromID] = NoNode
             \/ x.edge.type = "CONTAINS"]_vars
  BY StepKeeps
<1> QED BY Inductive, Agreement, <1>1, PTL DEF Spec, EdgeLeavesWithSource

\* No merge, in whatever order, turns a live declaration into a stub.
THEOREM NoDemotion == Spec => [][DeclarationNeverDemoted]_vars
<1>1. IInv /\ SInv /\ [Next]_vars => [DeclarationNeverDemoted]_vars
  BY StepKeeps
<1> QED BY Inductive, Agreement, <1>1, PTL DEF Spec

\* Replacing the folder tree leaves packages, their edges and their keys alone, on every
\* path, failures included.
THEOREM TreeReplacementIsLocal == Spec => [][StructureReplacementIsLocal]_vars
<1>1. IInv /\ SInv => StructureReplacementIsLocal
  <2> SUFFICES ASSUME IInv, SInv, NEW res \in StructureResults, ReplaceRepositoryStructure(res)
               PROVE  /\ \A k \in NumIDs : nodes[k] # NoNode /\ ~IsStructureOwned(nodes[k])
                                             => nodes'[k] = nodes[k]
                      /\ {x \in edges' : x.edge.type # "CONTAINS"}
                           = {x \in edges : x.edge.type # "CONTAINS"}
                      /\ \A r \in RepoIDs :
                           {s \in edgeStore'[r] : s.edge.type # "CONTAINS"}
                             = {s \in edgeStore[r] : s.edge.type # "CONTAINS"}
    BY DEF StructureReplacementIsLocal
  <2>1. \A k \in NumIDs : nodes[k] # NoNode /\ ~IsStructureOwned(nodes[k]) => nodes'[k] = nodes[k]
    BY StructureStepIsLocal
  <2>2. /\ \A x \in edges : x.edge.type = "CONTAINS" \/ x \in edges'
        /\ \A y \in edges' : y.edge.type = "CONTAINS" \/ y \in edges
    BY StructureStepIsLocal
  <2>3. \A r \in RepoIDs : \A s :
          s.edge.type = "CONTAINS" \/ (s \in edgeStore'[r] <=> s \in edgeStore[r])
    BY StructureStepIsLocal
  <2> QED BY <2>1, <2>2, <2>3
<1> QED BY Inductive, Agreement, <1>1, PTL


-----------------------------------------------------------------------------
(***************************************************************************)
(* KnowledgeGraph implements GraphView: each call of graph.go maps to one  *)
(* step of GraphView or to none.                                           *)
(***************************************************************************)
\* What a reader sees of the indexes nm and ns and of the edges es.
KnownIn(nm) == {i \in NodeIDs : nm[i] # 0}
DeclIn(nm, ns) == [i \in NodeIDs |-> IF nm[i] # 0 THEN ns[nm[i]] ELSE NoNode]
LinksIn(es) == {x.edge : x \in es}

\* The edges of a result with the key of e.
Duplicates(e, res, nm) == {d \in Resolved(res, nm) : SameKey(d, e)}

LEMMA SeenNow ==
  /\ {i \in NodeIDs : Known(i)} = KnownIn(nodeMap)
  /\ [i \in NodeIDs |-> NodeAt(i)] = DeclIn(nodeMap, nodes)
  /\ GraphEdges = LinksIn(edges)
  /\ {i \in NodeIDs : Known(i)}' = KnownIn(nodeMap')
  /\ [i \in NodeIDs |-> NodeAt(i)]' = DeclIn(nodeMap', nodes')
  /\ GraphEdges' = LinksIn(edges')
BY DEF KnownIn, DeclIn, LinksIn, Known, NodeAt, GraphEdges

-----------------------------------------------------------------------------
(* Edges.                                                                  *)

\* A staged edge is the edge in memory with its key, or one of the result's, and has the
\* call sites of that one and of every edge of the result with its key.
LEMMA StageEdgeIsUnion ==
  ASSUME NEW nm, NEW ns, NEW es, NEW next, GraphOK(nm, ns, es, next), OneOfAType(es),
         NEW E, E \subseteq Edge, NEW res, res.edges = E,
         NEW e \in Resolved(res, nm)
  PROVE  LET s == StageEdge(e, res, nm, es)
             same == Duplicates(e, res, nm)
         IN  /\ s.sites \subseteq Sites /\ s.repo \in RepoIDs
             /\ \/ \E x \in es : /\ SameKey(x.edge, e) /\ s.repo = x.edge.repo
                                 /\ s.sites = x.edge.sites \cup SitesOf(same)
                \/ /\ \A x \in es : ~SameKey(x.edge, e)
                   /\ s.sites = SitesOf(same)
                   /\ \E d \in same : s.repo = d.repo
<1> DEFINE same == {d \in Resolved(res, nm) : SameKey(d, e)}
           found == FindEdgeByType(es, nm, e)
           old  == {x.edge : x \in found}
           base == IF old # {} THEN CHOOSE d \in old : TRUE ELSE CHOOSE d \in same : TRUE
           s    == [base EXCEPT !.sites = @ \cup SitesOf(same)]
<1>1. same \subseteq Edge /\ e \in same /\ nm[e.from] # 0 /\ nm[e.to] # 0 /\ e \in Edge
  BY DEF Resolved, SameKey
<1>2. \A x \in es : x \in found <=> SameKey(x.edge, e)
  BY <1>1, FindIsSameKey
<1>3. found \subseteq es
  BY DEF FindEdgeByType
<1>4. \A x \in es : x.edge \in Edge
  BY DEF GraphOK, GraphEdge
<1>5. /\ base \in Edge
      /\ \/ \E x \in es : SameKey(x.edge, e) /\ base = x.edge
         \/ (\A x \in es : ~SameKey(x.edge, e)) /\ base \in same
  <2>1. CASE old # {}
    <3>1. base = CHOOSE d \in old : TRUE
      BY <2>1
    <3>2. base \in old
      BY <2>1, <3>1
    <3>3. PICK x \in found : base = x.edge
      BY <3>2
    <3> QED BY <3>3, <1>2, <1>3, <1>4
  <2>2. CASE old = {}
    <3>1. base = CHOOSE d \in same : TRUE
      BY <2>2
    <3>2. base \in same
      BY <1>1, <3>1
    <3>3. found = {}
      BY <2>2
    <3> QED BY <3>2, <3>3, <1>1, <1>2
  <2> QED BY <2>1, <2>2
<1>6. StageEdge(e, res, nm, es) = s
  BY DEF StageEdge
<1>7. SitesOf(same) \subseteq Sites /\ \A d \in same : d.sites \subseteq SitesOf(same)
  <2>1. \A d \in same : d.sites \subseteq Sites
    BY <1>1 DEF Edge
  <2> QED BY <2>1 DEF SitesOf
<1> HIDE DEF base, found, old
<1>8. /\ base.sites \subseteq Sites /\ base.repo \in RepoIDs
      /\ s.sites = base.sites \cup SitesOf(same) /\ s.repo = base.repo
  <2>1. base \in Edge
    BY <1>5
  <2> HIDE DEF same
  <2> QED BY <2>1 DEF Edge
<1>11. same = Duplicates(e, res, nm)
  BY DEF Duplicates
<1> HIDE DEF s, same
<1>9. CASE \E x \in es : SameKey(x.edge, e) /\ base = x.edge
  BY <1>6, <1>7, <1>8, <1>9, <1>11
<1>10. CASE (\A x \in es : ~SameKey(x.edge, e)) /\ base \in same
  BY <1>6, <1>7, <1>8, <1>10, <1>11
<1> QED BY <1>5, <1>9, <1>10

\* Filing the staged edges of a result is what GraphView says of links that come in.
LEMMA FileEdgesRefines ==
  ASSUME NEW nm, NEW ns, NEW es, NEW next, GraphOK(nm, ns, es, next), OneOfAType(es),
         NEW E, E \subseteq Edge, NEW res, res.edges = E
  PROVE  View!Links(E, KnownIn(nm), LinksIn(es),
                    LinksIn(FileEdges(es, nm, StagedEdges(res, nm, es))))
<1> DEFINE staged == StagedEdges(res, nm, es)
           es2 == FileEdges(es, nm, staged)
           l == LinksIn(es)
           after == LinksIn(es2)
           new == {e \in E : e.from \in KnownIn(nm) /\ e.to \in KnownIn(nm)}
<1>1. /\ OneOfAType(es2)
      /\ \A x \in es : \E y \in es2 : SameKey(x.edge, y.edge)
      /\ \A y \in es2 : \/ y \in es /\ \A s \in staged : ~SameKey(y.edge, s)
                        \/ y.edge \in staged
      /\ \A s \in staged : \E y \in es2 : y.edge = s
  BY FileEdgesKeeps
<1>2. new = Resolved(res, nm)
  BY DEF Resolved, KnownIn, Edge
<1>3. \A e \in new : StageEdge(e, res, nm, es) \in staged
                     /\ SameKey(StageEdge(e, res, nm, es), e)
  BY <1>2, StageEdgeKeepsKey DEF StagedEdges
<1>4. \A a, b : View!SameEnds(a, b) <=> SameKey(a, b)
  BY DEF View!SameEnds, SameKey
<1>5. /\ \A x \in es : x.edge \in l
      /\ \A e \in l : \E x \in es : x.edge = e
      /\ \A y \in es2 : y.edge \in after
      /\ \A a \in after : \E y \in es2 : y.edge = a
  BY DEF LinksIn
<1>9. \A a, b, c : SameKey(a, c) /\ SameKey(b, c) => SameKey(a, b)
  BY DEF SameKey
<1>6. \A e \in l \cup new : \E a \in after : SameKey(a, e)
  <2>1. ASSUME NEW e \in l PROVE \E a \in after : SameKey(a, e)
    BY <1>1, <1>5 DEF SameKey
  <2>2. ASSUME NEW e \in new PROVE \E a \in after : SameKey(a, e)
    BY <1>1, <1>3, <1>5
  <2> QED BY <2>1, <2>2
<1>7. ASSUME NEW a \in after
      PROVE  LET old == {e \in l : SameKey(a, e)}
                 all == old \cup {e \in new : SameKey(a, e)}
             IN  /\ all # {} /\ a.sites = UNION {e.sites : e \in all}
                 /\ a.repo \in {e.repo : e \in IF old # {} THEN old ELSE all}
                 /\ \A b \in after : SameKey(a, b) => a = b
  <2> DEFINE old == {e \in l : SameKey(a, e)}
             in == {e \in new : SameKey(a, e)}
             all == old \cup in
  <2>1. PICK y \in es2 : y.edge = a
    BY <1>5
  <2>2. \A b \in after : SameKey(a, b) => a = b
    BY <1>1, <1>5, <2>1 DEF OneOfAType
  <2>3. \A c, d \in old : c = d
    <3> SUFFICES ASSUME NEW c \in old, NEW d \in old PROVE c = d
      OBVIOUS
    <3>1. PICK x \in es, z \in es : x.edge = c /\ z.edge = d
      BY <1>5
    <3>2. SameKey(x.edge, z.edge)
      BY <3>1 DEF SameKey
    <3> QED BY <3>1, <3>2 DEF OneOfAType
  <2>4. CASE y \in es /\ \A s \in staged : ~SameKey(y.edge, s)
    <3>1. a \in old
      BY <2>1, <2>4, <1>5 DEF SameKey
    <3>2. in = {}
      <4> SUFFICES ASSUME NEW e \in in PROVE FALSE
        OBVIOUS
      <4>1. e \in new /\ SameKey(y.edge, e)
        BY <2>1
      <4>2. PICK s \in staged : SameKey(s, e)
        BY <4>1, <1>3
      <4>3. SameKey(y.edge, s)
        BY <4>1, <4>2, <1>9
      <4> QED BY <4>3, <2>4
    <3>3. old = {a}
      BY <3>1, <2>3
    <3>4. all = {a}
      BY <3>2, <3>3
    <3> HIDE DEF old, all, in
    <3> QED BY <2>2, <3>3, <3>4 DEF old, all, in
  <2>5. CASE y.edge \in staged
    <3>1. PICK e \in Resolved(res, nm) : a = StageEdge(e, res, nm, es)
      BY <2>1, <2>5 DEF StagedEdges
    <3>2. SameKey(a, e)
      BY <3>1, StageEdgeKeepsKey
    <3> DEFINE same == Duplicates(e, res, nm)
    <3>3. in = same /\ e \in same
      BY <3>2, <1>2 DEF SameKey, Duplicates
    <3>4. \/ \E x \in es : /\ SameKey(x.edge, e) /\ a.repo = x.edge.repo
                           /\ a.sites = x.edge.sites \cup SitesOf(same)
          \/ /\ \A x \in es : ~SameKey(x.edge, e)
             /\ a.sites = SitesOf(same)
             /\ \E d \in same : a.repo = d.repo
      <4> DEFINE s == StageEdge(e, res, nm, es)
      <4>1. /\ s.sites \subseteq Sites /\ s.repo \in RepoIDs
            /\ \/ \E x \in es : /\ SameKey(x.edge, e) /\ s.repo = x.edge.repo
                                /\ s.sites = x.edge.sites \cup SitesOf(same)
               \/ /\ \A x \in es : ~SameKey(x.edge, e)
                  /\ s.sites = SitesOf(same)
                  /\ \E d \in same : s.repo = d.repo
        BY StageEdgeIsUnion
      <4>2. a = s
        BY <3>1
      <4> HIDE DEF s, same
      <4> QED BY <4>1, <4>2
    <3>5. SitesOf(same) = UNION {d.sites : d \in same}
      BY DEF SitesOf
    <3>6. CASE \E x \in es : /\ SameKey(x.edge, e) /\ a.repo = x.edge.repo
                             /\ a.sites = x.edge.sites \cup SitesOf(same)
      <4>1. PICK x \in es : /\ SameKey(x.edge, e) /\ a.repo = x.edge.repo
                            /\ a.sites = x.edge.sites \cup SitesOf(same)
        BY <3>6
      <4>2. x.edge \in old
        BY <4>1, <1>5, <3>2 DEF SameKey
      <4>3. old = {x.edge}
        BY <4>2, <2>3
      <4>4. all = {x.edge} \cup same
        BY <4>3, <3>3
      <4> HIDE DEF old, all, in, same
      <4>5. a.sites = UNION {d.sites : d \in {x.edge} \cup same}
        BY <4>1, <3>5
      <4> QED BY <4>1, <4>3, <4>4, <4>5, <2>2 DEF old, all, in
    <3>7. CASE /\ \A x \in es : ~SameKey(x.edge, e)
               /\ a.sites = SitesOf(same)
               /\ \E d \in same : a.repo = d.repo
      <4>1. old = {}
        BY <3>7, <3>2, <1>5 DEF SameKey
      <4>2. all = same
        BY <4>1, <3>3
      <4> HIDE DEF old, all, in, same
      <4> QED BY <4>1, <4>2, <3>3, <3>5, <3>7, <2>2 DEF old, all, in
    <3> QED BY <3>4, <3>6, <3>7
  <2> QED BY <1>1, <2>4, <2>5
<1> HIDE DEF staged, es2, l, after, new
<1>8. View!Links(E, KnownIn(nm), l, after)
  BY <1>4, <1>6, <1>7 DEF View!Links, new
<1> QED BY <1>8 DEF l, after, es2, staged

-----------------------------------------------------------------------------
(* Names and declarations.                                                 *)

\* The staged nodes of a name are the ones GraphView lets it take.
LEMMA StagedAreTaken ==
  ASSUME NEW nm, NEW ns, NEW es, NEW next, GraphOK(nm, ns, es, next),
         NEW N, N \subseteq Node, NEW res, res.nodes = N, NEW i \in NodeIDs
  PROVE  LET d == DeclIn(nm, ns)
             of == {n \in N : n.id = i}
             best == IF \A n \in of : View!IsStub(n) THEN of ELSE {n \in of : ~View!IsStub(n)}
         IN  {n \in best : d[i] = NoNode \/ (View!IsStub(d[i]) /\ ~View!IsStub(n))}
               = {n \in StagedNodes(res, nm, ns) : n.id = i}
<1> DEFINE d == DeclIn(nm, ns)
           of == {n \in N : n.id = i}
           best == IF \A n \in of : View!IsStub(n) THEN of ELSE {n \in of : ~View!IsStub(n)}
<1>1. \A n \in of : n \in best <=> ~\E m \in of : ShouldReplaceNode(n, m)
  BY DEF View!IsStub, ShouldReplaceNode
<1>2. best \subseteq of
  OBVIOUS
<1>3. \A n \in of : n \in StagedNodes(res, nm, ns) <=>
        /\ \/ nm[i] = 0
           \/ ns[nm[i]] = NoNode
           \/ ShouldReplaceNode(ns[nm[i]], n)
        /\ ~\E m \in of : ShouldReplaceNode(n, m)
  BY DEF StagedNodes
<1>4. StagedNodes(res, nm, ns) \subseteq N
  BY DEF StagedNodes
<1>5. /\ d[i] = NoNode <=> nm[i] = 0 \/ ns[nm[i]] = NoNode
      /\ nm[i] # 0 => d[i] = ns[nm[i]]
  BY DEF DeclIn
<1> HIDE DEF best, d
<1>6. \A n : n \in best /\ (d[i] = NoNode \/ (View!IsStub(d[i]) /\ ~View!IsStub(n)))
               <=> n \in StagedNodes(res, nm, ns) /\ n.id = i
  <2>1. \A n \in of : n \in best /\ (d[i] = NoNode \/ (View!IsStub(d[i]) /\ ~View!IsStub(n)))
                        <=> n \in StagedNodes(res, nm, ns)
    BY <1>1, <1>3, <1>5 DEF View!IsStub, ShouldReplaceNode
  <2> QED BY <2>1, <1>2, <1>4
<1>7. {n \in best : d[i] = NoNode \/ (View!IsStub(d[i]) /\ ~View!IsStub(n))}
               = {n \in StagedNodes(res, nm, ns) : n.id = i}
  BY <1>6
<1> QED BY <1>7 DEF best, d

\* Filing the staged nodes of a result is what GraphView says of declarations that come in.
LEMMA FileNodesRefines ==
  ASSUME NEW nm, NEW ns, NEW es, GraphOK(nm, ns, es, nextNodeID),
         NEW N, N \subseteq Node, NEW res, res.nodes = N,
         NEW repo, \A n \in N : n.repo = repo,
         NEW num \in Numberings(NewIDs(StagedNodes(res, nm, ns), nm)),
         nextNodeID + Cardinality(NewIDs(StagedNodes(res, nm, ns), nm)) <= MaxNodeID
  PROVE  LET nm2 == ExtendMap(nm, num)
             ns2 == FileNodes(ns, nm2, StagedNodes(res, nm, ns))
         IN  /\ KnownIn(nm2) = KnownIn(nm) \cup {n.id : n \in N}
             /\ View!Declares(N, DeclIn(nm, ns), DeclIn(nm2, ns2))
<1> DEFINE staged == StagedNodes(res, nm, ns)
           new == NewIDs(staged, nm)
           nm2 == ExtendMap(nm, num)
           ns2 == FileNodes(ns, nm2, staged)
           next2 == nextNodeID + Cardinality(new)
<1>1. GraphOK(nm2, ns2, es, next2)
  BY FileNodesOK
<1>2. /\ \A n \in staged : nm2[n.id] # 0 /\ ns2[nm2[n.id]] = n
      /\ \A k \in NumIDs : ns2[k] = ns[k] \/ (ns2[k] \in staged /\ nm2[ns2[k].id] = k)
      /\ \A n \in N : nm2[n.id] # 0
      /\ \A i \in NodeIDs : nm[i] # 0 => nm2[i] = nm[i]
  BY FileNodesKeeps
<1>3. /\ staged \subseteq N /\ \A n \in N : n.id \in NodeIDs
      /\ new \subseteq {n.id : n \in staged}
      /\ \A n \in staged : nm[n.id] = 0 => n.id \in new
  BY DEF StagedNodes, NewIDs, Node
<1>4. \A i \in NodeIDs : nm[i] = 0 /\ i \notin new => nm2[i] = 0
  <2>1. num \in [new -> (nextNodeID + 1)..next2]
    BY DEF Numberings
  <2> HIDE DEF new
  <2> QED BY <2>1 DEF ExtendMap
<1> HIDE DEF staged, new, nm2, ns2, next2
<1>5. KnownIn(nm2) = KnownIn(nm) \cup {n.id : n \in N}
  BY <1>2, <1>3, <1>4 DEF KnownIn
<1>6. ASSUME NEW i \in NodeIDs
      PROVE  LET d == DeclIn(nm, ns)
                 after == DeclIn(nm2, ns2)
                 taken == {n \in staged : n.id = i}
             IN  IF taken = {} THEN after[i] = d[i] ELSE after[i] \in taken
  <2> DEFINE d == DeclIn(nm, ns)
             after == DeclIn(nm2, ns2)
             taken == {n \in staged : n.id = i}
  <2>1. /\ d[i] = IF nm[i] # 0 THEN ns[nm[i]] ELSE NoNode
        /\ after[i] = IF nm2[i] # 0 THEN ns2[nm2[i]] ELSE NoNode
    BY DEF DeclIn
  <2>2. CASE taken # {}
    <3>1. PICK n \in taken : TRUE
      BY <2>2
    <3>2. nm2[i] # 0 /\ ns2[nm2[i]] = n
      BY <3>1, <1>2
    <3> QED BY <2>1, <2>2, <3>1, <3>2
  <2>3. CASE taken = {}
    <3>1. i \notin new
      BY <2>3, <1>3
    <3>2. CASE nm[i] = 0
      BY <3>1, <3>2, <1>4, <2>1, <2>3
    <3>3. CASE nm[i] # 0
      <4>1. nm2[i] = nm[i] /\ nm[i] \in NumIDs
        BY <3>3, <1>2, GraphAssumption DEF GraphOK, NumIDs, GraphAssumption
      <4>2. ns2[nm[i]] = ns[nm[i]]
        <5> SUFFICES ASSUME ns2[nm[i]] # ns[nm[i]] PROVE FALSE
          OBVIOUS
        <5>1. PICK n \in staged : nm2[n.id] = nm[i]
          BY <4>1, <1>2
        <5>2. n.id = i
          BY <5>1, <4>1, <3>3, <1>1, <1>3 DEF GraphOK
        <5> QED BY <5>1, <5>2, <2>3
      <4> QED BY <4>1, <4>2, <3>3, <2>1, <2>3
    <3> QED BY <3>2, <3>3
  <2> QED BY <2>2, <2>3
<1>7. View!Declares(N, DeclIn(nm, ns), DeclIn(nm2, ns2))
  <2> DEFINE d == DeclIn(nm, ns)
             after == DeclIn(nm2, ns2)
  <2> SUFFICES ASSUME NEW i \in NodeIDs
               PROVE  LET of    == {n \in N : n.id = i}
                          best  == IF \A n \in of : View!IsStub(n) THEN of
                                   ELSE {n \in of : ~View!IsStub(n)}
                          taken == {n \in best : d[i] = NoNode
                                                 \/ (View!IsStub(d[i]) /\ ~View!IsStub(n))}
                      IN  IF taken = {} THEN after[i] = d[i] ELSE after[i] \in taken
    BY DEF View!Declares
  <2> DEFINE of    == {n \in N : n.id = i}
             best  == IF \A n \in of : View!IsStub(n) THEN of
                      ELSE {n \in of : ~View!IsStub(n)}
             taken == {n \in best : d[i] = NoNode
                                    \/ (View!IsStub(d[i]) /\ ~View!IsStub(n))}
  <2>1. taken = {n \in staged : n.id = i}
    BY StagedAreTaken DEF staged
  <2>2. IF {n \in staged : n.id = i} = {} THEN after[i] = d[i]
        ELSE after[i] \in {n \in staged : n.id = i}
    BY <1>6
  <2> HIDE DEF taken, after, d, best, of
  <2>3. IF taken = {} THEN after[i] = d[i] ELSE after[i] \in taken
    BY <2>1, <2>2
  <2> QED BY <2>3 DEF taken, after, d, best, of
<1> QED BY <1>5, <1>7 DEF nm2, ns2, staged

\* A merge, whether it succeeds or fails half-way, is what GraphView says of nodes and
\* edges that come in.
LEMMA MergeRefines ==
  ASSUME NEW nm, NEW ns, NEW es, NEW nst, NEW est,
         GraphOK(nm, ns, es, nextNodeID), OneOfAType(es),
         NEW res \in ParseResult,
         \/ MergeSucceeds(res, nm, ns, es, nst, est)
         \/ MergeFailsOnNodes(res, nm, ns, es, nst, est)
         \/ MergeFailsOnEdges(res, nm, ns, es, nst, est)
  PROVE  View!Adds(res.nodes, res.edges, KnownIn(nm), DeclIn(nm, ns), LinksIn(es))
<1> DEFINE N == res.nodes
           E == res.edges
           repo == res.repo
<1>1. /\ N \subseteq Node /\ E \subseteq Edge
      /\ \A n \in N : n.repo = repo
  BY DEF ParseResult
<1>2. res.nodes = N /\ res.edges = E
  OBVIOUS
<1> HIDE DEF N, E, repo
<1> DEFINE staged == StagedNodes(res, nm, ns)
           new == NewIDs(staged, nm)
           nm2(num) == ExtendMap(nm, num)
           ns2(num) == FileNodes(ns, nm2(num), staged)
           more == KnownIn(nm) \cup {n.id : n \in N}
<1>3. ASSUME NEW num \in Numberings(new), nextNodeID + Cardinality(new) <= MaxNodeID
      PROVE  /\ GraphOK(nm2(num), ns2(num), es, nextNodeID + Cardinality(new))
             /\ KnownIn(nm2(num)) = more
             /\ View!Declares(N, DeclIn(nm, ns), DeclIn(nm2(num), ns2(num)))
  BY <1>1, <1>2, <1>3, FileNodesOK, FileNodesRefines
<1> HIDE DEF staged, new, nm2, ns2, more
<1>4. CASE MergeSucceeds(res, nm, ns, es, nst, est)
  <2>1. PICK num \in Numberings(new) :
          /\ nextNodeID + Cardinality(new) <= MaxNodeID
          /\ nodeMap' = nm2(num)
          /\ nodes' = ns2(num)
          /\ edges' = FileEdges(es, nm2(num), StagedEdges(res, nm2(num), es))
    BY <1>4 DEF MergeSucceeds, ns2, nm2, new, staged
  <2>2. View!Links(E, KnownIn(nm2(num)), LinksIn(es), LinksIn(edges'))
    BY <1>1, <1>2, <1>3, <2>1, FileEdgesRefines
  <2>3. /\ KnownIn(nodeMap') = more
        /\ View!Declares(N, DeclIn(nm, ns), DeclIn(nodeMap', nodes'))
        /\ View!Links(E, more, LinksIn(es), LinksIn(edges'))
    BY <1>3, <2>1, <2>2
  <2> QED BY <2>3, <1>2, SeenNow DEF View!Adds, more
<1>5. CASE MergeFailsOnNodes(res, nm, ns, es, nst, est)
  <2>1. nodeMap' = nm /\ nodes' = ns /\ edges' = es
    BY <1>5 DEF MergeFailsOnNodes
  <2> QED BY <2>1, SeenNow DEF View!Adds
<1>6. CASE MergeFailsOnEdges(res, nm, ns, es, nst, est)
  <2>1. PICK num \in Numberings(new) :
          /\ nextNodeID + Cardinality(new) <= MaxNodeID
          /\ nodeMap' = nm2(num)
          /\ nodes' = ns2(num)
          /\ edges' = es
    BY <1>6 DEF MergeFailsOnEdges, ns2, nm2, new, staged
  <2>2. /\ KnownIn(nodeMap') = more
        /\ View!Declares(N, DeclIn(nm, ns), DeclIn(nodeMap', nodes'))
        /\ LinksIn(edges') = LinksIn(es)
    BY <1>3, <2>1
  <2> QED BY <2>2, <1>2, SeenNow DEF View!Adds, more
<1> QED BY <1>4, <1>5, <1>6

-----------------------------------------------------------------------------
(* The other actions.                                                      *)

\* Whatever is read from the stores has a node, unlike names that outlive a removal.
LEMMA LoadedAreLive ==
  ASSUME IInv, LoadFromStorages
  PROVE  \A i \in NodeIDs : nodeMap'[i] # 0 => nodes'[nodeMap'[i]] # NoNode
<1> DEFINE stored(i) == {nodeStore[r][i] : r \in RepoIDs} \ {NoNode}
           ids  == {i \in NodeIDs : stored(i) # {}}
           pick(i) == CHOOSE n \in stored(i) :
                        ~\E m \in stored(i) : ShouldReplaceNode(n, m)
<1>1. PICK num \in Numberings(ids) :
        /\ nodeMap' = [i \in NodeIDs |-> IF i \in ids THEN num[i] ELSE 0]
        /\ nodes' = [k \in NumIDs |->
                       IF \E i \in ids : num[i] = k
                       THEN pick(CHOOSE i \in ids : num[i] = k) ELSE NoNode]
  BY DEF LoadFromStorages
<1>2. nodeMap' \in [NodeIDs -> 0..MaxNodeID]
  BY LoadFromStoragesOK DEF IInv, GraphOK
<1>3. ASSUME NEW i \in ids
      PROVE  pick(i) # NoNode
  <2>1. \E n \in stored(i) : ~\E m \in stored(i) : ShouldReplaceNode(n, m)
    <3>1. PICK n \in stored(i) : TRUE
      OBVIOUS
    <3> QED BY <3>1 DEF ShouldReplaceNode
  <2>2. pick(i) \in stored(i)
    BY <2>1
  <2>3. NoNode \notin stored(i)
    OBVIOUS
  <2> HIDE DEF pick, stored
  <2> QED BY <2>2, <2>3
<1> HIDE DEF ids, pick, stored
<1>4. ASSUME NEW i \in NodeIDs, nodeMap'[i] # 0
      PROVE  nodes'[nodeMap'[i]] # NoNode
  <2>1. i \in ids /\ nodeMap'[i] = num[i]
    BY <1>1, <1>4
  <2>2. nodeMap'[i] \in NumIDs
    BY <1>2, <1>4, GraphAssumption DEF NumIDs, GraphAssumption
  <2>3. PICK j \in ids : j = CHOOSE x \in ids : num[x] = num[i]
    BY <2>1
  <2>4. nodes'[num[i]] = pick(j)
    BY <2>1, <2>2, <2>3, <1>1
  <2> QED BY <2>1, <2>4, <1>3
<1> QED BY <1>4

LEMMA LoadRefines ==
  ASSUME IInv, SInv, LoadFromStorages
  PROVE  View!Load
<1>1. IInv' /\ SInv'
  BY LoadFromStoragesOK, LoadFromStoragesAgrees
<1>2. nextNodeID = 0
  BY DEF LoadFromStorages
<1>3. KnownIn(nodeMap) = {}
  <2>1. \A i \in NodeIDs : nodeMap[i] \in Nat /\ nodeMap[i] <= 0
    BY <1>2, GraphAssumption DEF IInv, GraphOK, GraphAssumption
  <2> QED BY <2>1 DEF KnownIn
<1>4. KnownIn(nodeMap') = {i \in NodeIDs : DeclIn(nodeMap', nodes')[i] # NoNode}
  BY LoadedAreLive DEF KnownIn, DeclIn
<1>5. \A e \in LinksIn(edges') : e.from \in KnownIn(nodeMap') /\ e.to \in KnownIn(nodeMap')
  <2>1. \A x \in edges' : /\ x.edge.from \in NodeIDs /\ x.edge.to \in NodeIDs
                          /\ nodeMap'[x.edge.from] # 0 /\ nodeMap'[x.edge.to] # 0
    BY <1>1 DEF IInv, GraphOK, GraphEdge, Edge, NumIDs
  <2> QED BY <2>1 DEF LinksIn, KnownIn
<1>6. \A a, b \in LinksIn(edges') : View!SameEnds(a, b) => a = b
  BY <1>1 DEF SInv, Agree, OneOfAType, LinksIn, View!SameEnds, SameKey
<1> QED BY <1>3, <1>4, <1>5, <1>6, SeenNow DEF View!Load

LEMMA AddNodeRefines ==
  ASSUME IInv, NEW n \in SingleNodes, AddNode(n)
  PROVE  View!Add({n}, {})
<1> DEFINE res == [nodes |-> {n}]
           N == {n}
           repo == n.repo
           staged == StagedNodes(res, nodeMap, nodes)
           new == NewIDs(staged, nodeMap)
<1>1. N \subseteq Node /\ res.nodes = N /\ \A m \in N : m.repo = repo
  BY GraphAssumption DEF GraphAssumption
<1>2. PICK num \in Numberings(new) : nodeMap' = ExtendMap(nodeMap, num)
  BY DEF AddNode
<1>3. /\ nextNodeID + Cardinality(new) <= MaxNodeID
      /\ nodes' = FileNodes(nodes, nodeMap', staged)
      /\ edges' = edges
  BY DEF AddNode
<1>4. GraphOK(nodeMap, nodes, edges, nextNodeID)
  BY DEF IInv
<1> HIDE DEF res, N, repo
<1>5. /\ KnownIn(nodeMap') = KnownIn(nodeMap) \cup {m.id : m \in N}
      /\ View!Declares(N, DeclIn(nodeMap, nodes), DeclIn(nodeMap', nodes'))
  BY <1>1, <1>2, <1>3, <1>4, FileNodesRefines
<1>6. LinksIn(edges') = LinksIn(edges)
  BY <1>3
<1>7. View!Add(N, {})
  BY <1>5, <1>6, SeenNow DEF View!Add, View!Adds
<1> QED BY <1>7 DEF N

LEMMA AddEdgeRefines ==
  ASSUME IInv, SInv, NEW e \in SingleEdges, AddEdge(e)
  PROVE  View!Link(e)
<1> DEFINE res == [edges |-> {e}]
           E == {e}
<1>1. E \subseteq Edge /\ res.edges = E /\ e.from \in NodeIDs /\ e.to \in NodeIDs
  BY GraphAssumption DEF GraphAssumption, Edge
<1>2. /\ nodes' = nodes /\ nodeMap' = nodeMap
      /\ edges' = FileEdges(edges, nodeMap, StagedEdges(res, nodeMap, edges))
      /\ Live(e.from) /\ Known(e.to)
  BY DEF AddEdge
<1>3. GraphOK(nodeMap, nodes, edges, nextNodeID) /\ OneOfAType(edges)
  BY DEF IInv, SInv, Agree
<1> HIDE DEF res, E
<1>4. View!Links(E, KnownIn(nodeMap), LinksIn(edges), LinksIn(edges'))
  BY <1>1, <1>2, <1>3, FileEdgesRefines
<1>5. View!Declares({}, DeclIn(nodeMap, nodes), DeclIn(nodeMap, nodes))
  BY DEF View!Declares
<1>6. KnownIn(nodeMap) \cup {n.id : n \in {}} = KnownIn(nodeMap)
  OBVIOUS
<1>7. View!Add({}, E)
  BY <1>2, <1>4, <1>5, <1>6, SeenNow DEF View!Add, View!Adds
<1>8. e.from \in View!Declared /\ e.to \in {i \in NodeIDs : Known(i)}
  BY <1>1, <1>2 DEF View!Declared, Live
<1> QED BY <1>7, <1>8 DEF View!Link, E

\* The slot of a name holds its node and no other.
LEMMA SlotOfName ==
  ASSUME IInv, NEW i \in NodeIDs, nodeMap[i] # 0
  PROVE  /\ nodeMap[i] \in NumIDs
         /\ nodes[nodeMap[i]] # NoNode => nodes[nodeMap[i]].id = i
<1>1. nodeMap[i] \in NumIDs
  BY GraphAssumption DEF IInv, GraphOK, NumIDs, GraphAssumption
<1>2. ASSUME nodes[nodeMap[i]] # NoNode
      PROVE  nodes[nodeMap[i]].id = i
  <2>1. nodes[nodeMap[i]].id \in NodeIDs /\ nodeMap[nodes[nodeMap[i]].id] = nodeMap[i]
    BY <1>1, <1>2 DEF IInv, GraphOK, Node
  <2> QED BY <2>1 DEF IInv, GraphOK
<1> QED BY <1>1, <1>2

LEMMA RemoveRefines ==
  ASSUME IInv, NEW p \in PkgPaths, RemovePackageSucceeds(p)
  PROVE  View!Remove(p)
<1> DEFINE gone == NodesOfPackage(p)
           d == DeclIn(nodeMap, nodes)
           names == {i \in NodeIDs : d[i] # NoNode /\ PkgPathOf[i] = p}
<1>1. /\ nodeMap' = nodeMap
      /\ nodes' = [k \in NumIDs |-> IF k \in gone THEN NoNode ELSE nodes[k]]
      /\ edges' = edges \ OutEdges(gone)
  BY DEF RemovePackageSucceeds
<1>2. \A i \in NodeIDs : nodeMap[i] # 0 =>
        /\ nodeMap[i] \in NumIDs
        /\ nodeMap[i] \in gone <=> i \in names
  BY SlotOfName DEF NodesOfPackage, DeclIn
<1>3. \A i \in NodeIDs : nodeMap[i] = 0 => i \notin names
  BY DEF DeclIn
<1>4. \A x \in edges : /\ x.edge.from \in NodeIDs /\ nodeMap[x.edge.from] # 0
                       /\ x.fromID = nodeMap[x.edge.from]
  BY DEF IInv, GraphOK, GraphEdge, Edge, NumIDs
<1> HIDE DEF gone, names
<1>5. DeclIn(nodeMap', nodes') = [i \in NodeIDs |-> IF i \in names THEN NoNode ELSE d[i]]
  <2>1. ASSUME NEW i \in NodeIDs
        PROVE  (IF nodeMap[i] # 0 THEN nodes'[nodeMap[i]] ELSE NoNode)
                 = IF i \in names THEN NoNode ELSE d[i]
    <3>1. CASE nodeMap[i] = 0
      BY <3>1, <1>3 DEF DeclIn
    <3>2. CASE nodeMap[i] # 0
      <4>1. /\ nodeMap[i] \in NumIDs
            /\ nodeMap[i] \in gone <=> i \in names
            /\ d[i] = nodes[nodeMap[i]]
        BY <3>2, <1>2 DEF DeclIn
      <4> QED BY <3>2, <4>1, <1>1
    <3> QED BY <3>1, <3>2
  <2> QED BY <2>1, <1>1 DEF DeclIn
<1>6. LinksIn(edges') = {e \in LinksIn(edges) : e.from \notin names}
  <2>1. \A x \in edges : x \in edges' <=> x.edge.from \notin names
    <3> SUFFICES ASSUME NEW x \in edges PROVE x \in edges' <=> x.edge.from \notin names
      OBVIOUS
    <3>1. x \in OutEdges(gone) <=> x.fromID \in gone
      BY DEF OutEdges
    <3> QED BY <3>1, <1>1, <1>2, <1>4
  <2> QED BY <2>1, <1>1 DEF LinksIn
<1>7. View!OfPackage(p) = names
  BY SeenNow DEF View!OfPackage, View!Declared, names
<1> HIDE DEF d
<1>8. /\ KnownIn(nodeMap') = KnownIn(nodeMap)
      /\ DeclIn(nodeMap', nodes')
           = [i \in NodeIDs |-> IF i \in View!OfPackage(p) THEN NoNode
                                ELSE DeclIn(nodeMap, nodes)[i]]
      /\ LinksIn(edges') = {e \in LinksIn(edges) : e.from \notin View!OfPackage(p)}
  BY <1>1, <1>5, <1>6, <1>7 DEF d
<1> QED BY <1>8, SeenNow DEF View!Remove

\* The folder tree and its links are the same set of names and links as in GraphView.
LEMMA TreeSeen ==
  ASSUME IInv, NEW r \in RepoIDs
  PROVE  /\ \A i \in NodeIDs : i \in View!Tree(r)
              <=> nodeMap[i] # 0 /\ nodeMap[i] \in StructureNodes(r)
         /\ \A x \in edges : x.edge \in View!TreeLinks(r) <=> x \in StructureEdges(r)
<1> DEFINE d == DeclIn(nodeMap, nodes)
<1>1. \A i \in NodeIDs : d[i] = NodeAt(i)
  BY DEF DeclIn, NodeAt, Known
<1>2. \A i \in NodeIDs : i \in View!Tree(r)
        <=> Live(i) /\ NodeAt(i).type \in {"FOLDER", "FILE"} /\ NodeAt(i).repo = r
  BY SeenNow, <1>1 DEF View!Tree, View!InTree, Live
<1>3. ASSUME NEW i \in NodeIDs
      PROVE  i \in View!Tree(r) <=> nodeMap[i] # 0 /\ nodeMap[i] \in StructureNodes(r)
  <2>1. CASE nodeMap[i] = 0
    BY <2>1, <1>2 DEF Live, NodeAt, Known
  <2>2. CASE nodeMap[i] # 0
    <3>1. nodeMap[i] \in NumIDs /\ NodeAt(i) = nodes[nodeMap[i]]
      BY <2>2, SlotOfName DEF NodeAt, Known
    <3> QED BY <2>2, <3>1, <1>2 DEF StructureNodes, IsStructureOwned, StructureKinds, Live
  <2> QED BY <2>1, <2>2
<1>4. \A x \in edges : x.edge.from \in NodeIDs /\ x.edge.to \in NodeIDs
  BY DEF IInv, GraphOK, GraphEdge, Edge
<1>5. ASSUME NEW x \in edges
      PROVE  x.edge \in View!TreeLinks(r) <=> x \in StructureEdges(r)
  <2> DEFINE e == x.edge
  <2>1. /\ e.from \in View!Declared <=> Live(e.from)
        /\ e.to \in View!Declared <=> Live(e.to)
    BY <1>1, <1>4, SeenNow DEF View!Declared, Live
  <2>2. d[e.from] = NodeAt(e.from) /\ d[e.to] = NodeAt(e.to)
    BY <1>1, <1>4
  <2>3. e \in LinksIn(edges)
    BY DEF LinksIn
  <2>4. e \in View!TreeLinks(r) <=>
          /\ e.type = "CONTAINS" /\ e.repo = r
          /\ \/ e.from \in View!Declared /\ d[e.from].type \in {"REPO", "FOLDER"}
             \/ e.to \in View!Declared /\ d[e.to].type = "FOLDER"
    BY <2>3, SeenNow DEF View!TreeLinks
  <2>5. x \in StructureEdges(r) <=>
          /\ e.type = "CONTAINS" /\ e.repo = r
          /\ \/ Live(e.from) /\ NodeAt(e.from).type \in {"REPO", "FOLDER"}
             \/ Live(e.to) /\ NodeAt(e.to).type = "FOLDER"
    BY DEF StructureEdges, IsStructureEndpoint
  <2> QED BY <2>1, <2>2, <2>4, <2>5
<1> QED BY <1>3, <1>5

\* What removing the folder tree leaves is what GraphView merges the new one into.
LEMMA RestSeen ==
  ASSUME IInv, SInv, NEW r \in RepoIDs
  PROVE  LET gone == StructureNodes(r)
             nm == [i \in NodeIDs |-> IF nodeMap[i] \in gone THEN 0 ELSE nodeMap[i]]
             ns == [k \in NumIDs |-> IF k \in gone THEN NoNode ELSE nodes[k]]
             es == (edges \ StructureEdges(r)) \ OutEdges(gone)
         IN  /\ KnownIn(nm) = KnownIn(nodeMap) \ View!Tree(r)
             /\ DeclIn(nm, ns) = [i \in NodeIDs |-> IF i \in View!Tree(r) THEN NoNode
                                                    ELSE DeclIn(nodeMap, nodes)[i]]
             /\ LinksIn(es) = {e \in LinksIn(edges) \ View!TreeLinks(r) :
                                  e.from \notin View!Tree(r)}
<1> DEFINE gone == StructureNodes(r)
           tree == View!Tree(r)
           cut == View!TreeLinks(r)
           nm == [i \in NodeIDs |-> IF nodeMap[i] \in gone THEN 0 ELSE nodeMap[i]]
           ns == [k \in NumIDs |-> IF k \in gone THEN NoNode ELSE nodes[k]]
           es == (edges \ StructureEdges(r)) \ OutEdges(gone)
           d == DeclIn(nodeMap, nodes)
<1>1. /\ \A i \in NodeIDs : i \in tree <=> nodeMap[i] # 0 /\ nodeMap[i] \in gone
      /\ \A x \in edges : x.edge \in cut <=> x \in StructureEdges(r)
  BY TreeSeen
<1>2. \A i \in NodeIDs : nodeMap[i] # 0 => nodeMap[i] \in NumIDs
  BY SlotOfName
<1>3. \A x \in edges : /\ x.edge.from \in NodeIDs
                       /\ x.fromID = nodeMap[x.edge.from] /\ x.fromID # 0
  BY DEF IInv, GraphOK, GraphEdge, Edge, NumIDs
<1>4. 0 \notin gone
  BY DEF StructureNodes, NumIDs
<1> HIDE DEF gone, tree, cut
<1>5. KnownIn(nm) = KnownIn(nodeMap) \ tree
  BY <1>1, <1>4 DEF KnownIn
<1>6. DeclIn(nm, ns) = [i \in NodeIDs |-> IF i \in tree THEN NoNode ELSE d[i]]
  <2>1. ASSUME NEW i \in NodeIDs
        PROVE  (IF nm[i] # 0 THEN ns[nm[i]] ELSE NoNode) = IF i \in tree THEN NoNode ELSE d[i]
    <3>1. d[i] = IF nodeMap[i] # 0 THEN nodes[nodeMap[i]] ELSE NoNode
      BY DEF DeclIn
    <3> HIDE DEF d
    <3> QED BY <3>1, <1>1, <1>2, <1>4
  <2> HIDE DEF nm, ns, d
  <2> QED BY <2>1 DEF DeclIn
<1>7. LinksIn(es) = {e \in LinksIn(edges) \ cut : e.from \notin tree}
  <2>1. ASSUME NEW x \in edges
        PROVE  x \in es <=> x.edge \notin cut /\ x.edge.from \notin tree
    <3>1. x \in OutEdges(gone) <=> x.fromID \in gone
      BY DEF OutEdges
    <3> QED BY <3>1, <1>1, <1>3
  <2>2. es \subseteq edges
    OBVIOUS
  <2> HIDE DEF es
  <2> QED BY <2>1, <2>2 DEF LinksIn
<1> HIDE DEF nm, ns, es, d
<1>8. /\ KnownIn(nm) = KnownIn(nodeMap) \ tree
      /\ DeclIn(nm, ns) = [i \in NodeIDs |-> IF i \in tree THEN NoNode ELSE d[i]]
      /\ LinksIn(es) = {e \in LinksIn(edges) \ cut : e.from \notin tree}
  BY <1>5, <1>6, <1>7
<1> QED BY <1>8 DEF nm, ns, es, d, gone, tree, cut

LEMMA ReplaceRefines ==
  ASSUME IInv, SInv, NEW res \in StructureResults, ReplaceRepositoryStructure(res)
  PROVE  View!ReplaceTree(res)
<1> DEFINE r == res.repo
<1>1. res \in ParseResult /\ r \in RepoIDs
  BY GraphAssumption DEF GraphAssumption, StructureResult, ParseResult
<1>2. CASE ReplaceStructureFailsOnRemoval(res)
  <2>1. PICK done \in SUBSET StructureEdges(r) :
          edges' = edges \ done /\ nodeMap' = nodeMap /\ nodes' = nodes
    <3>1. CASE edges' = edges /\ nodeMap' = nodeMap /\ nodes' = nodes
      <4>1. edges' = edges \ {} /\ {} \in SUBSET StructureEdges(r)
        BY <3>1
      <4> QED BY <3>1, <4>1
    <3>2. CASE \E done \in SUBSET StructureEdges(r) :
                 edges' = edges \ done /\ nodeMap' = nodeMap /\ nodes' = nodes
      BY <3>2
    <3> QED BY <1>2, <3>1, <3>2 DEF ReplaceStructureFailsOnRemoval, memory
  <2> DEFINE part == LinksIn(done)
  <2>2. done \subseteq edges
    BY <2>1 DEF StructureEdges
  <2>3. part \subseteq View!TreeLinks(r)
    BY <1>1, <2>1, <2>2, TreeSeen DEF LinksIn
  <2>4. LinksIn(edges \ done) = LinksIn(edges) \ part
    <3>1. \A x, y \in edges : x.edge = y.edge => x = y
      BY DEF SInv, Agree, OneOfAType, SameKey
    <3> QED BY <2>2, <3>1 DEF LinksIn
  <2> HIDE DEF part
  <2>5. \E p \in SUBSET View!TreeLinks(r) : LinksIn(edges') = LinksIn(edges) \ p
    BY <2>1, <2>3, <2>4
  <2> QED BY <2>1, <2>5, SeenNow DEF View!ReplaceTree
<1>3. CASE ~ReplaceStructureFailsOnRemoval(res)
  <2> DEFINE gone  == StructureNodes(res.repo)
             owned == {nodes[k] : k \in gone}
             out   == StructureEdges(res.repo)
             nm  == [i \in NodeIDs |-> IF nodeMap[i] \in gone THEN 0 ELSE nodeMap[i]]
             ns  == [k \in NumIDs |-> IF k \in gone THEN NoNode ELSE nodes[k]]
             es  == (edges \ out) \ OutEdges(gone)
             nst == DeleteNodes(nodeStore, owned)
             est == DeleteEdges(edgeStore, AllVersions({x.edge : x \in out}))
  <2>1. GraphOK(nm, ns, es, nextNodeID)
    BY <1>1, StructureRemovalOK
  <2>2. OneOfAType(es)
    BY DEF SInv, Agree, OneOfAType
  <2>3. \/ MergeSucceeds(res, nm, ns, es, nst, est)
        \/ MergeFailsOnNodes(res, nm, ns, es, nst, est)
        \/ MergeFailsOnEdges(res, nm, ns, es, nst, est)
    BY <1>3 DEF ReplaceRepositoryStructure
  <2>4. /\ KnownIn(nm) = KnownIn(nodeMap) \ View!Tree(r)
        /\ DeclIn(nm, ns) = [i \in NodeIDs |-> IF i \in View!Tree(r) THEN NoNode
                                               ELSE DeclIn(nodeMap, nodes)[i]]
        /\ LinksIn(es) = {e \in LinksIn(edges) \ View!TreeLinks(r) : e.from \notin View!Tree(r)}
    BY <1>1, RestSeen
  <2> HIDE DEF nm, ns, es, nst, est
  <2>5. View!Adds(res.nodes, res.edges, KnownIn(nm), DeclIn(nm, ns), LinksIn(es))
    BY <1>1, <2>1, <2>2, <2>3, MergeRefines
  <2>6. View!Adds(res.nodes, res.edges, KnownIn(nodeMap) \ View!Tree(r),
                  [i \in NodeIDs |-> IF i \in View!Tree(r) THEN NoNode
                                     ELSE DeclIn(nodeMap, nodes)[i]],
                  {e \in LinksIn(edges) \ View!TreeLinks(r) : e.from \notin View!Tree(r)})
    BY <2>4, <2>5
  <2> QED BY <2>6, SeenNow DEF View!ReplaceTree
<1> QED BY <1>2, <1>3

-----------------------------------------------------------------------------
(* The theorem.                                                            *)

LEMMA InitRefines == Init => View!Init
BY SeenNow DEF Init, View!Init, KnownIn, DeclIn, LinksIn

\* Every call is one step of GraphView or none.
LEMMA NextRefines == IInv /\ SInv /\ [Next]_vars => [View!Next]_(View!vars)
<1> SUFFICES ASSUME IInv, SInv, [Next]_vars PROVE [View!Next]_(View!vars)
  OBVIOUS
<1>1. CASE NewGraph
  <2>1. View!Restart
    BY <1>1, SeenNow DEF NewGraph, View!Restart, KnownIn, DeclIn, LinksIn
  <2> QED BY <2>1 DEF View!Next
<1>2. ASSUME UNCHANGED memory PROVE UNCHANGED View!vars
  BY <1>2 DEF memory, View!vars, Known, NodeAt, GraphEdges
<1>3. CASE LoadFromStorages
  BY <1>3, LoadRefines DEF View!Next
<1>4. ASSUME NEW r \in RepoIDs, SetRepoStore(r) PROVE UNCHANGED memory
  BY <1>4 DEF SetRepoStore
<1>5. ASSUME NEW n \in SingleNodes, AddNode(n) PROVE View!Next
  BY <1>5, AddNodeRefines DEF View!Next
<1>6. ASSUME NEW e \in SingleEdges, AddEdge(e) PROVE View!Next
  BY <1>6, AddEdgeRefines DEF View!Next
<1>7. ASSUME NEW res \in ParseResults, BuildFromParseResults(res) PROVE View!Next
  <2>1. res \in ParseResult
    BY GraphAssumption DEF GraphAssumption
  <2>2. GraphOK(nodeMap, nodes, edges, nextNodeID) /\ OneOfAType(edges)
    BY DEF IInv, SInv, Agree
  <2>3. View!Adds(res.nodes, res.edges, KnownIn(nodeMap), DeclIn(nodeMap, nodes), LinksIn(edges))
    BY <1>7, <2>1, <2>2, MergeRefines DEF BuildFromParseResults
  <2>4. View!Add(res.nodes, res.edges)
    BY <2>3, SeenNow DEF View!Add
  <2> QED BY <2>4 DEF View!Next
<1>8. ASSUME NEW p \in PkgPaths, RemovePackage(p) PROVE View!Next \/ UNCHANGED memory
  <2>1. CASE RemovePackageSucceeds(p)
    BY <2>1, RemoveRefines DEF View!Next
  <2>2. CASE RemovePackageFails(p)
    BY <2>2 DEF RemovePackageFails
  <2> QED BY <1>8, <2>1, <2>2 DEF RemovePackage
<1>9. ASSUME NEW res \in StructureResults, ReplaceRepositoryStructure(res) PROVE View!Next
  BY <1>9, ReplaceRefines DEF View!Next
<1>10. CASE UNCHANGED vars
  BY <1>2, <1>10 DEF vars
<1> QED BY <1>1, <1>2, <1>3, <1>4, <1>5, <1>6, <1>7, <1>8, <1>9, <1>10 DEF Next

\* To a reader the graph of graph.go is a graph of named nodes that each call changes at
\* once or not at all, whatever fails half-way in the stores.
THEOREM Refinement == Spec => ImplementsView
<1>1. Init => View!Init
  BY InitRefines
<1>2. IInv /\ SInv /\ [Next]_vars => [View!Next]_(View!vars)
  BY NextRefines
<1> QED BY <1>1, <1>2, Inductive, Agreement, PTL DEF Spec, ImplementsView, View!Spec
=============================================================================
