---------------------------- MODULE BlastRadius ----------------------------
(***************************************************************************)
(* QueryBuilder.GetBlastRadiusDepth (internal/graph/query.go): everything  *)
(* that depends on a set of nodes, at most maxDepth hops away and at most  *)
(* maxNodes of them.  The call holds the read lock from its first to its   *)
(* last line, so the graph is a parameter that does not change; the        *)
(* actions are the turns of its two loops, which the loop invariants are   *)
(* about.  Node ids are numbers because the inner loop runs in id order.   *)
(***************************************************************************)
EXTENDS Traversal, Functions

CONSTANTS
  NodeIDs,    \* node ids; the sort order of the code is their order
  EdgeTypes,  \* the types of edges there are
  Graphs,     \* the graphs a query may meet: live nodes and edges
  Requests    \* the arguments: sources, maxDepth and maxNodes

QueryAssumption ==
  /\ NodeIDs \subseteq Nat /\ IsFiniteSet(NodeIDs)
  /\ \A g \in Graphs :
       /\ g.live \subseteq NodeIDs
       /\ \A e \in g.edges : e.from \in g.live /\ e.to \in NodeIDs /\ e.type \in EdgeTypes
  /\ \A r \in Requests :
       /\ r.sources \in Seq(NodeIDs)
       /\ r.maxDepth \in Int /\ r.maxNodes \in Int

VARIABLES
  graph,      \* g.nodes and g.edges under the read lock
  request,    \* nodeIDs, maxDepth, maxNodes
  pc,         \* "start", "head" (outer loop), "scan" (inner loop), "done", "failed"
  queue,      \* NodeDistance values in the order they were found
  head,       \* the index of the outer loop
  inbound,    \* what the inner loop still has to look at
  seen,       \* node id -> distance; resultsByID is its part outside the sources
  truncated   \* the second result

vars == <<graph, request, pc, queue, head, inbound, seen, truncated>>

-----------------------------------------------------------------------------
\* isDependencyEdge
DependencyTypes == {"CALLS", "IMPORTS", "REFERENCES", "INSTANTIATES"}
IsDependencyEdge(type) == type \in DependencyTypes

SourceIDs == Range(request.sources)
ResultIDs == DOMAIN seen \ SourceIDs

\* inboundDependencyNodeIDsByTargetLocked: who depends on id, in id order.
InboundIDs(id) ==
  InOrder({e.from : e \in {x \in graph.edges : x.to = id /\ IsDependencyEdge(x.type)}})

\* The sources once each, in the order they were given, at distance 0.
FirstUses ==
  InOrder({i \in DOMAIN request.sources : \A j \in 1..(i - 1) : request.sources[j] # request.sources[i]})
Seeds == [k \in DOMAIN FirstUses |-> [node |-> request.sources[FirstUses[k]], distance |-> 0]]

Init ==
  /\ graph \in Graphs
  /\ request \in Requests
  /\ pc = "start" /\ queue = <<>> /\ head = 1 /\ inbound = <<>>
  /\ seen = [id \in {} |-> 0]
  /\ truncated = FALSE

\* Nothing to do, or an id the graph does not know (requireNodeIDLocked).
Reject ==
  /\ pc = "start"
  /\ pc' = IF request.maxDepth <= 0 \/ request.sources = <<>> THEN "done" ELSE "failed"
  /\ request.maxDepth <= 0 \/ request.sources = <<>> \/ ~(SourceIDs \subseteq graph.live)
  /\ UNCHANGED <<graph, request, queue, head, inbound, seen, truncated>>

Start ==
  /\ pc = "start"
  /\ request.maxDepth > 0 /\ request.sources # <<>> /\ SourceIDs \subseteq graph.live
  /\ pc' = "head"
  /\ queue' = Seeds
  /\ seen' = [id \in SourceIDs |-> 0]
  /\ UNCHANGED <<graph, request, head, inbound, truncated>>

\* One turn of the outer loop.  Faulty variant: one hop too many.
ExpandsLate(current) == current.distance <= request.maxDepth
Expands(current) == current.distance < request.maxDepth

Advance ==
  /\ pc = "head" /\ head <= Len(queue)
  /\ IF Expands(queue[head])
     THEN inbound' = InboundIDs(queue[head].node) /\ pc' = "scan" /\ UNCHANGED head
     ELSE head' = head + 1 /\ UNCHANGED <<inbound, pc>>
  /\ UNCHANGED <<graph, request, queue, seen, truncated>>

Finish ==
  /\ pc = "head" /\ head > Len(queue)
  /\ pc' = "done"
  /\ UNCHANGED <<graph, request, queue, head, inbound, seen, truncated>>

Skipped(id, distance) ==
  \/ id \in SourceIDs
  \/ id \notin graph.live
  \/ id \in DOMAIN seen /\ seen[id] <= distance
Full == request.maxNodes > 0 /\ Cardinality(ResultIDs) >= request.maxNodes
Enqueue(nd) == Append(queue, nd)

\* One turn of the inner loop.
Visit ==
  /\ pc = "scan" /\ inbound # <<>>
  /\ inbound' = Tail(inbound)
  /\ LET id == Head(inbound)
         distance == queue[head].distance + 1
     IN  IF Skipped(id, distance)
         THEN UNCHANGED <<pc, queue, seen, truncated>>
         ELSE IF Full
         THEN pc' = "done" /\ truncated' = TRUE /\ UNCHANGED <<queue, seen>>
         ELSE /\ seen' = [n \in DOMAIN seen \cup {id} |-> IF n = id THEN distance ELSE seen[n]]
              /\ queue' = Enqueue([node |-> id, distance |-> distance])
              /\ UNCHANGED <<pc, truncated>>
  /\ UNCHANGED <<graph, request, head>>

Scanned ==
  /\ pc = "scan" /\ inbound = <<>>
  /\ pc' = "head" /\ head' = head + 1
  /\ UNCHANGED <<graph, request, queue, inbound, seen, truncated>>

Next == Reject \/ Start \/ Advance \/ Finish \/ Visit \/ Scanned

Spec == Init /\ [][Next]_vars

-----------------------------------------------------------------------------
(* What a dependent is, without queue, caps or order.                      *)

\* From a node to the live nodes that depend on it: the live nodes within k steps of a
\* source depend on it over at most k edges, every node on the way being live.
DependsOn ==
  {<<e.to, e.from>> : e \in {x \in graph.edges : x.from \in graph.live /\ IsDependencyEdge(x.type)}}
Hops == Within(DependsOn, SourceIDs)
Dependents(k) == Hops[k] \ SourceIDs
Distance(n) == CHOOSE k \in 0..request.maxDepth : n \in Hops[k] /\ \A j \in 0..(k - 1) : n \notin Hops[j]

TypeOK ==
  /\ graph \in Graphs /\ request \in Requests
  /\ pc \in {"start", "head", "scan", "done", "failed"}
  /\ queue \in Seq([node : NodeIDs, distance : Nat])
  /\ head \in 1..(Len(queue) + 1)
  /\ inbound \in Seq(NodeIDs)
  /\ DOMAIN seen \subseteq NodeIDs /\ \A n \in DOMAIN seen : seen[n] \in Nat
  /\ truncated \in BOOLEAN

\* The result of an untruncated call is exactly the live nodes that depend on a
\* source over at most maxDepth hops, each with its true distance
\* (GetBlastRadiusDepth: "returns inbound dependency nodes up to maxDepth hops away").
ExactUnlessTruncated ==
  pc = "done" /\ ~truncated /\ request.maxDepth > 0 /\ request.sources # <<>> =>
    /\ ResultIDs = Dependents(request.maxDepth)
    /\ \A n \in ResultIDs : seen[n] = Distance(n)

\* The flag is set exactly when the limit left a dependent out: a caller that sees it
\* unset may rely on the list being complete, one that sees it set has a full page.
TruncatedIffCut ==
  pc = "done" /\ request.maxDepth > 0 /\ request.sources # <<>> =>
    (truncated <=> /\ request.maxNodes > 0
                   /\ Cardinality(Dependents(request.maxDepth)) > request.maxNodes)

\* What a limited call keeps is the nearest part: no node it leaves out is nearer than
\* one it returns, and the distances it returns are true.
NearestKept ==
  pc = "done" /\ truncated =>
    /\ Cardinality(ResultIDs) = request.maxNodes
    /\ \A n \in ResultIDs : n \in Dependents(request.maxDepth) /\ seen[n] = Distance(n)
    /\ \A n \in ResultIDs, m \in Dependents(request.maxDepth) \ ResultIDs :
         Distance(n) <= Distance(m)
=============================================================================
