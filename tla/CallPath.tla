------------------------------ MODULE CallPath ------------------------------
(***************************************************************************)
(* QueryBuilder.FindPath (internal/graph/query.go): breadth-first search   *)
(* for a shortest call path, then the walk back over the predecessors.     *)
(* The successors of a node are a Go map, so each turn of the inner loop   *)
(* takes any of them that is left.  The read lock is held throughout.      *)
(***************************************************************************)
EXTENDS Traversal

CONSTANTS
  NodeIDs,    \* node ids
  EdgeTypes,  \* the types of edges there are
  Graphs      \* the graphs a query may meet: live nodes, known ids and edges

PathAssumption ==
  /\ IsFiniteSet(NodeIDs)
  /\ \A g \in Graphs :
       /\ g.live \subseteq g.known /\ g.known \subseteq NodeIDs
       /\ \A e \in g.edges : e.from \in g.live /\ e.to \in g.known /\ e.type \in EdgeTypes

VARIABLES
  graph,      \* g.nodes, g.nodeMap and g.edges under the read lock
  source, target,
  pc,         \* "start", "head", "scan", "walk", "found", "none", "unknown"
  queue, head, seen, prev,  \* locals of shortestPathIDs
  next,       \* successors the inner loop has not looked at
  path        \* reconstructPathIDs, from the target back

vars == <<graph, source, target, pc, queue, head, seen, prev, next, path>>

-----------------------------------------------------------------------------
\* hasCallEdge on the edges between two nodes.
HasCallEdge(a, b) == \E e \in graph.edges : e.from = a /\ e.to = b /\ e.type = "CALLS"

\* The keys of g.edges[id].
Successors(id) == {e.to : e \in {x \in graph.edges : x.from = id}}

Init ==
  /\ graph \in Graphs
  /\ source \in NodeIDs /\ target \in NodeIDs
  /\ pc = "start"
  /\ queue = <<>> /\ head = 1 /\ seen = {} /\ prev = [n \in {} |-> 0]
  /\ next = {} /\ path = <<>>

\* The checks of FindPath, then the shortcut of shortestPathIDs.
Start ==
  /\ pc = "start"
  /\ IF ~({source, target} \subseteq graph.known) \/ ~({source, target} \subseteq graph.live)
     THEN pc' = "unknown" /\ UNCHANGED <<queue, seen, path>>
     ELSE IF source = target
     THEN pc' = "found" /\ path' = <<source>> /\ UNCHANGED <<queue, seen>>
     ELSE pc' = "head" /\ queue' = <<source>> /\ seen' = {source} /\ UNCHANGED path
  /\ UNCHANGED <<graph, source, target, head, prev, next>>

Expand ==
  /\ pc = "head" /\ head <= Len(queue)
  /\ pc' = "scan" /\ next' = Successors(queue[head])
  /\ UNCHANGED <<graph, source, target, queue, head, seen, prev, path>>

GiveUp ==
  /\ pc = "head" /\ head > Len(queue)
  /\ pc' = "none"
  /\ UNCHANGED <<graph, source, target, queue, head, seen, prev, next, path>>

Skipped(id, current) == ~HasCallEdge(current, id) \/ id \in seen \/ id \notin graph.live

\* The next node the outer loop takes.  Faulty variant: the newest one.
EnqueueNext(id) == SubSeq(queue, 1, head) \o <<id>> \o SubSeq(queue, head + 1, Len(queue))
Enqueue(id) == Append(queue, id)

Visit ==
  /\ pc = "scan"
  /\ \E id \in next :
       /\ next' = next \ {id}
       /\ IF Skipped(id, queue[head])
          THEN UNCHANGED <<pc, queue, seen, prev, path>>
          ELSE /\ seen' = seen \cup {id}
               /\ prev' = [n \in DOMAIN prev \cup {id} |-> IF n = id THEN queue[head] ELSE prev[n]]
               /\ IF id = target
                  THEN pc' = "walk" /\ path' = <<target>> /\ UNCHANGED queue
                  ELSE queue' = Enqueue(id) /\ UNCHANGED <<pc, path>>
  /\ UNCHANGED <<graph, source, target, head>>

Scanned ==
  /\ pc = "scan" /\ next = {}
  /\ pc' = "head" /\ head' = head + 1
  /\ UNCHANGED <<graph, source, target, queue, seen, prev, next, path>>

\* reconstructPathIDs: a predecessor per turn; the reversal is the order of path.
Walk ==
  /\ pc = "walk"
  /\ IF path[1] = source THEN pc' = "found" /\ UNCHANGED path
     ELSE IF path[1] \notin DOMAIN prev THEN pc' = "none" /\ UNCHANGED path
     ELSE path' = <<prev[path[1]]>> \o path /\ UNCHANGED pc
  /\ UNCHANGED <<graph, source, target, queue, head, seen, prev, next>>

Next == Start \/ Expand \/ GiveUp \/ Visit \/ Scanned \/ Walk

Spec == Init /\ [][Next]_vars

\* PathResult.EdgeType of the i-th node (pathEdgeType).
EdgeType(i) == IF i < Len(path) /\ HasCallEdge(path[i], path[i + 1]) THEN "CALLS" ELSE ""

-----------------------------------------------------------------------------
(* What is reachable, without queue or order.                              *)

\* From a node to the live nodes it calls; Reach[k] is k or fewer calls away from the source.
Calls == {<<e.from, e.to>> : e \in {x \in graph.edges : x.to \in graph.live /\ x.type = "CALLS"}}
Reach == Within(Calls, {source})
Everywhere == Reach[Cardinality(NodeIDs)]

TypeOK ==
  /\ graph.live \subseteq graph.known /\ graph.known \subseteq NodeIDs
  /\ source \in NodeIDs /\ target \in NodeIDs
  /\ pc \in {"start", "head", "scan", "walk", "found", "none", "unknown"}
  /\ queue \in Seq(graph.live) /\ head \in 1..(Len(queue) + 1)
  /\ seen \subseteq graph.live
  /\ DOMAIN prev \subseteq seen /\ \A n \in DOMAIN prev : prev[n] \in seen
  /\ next \subseteq NodeIDs
  /\ path \in Seq(graph.live)

\* The path runs from the source to the target over live nodes, each of which calls
\* the next, and every step carries its edge type ("shortest call path").
PathIsCalls ==
  pc = "found" =>
    /\ path[1] = source /\ path[Len(path)] = target
    /\ \A i \in 1..(Len(path) - 1) :
         /\ path[i + 1] \in graph.live
         /\ \E e \in graph.edges : e.from = path[i] /\ e.to = path[i + 1] /\ e.type = "CALLS"
         /\ EdgeType(i) = "CALLS"

\* No call path is shorter, whatever order the maps are iterated in.
PathIsShortest ==
  pc = "found" => \A k \in 0..(Len(path) - 2) : target \notin Reach[k]

\* "no path found" is said of live nodes exactly when there is none.
NoneIffUnreachable ==
  /\ pc = "none" => target \notin Everywhere
  /\ pc = "found" => target \in Everywhere
=============================================================================
