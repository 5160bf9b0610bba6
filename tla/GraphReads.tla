----------------------------- MODULE GraphReads -----------------------------
(***************************************************************************)
(* What several queries read off the graph under the read lock             *)
(* (internal/graph/query.go): edges by their ends, and the connections of  *)
(* a node to goroutines and channels, which GetConcurrencyGraph and        *)
(* GetNodeContext both collect.  Node ids are numbers in the order of the  *)
(* code.                                                                   *)
(***************************************************************************)
EXTENDS Integers, Sequences, FiniteSets

CONSTANTS
  NodeIDs, TypeOf,
  Graphs           \* the graphs there may be: live nodes, and edges [from, to, type]

ReadAssumption ==
  /\ NodeIDs \subseteq Nat /\ IsFiniteSet(NodeIDs)
  /\ \A g \in Graphs : g.live \subseteq NodeIDs /\ \A e \in g.edges : e.from \in g.live /\ e.to \in NodeIDs

VARIABLE graph

EdgesOf(a, b) == {e \in graph.edges : e.from = a /\ e.to = b}
Joined(a, b, types) == \E e \in EdgesOf(a, b) : e.type \in types
DependencyTypes == {"CALLS", "IMPORTS", "REFERENCES", "INSTANTIATES"}
IsConcurrencyEdge(type) == type \in {"SPAWNS", "SENDS_TO", "RECEIVES_FROM"}
IsConcurrencyNode(n) == TypeOf[n] \in {"GOROUTINE", "CHANNEL"}

\* A connection is recorded once per direction, ends and type (concurrencySeenKey).
Connection(direction, e) == [direction |-> direction, from |-> e.from, to |-> e.to, type |-> e.type]

\* appendOutboundConcurrencyConnections and what leads to it.
OutboundOf(x, direction) ==
  {Connection(direction, e) : e \in {d \in graph.edges :
     d.from = x /\ d.to \in graph.live /\ IsConcurrencyNode(d.to) /\ IsConcurrencyEdge(d.type)}}
CalledFrom(a, b, direction) == IF Joined(a, b, {"CALLS"}) THEN OutboundOf(b, direction) ELSE {}
SpawnedFrom(a, b) ==
  IF Joined(a, b, {"SPAWNS"})
  THEN OutboundOf(b, "via_goroutine")
       \cup UNION {CalledFrom(b, c, "via_goroutine") : c \in NodeIDs}
  ELSE {}

\* The bodies of the two loops of GetConcurrencyGraph.
OutTurn(n, x) ==
  IF x \notin graph.live \/ ~IsConcurrencyNode(x)
  THEN CalledFrom(n, x, "via_call") \cup SpawnedFrom(n, x)
  ELSE {Connection("outbound", e) : e \in {d \in EdgesOf(n, x) : IsConcurrencyEdge(d.type)}}
       \cup (IF TypeOf[x] = "GOROUTINE" THEN SpawnedFrom(n, x) ELSE {})
InTurn(n, x) ==
  IF x \notin graph.live \/ ~IsConcurrencyNode(x) THEN {}
  ELSE {Connection("inbound", e) : e \in {d \in EdgesOf(x, n) :
          IsConcurrencyEdge(d.type) \/ (d.type = "CALLS" /\ TypeOf[x] = "GOROUTINE")}}

=============================================================================
