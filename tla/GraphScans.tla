----------------------------- MODULE GraphScans -----------------------------
(***************************************************************************)
(* The queries that scan the graph once (internal/graph/query.go): search, *)
(* dependencies, direct dependents, implementations and the concurrency    *)
(* graph.  Each holds the read lock and walks Go maps, whose order is      *)
(* arbitrary: a turn of the loop is an action, and which node it meets     *)
(* next is not determined.                                                  *)
(***************************************************************************)
EXTENDS GraphReads, Traversal, SequencesExt

CONSTANTS
  Searches,        \* sets of nodes whose name or id contains a search string
  SearchLimit      \* maxSearchResults

Kinds == {"search", "dependencies", "dependents", "implementations", "concurrency"}

\* Only a go statement makes a SPAWNS edge, and to the node of its goroutine (visitor.go).
ScanAssumption ==
  /\ SearchLimit \in Nat /\ \A s \in Searches : s \subseteq NodeIDs
  /\ \A g \in Graphs : \A e \in g.edges : e.type = "SPAWNS" => TypeOf[e.to] = "GOROUTINE"

VARIABLES
  query,    \* kind, node and the nodes that match
  pc,       \* "ask", "scan", "inbound" (second loop of the concurrency graph), "done", "failed"
  todo,     \* the map entries the loop has not met
  results,  \* of a search: ids in order
  found     \* of the others: ids, or connections

vars == <<graph, query, pc, todo, results, found>>

-----------------------------------------------------------------------------
\* appendBoundedNodeResult: binary insertion into the first `limit` ids.
Position(rs, n) == Cardinality({i \in DOMAIN rs : rs[i] < n}) + 1
AppendBounded(rs, n) ==
  LET at   == Position(rs, n)
      more == InsertAt(rs, at, n)
  IN  IF (at <= Len(rs) /\ rs[at] = n) \/ (Len(rs) = SearchLimit /\ at > SearchLimit) THEN rs
      ELSE IF Len(more) > SearchLimit THEN Front(more) ELSE more

-----------------------------------------------------------------------------
Targets(n) == {e.to : e \in {d \in graph.edges : d.from = n}}
Sources == {e.from : e \in graph.edges}

Init ==
  /\ graph \in Graphs /\ pc = "ask" /\ todo = {} /\ results = <<>> /\ found = {}
  /\ query \in [kind : Kinds \ {"search"}, node : NodeIDs, matches : {{}}]
               \cup [kind : {"search"}, node : {0}, matches : Searches]

\* requireNodeIDLocked, and the type GetImplementations insists on.
Answerable ==
  /\ query.kind # "search" => query.node \in graph.live
  /\ query.kind = "implementations" => TypeOf[query.node] = "INTERFACE"

Ask ==
  /\ pc = "ask"
  /\ pc' = IF Answerable THEN "scan" ELSE "failed"
  /\ todo' = CASE query.kind = "search" -> graph.live
               [] query.kind \in {"dependencies", "concurrency"} -> Targets(query.node)
               [] OTHER -> Sources
  /\ UNCHANGED <<graph, query, results, found>>

\* containsCaseInsensitive on the name and the id.
Matches(n) == n \in query.matches

SearchTurn(n) ==
  /\ pc = "scan" /\ query.kind = "search" /\ n \in todo
  /\ results' = IF Matches(n) THEN AppendBounded(results, n) ELSE results
  /\ todo' = todo \ {n}
  /\ UNCHANGED <<graph, query, pc, found>>

\* GetDependencies, GetBlastRadius and GetImplementations.  Faulty variant: dependents
\* are read off the out-edges.
JoinsForward(n) ==
  n \in graph.live /\ Joined(query.node, n, IF query.kind = "implementations" THEN {"IMPLEMENTS"} ELSE DependencyTypes)
Joins(n) ==
  /\ n \in graph.live
  /\ CASE query.kind = "dependencies" -> Joined(query.node, n, DependencyTypes)
       [] query.kind = "dependents" -> Joined(n, query.node, DependencyTypes)
       [] OTHER -> Joined(n, query.node, {"IMPLEMENTS"})
JoinTurn(n) ==
  /\ pc = "scan" /\ query.kind \in {"dependencies", "dependents", "implementations"} /\ n \in todo
  /\ found' = IF Joins(n) THEN found \cup {n} ELSE found
  /\ todo' = todo \ {n}
  /\ UNCHANGED <<graph, query, pc, results>>

ConcurrencyTurn(n) ==
  /\ query.kind = "concurrency" /\ n \in todo
  /\ \/ pc = "scan" /\ found' = found \cup OutTurn(query.node, n)
     \/ pc = "inbound" /\ found' = found \cup InTurn(query.node, n)
  /\ todo' = todo \ {n}
  /\ UNCHANGED <<graph, query, pc, results>>

NextLoop ==
  /\ pc = "scan" /\ query.kind = "concurrency" /\ todo = {}
  /\ pc' = "inbound" /\ todo' = Sources
  /\ UNCHANGED <<graph, query, results, found>>

Finish ==
  /\ todo = {} /\ pc = (IF query.kind = "concurrency" THEN "inbound" ELSE "scan")
  /\ pc' = "done"
  /\ UNCHANGED <<graph, query, todo, results, found>>

\* GetConcurrencyFlow: the nodes of the connections.
FlowNodes == {IF c.direction = "inbound" THEN c.from ELSE c.to : c \in found}

Next ==
  \/ Ask \/ NextLoop \/ Finish
  \/ \E n \in todo : SearchTurn(n) \/ JoinTurn(n) \/ ConcurrencyTurn(n)

Spec == Init /\ [][Next]_vars

-----------------------------------------------------------------------------
TypeOK ==
  /\ pc \in {"ask", "scan", "inbound", "done", "failed"} /\ todo \subseteq NodeIDs
  /\ results \in Seq(NodeIDs) /\ Len(results) <= SearchLimit
  /\ query.kind = "concurrency" => FlowNodes \subseteq graph.live
  /\ query.kind \in {"dependencies", "dependents", "implementations"} => found \subseteq graph.live

\* In whatever order the map hands out its entries, a search answers with the first
\* maxSearchResults matches in id order: asking again gives the same page.
SearchIsFirstPage ==
  pc = "done" /\ query.kind = "search" =>
    LET all == InOrder(query.matches \cap graph.live)
    IN  results = SubSeq(all, 1, IF Len(all) < SearchLimit THEN Len(all) ELSE SearchLimit)

\* The two directions agree: a node is among the dependents of another exactly when the
\* other is among its dependencies, though one query reads the out-edges of a node and
\* the other all edges of the graph.
DirectionsAgree ==
  pc = "done" /\ query.kind \in {"dependencies", "dependents"} =>
    \A m \in graph.live :
      m \in found <=> \E e \in graph.edges :
        /\ {e.from, e.to} = {m, query.node} /\ e.type \in DependencyTypes
        /\ query.kind = "dependents" => e.to = query.node
        /\ query.kind = "dependencies" => e.from = query.node

\* Every channel a function uses is found: by itself, in a function it calls, in a
\* goroutine it starts or in a function such a goroutine calls, however the loops meet
\* them; and nothing else is.
Starts(n, x) == Joined(n, x, {"SPAWNS"})
Calls(n, x) == Joined(n, x, {"CALLS"}) /\ ~(x \in graph.live /\ IsConcurrencyNode(x))
Runs(n, direction) ==
  CASE direction = "outbound" -> {n}
    [] direction = "via_call" -> {c \in NodeIDs : Calls(n, c)}
    [] direction = "via_goroutine" ->
         {x \in NodeIDs : Starts(n, x) \/ \E y \in NodeIDs : Starts(n, y) /\ Joined(y, x, {"CALLS"})}
EveryChannelFound ==
  pc = "done" /\ query.kind = "concurrency" =>
    /\ \A e \in graph.edges : \A d \in {"outbound", "via_call", "via_goroutine"} :
         Connection(d, e) \in found
           <=> /\ e.from \in Runs(query.node, d)
               /\ e.to \in graph.live /\ IsConcurrencyNode(e.to) /\ IsConcurrencyEdge(e.type)
    /\ \A e \in graph.edges :
         Connection("inbound", e) \in found
           <=> /\ e.to = query.node /\ e.from \in graph.live /\ IsConcurrencyNode(e.from)
               /\ IsConcurrencyEdge(e.type) \/ (e.type = "CALLS" /\ TypeOf[e.from] = "GOROUTINE")
=============================================================================
