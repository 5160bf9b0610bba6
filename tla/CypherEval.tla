----------------------------- MODULE CypherEval -----------------------------
(***************************************************************************)
(* ExecuteCypher (internal/graph/cypher_evaluator.go): a parsed query is   *)
(* checked as a whole, then matched against the graph under the read lock. *)
(* The loops run over Go maps, whose order is arbitrary; a turn of a loop  *)
(* is an action.  A row is what the aliases are bound to: node, edge and   *)
(* second node of the pattern.                                             *)
(***************************************************************************)
EXTENDS GraphReads

CONSTANTS
  Queries,      \* [n1, edge, n2, where, items, limit]; edge and n2 are None in a node-only pattern,
                \* as is an alias, type or property that the query leaves out
  NodeValue,    \* NodeValue[n]: the strings of a node by property, in lower case
  HasSubstring(_, _),  \* strings.Contains
  None

NodeProperties == {"name", "id", "pkgpath", "filepath", "type", "repoid"}
EdgeProperties == {"type", "from", "to", "repoid"}
NodeTypes == {"PACKAGE", "FILE", "FOLDER", "STRUCT", "INTERFACE", "FUNC", "METHOD", "CONSTANT", "VARIABLE",
              "TYPE_ALIAS", "CHANNEL", "GOROUTINE", "ROUTE", "BOUNDARY", "REPO", "WORKSPACE"}
EdgeKinds == {"CALLS", "IMPLEMENTS", "IMPORTS", "REFERENCES", "INSTANTIATES", "SPAWNS", "SENDS_TO",
              "RECEIVES_FROM", "CONTAINS", "REGISTERS_ROUTE"}

\* "A graph pair has at most one edge for a specific type."
EvalAssumption ==
  /\ \A g \in Graphs :
       /\ IsFiniteSet(g.edges)
       /\ \A d, e \in g.edges : <<d.from, d.to, d.type>> = <<e.from, e.to, e.type>> => d = e
  /\ \A q \in Queries :
       /\ q.limit \in Nat /\ q.n1 # None /\ (q.edge = None <=> q.n2 = None)
       /\ q.edge # None => q.edge.direction \in {"out", "in", "any"}
  /\ \A n \in NodeIDs : DOMAIN NodeValue[n] = NodeProperties

VARIABLES
  query,
  pc,        \* "start", "outer", "outbound", "inbound", "done", "failed"
  todo,      \* nodes the outer loop has not met
  current,   \* its node
  others,    \* what the inner loop has not met
  results,   \* the rows
  count      \* how many there are, len(results)

vars == <<graph, query, pc, todo, current, others, results, count>>

-----------------------------------------------------------------------------
\* The aliases of a pattern and what they stand for.
Named(p, kind) == IF p = None \/ p.alias = None THEN {} ELSE {<<p.alias, kind>>}
Parts(q) == <<Named(q.n1, "node"), Named(q.edge, "edge"), Named(q.n2, "node")>>
Aliases(q) == UNION {Parts(q)[i] : i \in 1..3}
KindOf(q, alias) == (CHOOSE a \in Aliases(q) : a[1] = alias)[2]
Known(q, alias) == \E a \in Aliases(q) : a[1] = alias

\* validCypherProperty.
ValidProperty(kind, property) ==
  property \in (IF kind = "node" THEN NodeProperties ELSE EdgeProperties)

\* validateCypherQuery: types, aliases used once, then the conditions and the items.
ValidPattern(q) ==
  /\ q.n1.type \in NodeTypes \cup {None} /\ (q.n2 # None => q.n2.type \in NodeTypes \cup {None})
  /\ q.edge # None => q.edge.type \in EdgeKinds \cup {None}
  /\ \A i, j \in 1..3 : i < j => {a[1] : a \in Parts(q)[i]} \cap {a[1] : a \in Parts(q)[j]} = {}
ValidCondition(q, c) ==
  Known(q, c.alias) /\ ValidProperty(KindOf(q, c.alias), c.property) /\ c.op \in {"=", "!=", "CONTAINS"}
ValidItem(q, i) == Known(q, i.alias) /\ (i.property = None \/ ValidProperty(KindOf(q, i.alias), i.property))
Valid(q) ==
  /\ Len(q.items) > 0 /\ ValidPattern(q)
  /\ \A i \in DOMAIN q.where : ValidCondition(q, q.where[i])
  /\ \A i \in DOMAIN q.items : ValidItem(q, q.items[i])

-----------------------------------------------------------------------------
MatchesType(n, pattern) == n \in graph.live /\ pattern.type \in {None, TypeOf[n]}

\* cypherPropertyValue of what an alias is bound to.
EdgeValue(e) ==
  [type |-> e.type, from |-> NodeValue[e.from].id, to |-> NodeValue[e.to].id, repoid |-> NodeValue[e.from].repoid]
Value(q, row, alias) ==
  IF q.n1.alias = alias THEN NodeValue[row.n1]
  ELSE IF q.edge # None /\ q.edge.alias = alias THEN EdgeValue(row.edge) ELSE NodeValue[row.n2]
HasProperty(q, row, x) == x.property \in DOMAIN Value(q, row, x.alias)

Holds(q, row, c) ==
  /\ HasProperty(q, row, c)
  /\ LET v == Value(q, row, c.alias)[c.property] IN
     CASE c.op = "=" -> v = c.value
       [] c.op = "!=" -> v # c.value
       [] OTHER -> HasSubstring(v, c.value)
MatchesWhere(q, row) == \A i \in DOMAIN q.where : Holds(q, row, q.where[i])
Projects(q, row) == \A i \in DOMAIN q.items : q.items[i].property # None => HasProperty(q, row, q.items[i])

\* The rows of a pair: all its edges, or the one of the type that was asked for.
PairRows(n1, n2, edges) ==
  {r \in {[n1 |-> n1, edge |-> e, n2 |-> n2] : e \in {d \in edges : query.edge.type \in {None, d.type}}} :
     MatchesWhere(query, r)}

\* appendProjectedCypherRow: an item without its property is an error, which returns no rows,
\* and the limit ends the query in the middle of whatever loop.
AppendRows(rows) ==
  \E kept \in SUBSET rows :
  LET total == count + Cardinality(kept)
      full  == query.limit > 0 /\ total >= query.limit
      wrong == \E r \in rows : ~Projects(query, r)
  IN  /\ IF full THEN total = query.limit ELSE kept = rows
      /\ results' = IF wrong THEN {} ELSE results \cup kept
      /\ count' = IF wrong THEN 0 ELSE total
      /\ pc' = IF wrong THEN "failed" ELSE IF full THEN "done" ELSE pc

-----------------------------------------------------------------------------
Init ==
  /\ graph \in Graphs /\ query \in Queries /\ pc = "start"
  /\ todo = {} /\ current = 0 /\ others = {} /\ results = {} /\ count = 0

Validate ==
  /\ pc = "start"
  /\ IF Valid(query) THEN pc' = "outer" /\ todo' = graph.live ELSE pc' = "failed" /\ UNCHANGED todo
  /\ UNCHANGED <<graph, query, current, others, results, count>>

\* The outer loop meets a node.
NodeOnly(n) ==
  /\ pc = "outer" /\ n \in todo /\ query.edge = None
  /\ todo' = todo \ {n}
  /\ LET row == [n1 |-> n, edge |-> None, n2 |-> None]
     IN  AppendRows(IF MatchesType(n, query.n1) /\ MatchesWhere(query, row) THEN {row} ELSE {})
  /\ UNCHANGED <<graph, query, current, others>>

Targets(n) == {e.to : e \in {d \in graph.edges : d.from = n}}
Sources == {e.from : e \in graph.edges}
Enter(n) ==
  /\ pc = "outer" /\ n \in todo /\ query.edge # None
  /\ todo' = todo \ {n}
  /\ current' = n
  /\ IF ~MatchesType(n, query.n1) THEN UNCHANGED <<pc, others>>
     ELSE IF query.edge.direction = "in" THEN pc' = "inbound" /\ others' = Sources
     ELSE pc' = "outbound" /\ others' = Targets(n)
  /\ UNCHANGED <<graph, query, results, count>>

Outbound(m) ==
  /\ pc = "outbound" /\ m \in others
  /\ others' = others \ {m}
  /\ AppendRows(IF MatchesType(m, query.n2) THEN PairRows(current, m, EdgesOf(current, m)) ELSE {})
  /\ UNCHANGED <<graph, query, todo, current>>

\* In a pattern without a direction the out-edges of a node to itself were met before.
\* Faulty variant: they are met again.
SkippedNever(m) == ~MatchesType(m, query.n2)
Skipped(m) == (query.edge.direction = "any" /\ m = current) \/ ~MatchesType(m, query.n2)
Inbound(m) ==
  /\ pc = "inbound" /\ m \in others
  /\ others' = others \ {m}
  /\ AppendRows(IF Skipped(m) THEN {} ELSE PairRows(current, m, EdgesOf(m, current)))
  /\ UNCHANGED <<graph, query, todo, current>>

NextLoop ==
  /\ others = {} /\ pc \in {"outbound", "inbound"}
  /\ IF pc = "outbound" /\ query.edge.direction = "any"
     THEN pc' = "inbound" /\ others' = Sources
     ELSE pc' = "outer" /\ UNCHANGED others
  /\ UNCHANGED <<graph, query, todo, current, results, count>>

Finish ==
  /\ pc = "outer" /\ todo = {} /\ pc' = "done"
  /\ UNCHANGED <<graph, query, todo, current, others, results, count>>

Next ==
  \/ Validate \/ NextLoop \/ Finish
  \/ \E n \in NodeIDs : NodeOnly(n) \/ Enter(n) \/ Outbound(n) \/ Inbound(n)

Spec == Init /\ [][Next]_vars

-----------------------------------------------------------------------------
TypeOK ==
  /\ pc \in {"start", "outer", "outbound", "inbound", "done", "failed"}
  /\ todo \subseteq graph.live /\ others \subseteq NodeIDs
  /\ count \in Nat /\ (query.limit > 0 => count <= query.limit)

\* What the pattern says, read without loops: an edge between two live nodes of the asked
\* types, in the asked direction, for which every condition holds.
Directed(r) ==
  \/ query.edge.direction \in {"out", "any"} /\ r.edge.from = r.n1 /\ r.edge.to = r.n2
  \/ query.edge.direction \in {"in", "any"} /\ r.edge.from = r.n2 /\ r.edge.to = r.n1
Meant ==
  IF query.edge = None
  THEN {r \in [n1 : graph.live, edge : {None}, n2 : {None}] :
          query.n1.type \in {None, TypeOf[r.n1]} /\ MatchesWhere(query, r)}
  ELSE {r \in [n1 : graph.live, edge : graph.edges, n2 : graph.live] :
          /\ query.n1.type \in {None, TypeOf[r.n1]} /\ query.n2.type \in {None, TypeOf[r.n2]}
          /\ query.edge.type \in {None, r.edge.type} /\ Directed(r) /\ MatchesWhere(query, r)}

\* Each match of the pattern is a row once, and nothing else is: also where an edge runs
\* from a node to itself, two nodes are joined both ways or a node was removed, in
\* whatever order the loops meet them; with a limit, as many rows as it allows.
RowsAreMatches ==
  pc = "done" =>
    /\ results \subseteq Meant /\ count = Cardinality(results)
    /\ IF query.limit > 0 /\ Cardinality(Meant) > query.limit THEN count = query.limit ELSE results = Meant

\* A query fails before the first row or not at all: after validation no alias is bound to
\* something without a property that the query names, in a condition or in an item.
NeverFailsHalfway == pc = "failed" => ~Valid(query) /\ results = {} /\ todo = {}
=============================================================================
