----------------------------- MODULE GraphView ------------------------------
(***************************************************************************)
(* What a reader of the graph may rely on: a graph of named nodes.  There  *)
(* are no numeric ids, no stores and no half-applied calls here: a name is *)
(* unknown, known (something has mentioned it) or declared, a link joins   *)
(* two known names, and every call of graph.go is at most one step.        *)
(* KnowledgeGraph implements this specification (ImplementsView).          *)
(***************************************************************************)
EXTENDS FiniteSets

CONSTANTS
  NodeIDs, PkgPaths, RepoIDs, PkgPathOf, NoNode,
  ParseResults, StructureResults, SingleNodes, SingleEdges   \* as in KnowledgeGraph

VARIABLES
  known,   \* names a link may point to
  decl,    \* name -> its node, or NoNode
  links    \* the edges, at most one of a type between two names

vars == <<known, decl, links>>

Declared == {i \in NodeIDs : decl[i] # NoNode}
SameEnds(a, b) == a.from = b.from /\ a.to = b.to /\ a.type = b.type
IsStub(n) == n.type = "BOUNDARY"
InTree(i) == decl[i] # NoNode /\ decl[i].type \in {"FOLDER", "FILE"}

\* The declarations after the nodes N came in over d: a name takes one of N if it has
\* none or a stub, and a stub only if there is nothing better.
Declares(N, d, after) ==
  \A i \in NodeIDs :
    LET of    == {n \in N : n.id = i}
        best  == IF \A n \in of : IsStub(n) THEN of ELSE {n \in of : ~IsStub(n)}
        taken == {n \in best : d[i] = NoNode \/ (IsStub(d[i]) /\ ~IsStub(n))}
    IN  IF taken = {} THEN after[i] = d[i] ELSE after[i] \in taken

\* The links after the edges E between the names K came in over l: one per ends and type,
\* with the call sites of all of them, in the repository it was first seen in.
Links(E, K, l, after) ==
  LET new == {e \in E : e.from \in K /\ e.to \in K}
  IN  /\ \A e \in l \cup new : \E a \in after : SameEnds(a, e)
      /\ \A a \in after :
           LET old == {e \in l : SameEnds(a, e)}
               all == old \cup {e \in new : SameEnds(a, e)}
           IN  /\ all # {} /\ a.sites = UNION {e.sites : e \in all}
               /\ a.repo \in {e.repo : e \in IF old # {} THEN old ELSE all}
               /\ \A b \in after : SameEnds(a, b) => a = b

-----------------------------------------------------------------------------
Init == known = {} /\ decl = [i \in NodeIDs |-> NoNode] /\ links = {}

\* A new process, and its databases read into it.
Restart == known' = {} /\ decl' = [i \in NodeIDs |-> NoNode] /\ links' = {}
Load ==
  /\ known = {} /\ known' = {i \in NodeIDs : decl'[i] # NoNode}
  /\ \A e \in links' : e.from \in known' /\ e.to \in known'
  /\ \A a, b \in links' : SameEnds(a, b) => a = b

\* Nodes N and edges E are added to the part of the graph (K, d, l), all at once; when a
\* store fails, only the nodes or nothing.
Adds(N, E, K, d, l) ==
  LET more == K \cup {n.id : n \in N}
  IN  \/ known' = more /\ Declares(N, d, decl') /\ Links(E, more, l, links')
      \/ known' = more /\ Declares(N, d, decl') /\ links' = l
      \/ known' = K /\ decl' = d /\ links' = l
Add(N, E) == Adds(N, E, known, decl, links)

\* A link of a declared name.
Link(e) == e.from \in Declared /\ e.to \in known /\ Add({}, {e})

\* A package goes with the links its declarations are the source of; what points to them
\* stays and finds them again.
OfPackage(p) == {i \in Declared : PkgPathOf[i] = p}
Remove(p) ==
  /\ known' = known
  /\ decl' = [i \in NodeIDs |-> IF i \in OfPackage(p) THEN NoNode ELSE decl[i]]
  /\ links' = {e \in links : e.from \notin OfPackage(p)}

\* The folder tree of a repository goes with its links, names included, and the new one
\* comes in, all at once; when a store fails, part of its links may be gone.
Tree(r) == {i \in NodeIDs : InTree(i) /\ decl[i].repo = r}
TreeLinks(r) ==
  {e \in links : /\ e.type = "CONTAINS" /\ e.repo = r
                 /\ \/ e.from \in Declared /\ decl[e.from].type \in {"REPO", "FOLDER"}
                    \/ e.to \in Declared /\ decl[e.to].type = "FOLDER"}
ReplaceTree(res) ==
  \/ Adds(res.nodes, res.edges, known \ Tree(res.repo),
          [i \in NodeIDs |-> IF i \in Tree(res.repo) THEN NoNode ELSE decl[i]],
          {e \in links \ TreeLinks(res.repo) : e.from \notin Tree(res.repo)})
  \/ \E part \in SUBSET TreeLinks(res.repo) : links' = links \ part /\ UNCHANGED <<known, decl>>

Next ==
  \/ Restart \/ Load
  \/ \E n \in SingleNodes : Add({n}, {})
  \/ \E e \in SingleEdges : Link(e)
  \/ \E res \in ParseResults : Add(res.nodes, res.edges)
  \/ \E p \in PkgPaths : Remove(p)
  \/ \E res \in StructureResults : ReplaceTree(res)

Spec == Init /\ [][Next]_vars
=============================================================================
