--------------------------- MODULE StructureTree ----------------------------
(***************************************************************************)
(* GetRepositoryStructure (internal/graph/structure.go): the CONTAINS      *)
(* edges below a folder as a tree.  The recursion shares one node budget   *)
(* and one set of nodes on the current path; its calls are the frames of   *)
(* a stack here.  It runs under the read lock, so the graph is constant.   *)
(* Node ids are numbers in the order of their names.                       *)
(***************************************************************************)
EXTENDS Integers, Sequences, FiniteSets

CONSTANTS
  NodeIDs,
  TypeOf,           \* node type
  DirOf, RepoOf,    \* folder path and repository id
  None,             \* no repository, no dir
  Graphs,           \* live nodes, and their edges <<from, to, type>>
  Requests,         \* root (a node, or 0 and a dir and repo), maxDepth, maxNodes, packages, files
  DefaultMaxDepth, LimitMaxDepth, DefaultMaxNodes, LimitMaxNodes

\* The id of a folder is made of its repository and its dir (graphFolderNodeID).
StructureAssumption ==
  /\ NodeIDs \subseteq Nat \ {0} /\ IsFiniteSet(NodeIDs)
  /\ \A m, n \in NodeIDs : TypeOf[m] = "FOLDER" /\ TypeOf[n] = "FOLDER" /\ DirOf[m] = DirOf[n] /\ RepoOf[m] = RepoOf[n]
                             => m = n
  /\ \A g \in Graphs : g.live \subseteq NodeIDs /\ \A e \in g.edges : e[1] \in g.live /\ e[2] \in NodeIDs
  /\ LimitMaxDepth \in Nat /\ LimitMaxNodes \in Nat
  /\ DefaultMaxDepth \in 1..LimitMaxDepth /\ DefaultMaxNodes \in 1..LimitMaxNodes

VARIABLES
  graph, request,
  pc,      \* "start", "walk", "done", or why it failed
  stack,   \* the calls in progress: node and the children still to visit
  count,   \* *nodeCount
  tree     \* the nodes of the result in preorder, each as its path from the root

vars == <<graph, request, pc, stack, count, tree>>

-----------------------------------------------------------------------------
\* repositoryStructureIncludesNode, hasContainsEdge and compareRepositoryStructureNodes.
Includes(n) ==
  \/ TypeOf[n] \in {"WORKSPACE", "REPO", "FOLDER"}
  \/ TypeOf[n] = "PACKAGE" /\ request.packages
  \/ TypeOf[n] = "FILE" /\ request.files
Ranks == [WORKSPACE |-> -2, REPO |-> -1, FOLDER |-> 0, PACKAGE |-> 1, FILE |-> 2]
Rank(n) == IF TypeOf[n] \in DOMAIN Ranks THEN Ranks[TypeOf[n]] ELSE 3
Before(a, b) == Rank(a) < Rank(b) \/ (Rank(a) = Rank(b) /\ a < b)
ChildSet(n) == {m \in graph.live : <<n, m, "CONTAINS">> \in graph.edges /\ Includes(m)}
\* In the order of Before: the i-th has i - 1 before it.
Sorted(S) == [i \in 1..Cardinality(S) |-> CHOOSE m \in S : Cardinality({k \in S : Before(k, m)}) = i - 1]
Children(n) == Sorted(ChildSet(n))

\* repositoryStructureRootIDLocked.
FoldersAt(dir) == {n \in graph.live : TypeOf[n] = "FOLDER" /\ DirOf[n] = dir}
OfRepo(dir, repo) == {n \in NodeIDs : TypeOf[n] = "FOLDER" /\ DirOf[n] = dir /\ RepoOf[n] = repo}
Workspaces == {n \in graph.live : TypeOf[n] = "WORKSPACE"}
Roots ==
  IF request.root # 0 THEN {request.root}
  ELSE IF request.repo # None THEN OfRepo(request.dir, request.repo)
  ELSE IF OfRepo(request.dir, None) \cap graph.live # {} THEN OfRepo(request.dir, None)
  ELSE IF Cardinality(FoldersAt(request.dir)) > 1 /\ request.dir = "." /\ Workspaces # {} THEN Workspaces
  ELSE FoldersAt(request.dir)
\* Any workspace will do, but not any folder.
Ambiguous == Cardinality(Roots) > 1 /\ ~(Roots \subseteq Workspaces)

MaxDepth == IF request.maxDepth = 0 THEN DefaultMaxDepth ELSE request.maxDepth
MaxNodes == IF request.maxNodes = 0 THEN DefaultMaxNodes ELSE request.maxNodes
ValidRequest == MaxDepth \in 1..LimitMaxDepth /\ MaxNodes \in 1..LimitMaxNodes

Init ==
  /\ graph \in Graphs /\ request \in Requests
  /\ pc = "start" /\ stack = <<>> /\ count = 0 /\ tree = <<>>

\* The path of the call: `seen` holds its nodes (a set in the code, taken back on return).
Path == [i \in DOMAIN stack |-> stack[i].node]
SeenEver(n) == \E i \in DOMAIN tree : tree[i][Len(tree[i])] = n
Seen(n) == \E i \in DOMAIN stack : stack[i].node = n

\* One call of buildRepositoryStructureNodeLocked for node n, of a caller that leaves its
\* frames as `back`.
Full == count >= MaxNodes
Call(n, back) ==
  IF Full
  THEN pc' = "exceeded" /\ UNCHANGED <<stack, count, tree>>
  ELSE /\ count' = count + 1
       /\ tree' = Append(tree, Append(Path, n))
       /\ IF Seen(n) \/ Len(stack) >= MaxDepth
          THEN stack' = back /\ pc' = "walk"
          ELSE IF Cardinality(ChildSet(n)) > MaxNodes - count'
          THEN pc' = "exceeded" /\ UNCHANGED stack
          ELSE stack' = Append(back, [node |-> n, rest |-> Children(n)]) /\ pc' = "walk"

Reject ==
  /\ pc = "start"
  /\ \/ Ambiguous /\ pc' = "ambiguous"
     \/ ~Ambiguous /\ Roots \cap graph.live = {} /\ pc' = "missing"
     \/ ~Ambiguous /\ Roots \cap graph.live # {} /\ ~ValidRequest /\ pc' = "invalid"
  /\ UNCHANGED <<graph, request, stack, count, tree>>

Start ==
  /\ pc = "start" /\ ~Ambiguous /\ ValidRequest
  /\ \E n \in Roots \cap graph.live : Call(n, <<>>)
  /\ UNCHANGED <<graph, request>>

\* The loop over the children of the innermost call.
Top == stack[Len(stack)]
Popped == SubSeq(stack, 1, Len(stack) - 1)
Visit ==
  /\ pc = "walk" /\ stack # <<>> /\ Top.rest # <<>>
  /\ Call(Head(Top.rest), [stack EXCEPT ![Len(stack)].rest = Tail(@)])
  /\ UNCHANGED <<graph, request>>

Return ==
  /\ pc = "walk" /\ stack # <<>> /\ Top.rest = <<>>
  /\ stack' = Popped
  /\ pc' = IF Popped = <<>> THEN "done" ELSE "walk"
  /\ UNCHANGED <<graph, request, count, tree>>

Next == Reject \/ Start \/ Visit \/ Return

Spec == Init /\ [][Next]_vars

-----------------------------------------------------------------------------
(* What the tree is, without a budget.                                     *)

\* The paths of k steps from node r that the tree holds: it stops below a node it has
\* met on the way.
Repeats(p) == \E i \in 1..(Len(p) - 1) : p[i] = p[Len(p)]
Longer(P) == UNION {{Append(p, m) : m \in ChildSet(p[Len(p)])} : p \in {q \in P : ~Repeats(q)}}
PathsFrom(r) == LET paths[k \in Nat] == IF k = 0 THEN {<<r>>} ELSE Longer(paths[k - 1]) IN paths
Unfolding(r) == UNION {PathsFrom(r)[k] : k \in 0..MaxDepth}

\* p comes before q in preorder, siblings in the order of the code.
Precedes(p, q) ==
  \/ Len(p) < Len(q) /\ \A j \in DOMAIN p : p[j] = q[j]
  \/ \E i \in DOMAIN p \cap DOMAIN q :
       Before(p[i], q[i]) /\ \A j \in 1..(i - 1) : p[j] = q[j]

Failures == {"ambiguous", "missing", "invalid", "exceeded"}
TypeOK ==
  /\ graph.live \subseteq NodeIDs /\ pc \in {"start", "walk", "done"} \cup Failures
  /\ count = Len(tree) /\ count \in 0..LimitMaxNodes
  /\ \A i \in DOMAIN stack : stack[i].node \in graph.live /\ \A j \in DOMAIN stack[i].rest : stack[i].rest[j] \in graph.live

\* A tree that is returned holds every included node as often as there are ways to it
\* within the depth, in the order of a listing; a folder shared by two parents is complete
\* below both, one that contains itself ends.
TreeIsUnfolding ==
  pc = "done" =>
    /\ {tree[i] : i \in DOMAIN tree} = Unfolding(tree[1][1])
    /\ \A i, j \in DOMAIN tree : i < j => Precedes(tree[i], tree[j])

\* The call fails for its size exactly when the tree has more than maxNodes nodes
\* ("repository structure exceeds max_nodes"); it never returns a part, and never builds
\* more than it may.
RefusedIffTooLarge ==
  /\ count = 0 \/ count <= MaxNodes
  /\ pc = "exceeded" => \E r \in Roots : Cardinality(Unfolding(r)) > MaxNodes
  /\ pc = "done" => Cardinality(Unfolding(tree[1][1])) <= MaxNodes

\* A folder named without its repository is that folder of the one repository that has
\* it: no answer is about a repository the caller may not have meant.
NoOtherRepository ==
  pc = "done" /\ request.root = 0 =>
    LET r == tree[1][1]
    IN  IF request.repo # None THEN RepoOf[r] = request.repo
        ELSE \/ TypeOf[r] = "WORKSPACE" \/ RepoOf[r] = None
             \/ \A n \in graph.live \ {r} : TypeOf[n] = "FOLDER" => DirOf[n] # request.dir
=============================================================================
