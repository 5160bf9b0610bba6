-------------------------- MODULE MCWorkspaceGraph --------------------------
(***************************************************************************)
(* Two more instances of KnowledgeGraph, one of them in each behaviour:    *)
(* two repositories of a workspace with stubs for each other, and one      *)
(* repository with its folder tree.                                        *)
(***************************************************************************)
EXTENDS Integers, FiniteSets

CONSTANTS NoNode, NoPkg

VARIABLES
  part,
  nodeMap, nodes, edges, nextNodeID, registered, nodeStore, edgeStore, loaded, tornNodes, tornEdges,
  parked

Func(i, r) == [id |-> i, type |-> "FUNC", repo |-> r]
Stub(i, r) == [id |-> i, type |-> "BOUNDARY", repo |-> r]
EdgeOf(a, b, t, r, s) == [from |-> a, to |-> b, type |-> t, repo |-> r, sites |-> s]
Result(r, N, E) == [repo |-> r, nodes |-> N, edges |-> E]
None == {}
OneSite == {1}
Current == {"v3"}

-----------------------------------------------------------------------------
(* Two repositories: p = {f} in A, q = {g} in B.  Each sees the other's    *)
(* function as a stub when it calls it.                                    *)

WsIDs == {"f", "g"}
PkgPathOf2 == [i \in WsIDs |-> IF i = "g" THEN "q" ELSE "p"]
OwnerOf2 == [p \in {"p", "q"} |-> IF p = "p" THEN "A" ELSE "B"]
KindOf2 == [i \in WsIDs |-> "FUNC"]
RepoOf2 == [i \in WsIDs |-> "A"]
Results2 ==
  { Result("A", {Func("f", "A"), Stub("g", "A")}, {EdgeOf("f", "g", "CALLS", "A", {1})}),
    Result("A", {Func("f", "A")}, {}),
    Result("B", {Func("g", "B")}, {}),
    Result("B", {Func("g", "B"), Stub("f", "B")}, {EdgeOf("g", "f", "CALLS", "B", {1})}) }
TwoRepos == {"A", "B"}
TwoPkgs == {"p", "q"}
Calls == {"CALLS"}
Databases2 == {[nodes |-> [r \in TwoRepos |-> [i \in WsIDs |-> NoNode]], edges |-> [r \in TwoRepos |-> {}]]}

Two == INSTANCE KnowledgeGraph WITH
  NodeIDs <- WsIDs, PkgPaths <- TwoPkgs, RepoIDs <- TwoRepos, EdgeTypes <- Calls, Sites <- OneSite,
  MaxNodeID <- 2, PkgPathOf <- PkgPathOf2, OwnerOf <- OwnerOf2, KindOf <- KindOf2, RepoOf <- RepoOf2,
  ParseResults <- Results2, StructureResults <- None, SingleNodes <- None, SingleEdges <- None,
  KeyVersions <- Current, OldDatabases <- Databases2

-----------------------------------------------------------------------------
(* One repository with its folder tree: the REPO node holds folder d, which *)
(* may hold the package of f.                                              *)

TreeIDs == {"repo", "d", "f"}
PkgPathOf3 == [i \in TreeIDs |-> IF i = "f" THEN "p" ELSE NoPkg]
OwnerOf3 == [p \in {"p"} |-> "r"]
KindOf3 == [i \in TreeIDs |-> CASE i = "repo" -> "REPO" [] i = "d" -> "FOLDER" [] OTHER -> "FUNC"]
RepoOf3 == [i \in TreeIDs |-> "r"]
Contains(a, b) == EdgeOf(a, b, "CONTAINS", "r", {})
TreeNode(i, t) == [id |-> i, type |-> t, repo |-> "r"]
RepoTree == Result("r", {TreeNode("repo", "REPO"), TreeNode("d", "FOLDER")},
                   {Contains("repo", "d")})
WithPackage(res) == [res EXCEPT !.edges = @ \cup {Contains("d", "f")}]
Structures3 == {RepoTree, WithPackage(RepoTree)}
CallSelf == EdgeOf("f", "f", "CALLS", "r", {1})
Results3 == {Result("r", {Func("f", "r")}, {CallSelf})}
OneRepo == {"r"}
OnePkg == {"p"}
CallsAndTree == {"CALLS", "CONTAINS"}
Databases3 == {[nodes |-> [r \in OneRepo |-> [i \in TreeIDs |-> NoNode]], edges |-> [r \in OneRepo |-> {}]]}

Tree == INSTANCE KnowledgeGraph WITH
  NodeIDs <- TreeIDs, PkgPaths <- OnePkg, RepoIDs <- OneRepo, EdgeTypes <- CallsAndTree, Sites <- OneSite,
  MaxNodeID <- 4, PkgPathOf <- PkgPathOf3, OwnerOf <- OwnerOf3, KindOf <- KindOf3, RepoOf <- RepoOf3,
  ParseResults <- Results3, StructureResults <- Structures3, SingleNodes <- None, SingleEdges <- None,
  KeyVersions <- Current, OldDatabases <- Databases3

-----------------------------------------------------------------------------
Init ==
  \/ part = "two" /\ Two!Init
  \/ part = "tree" /\ Tree!Init
Next ==
  /\ UNCHANGED part
  /\ \/ part = "two" /\ Two!Next
     \/ part = "tree" /\ Tree!Next
vars == <<part, Two!vars>>
Spec == Init /\ [][Next]_vars

\* Memory and stores agree, also with a store per repository and with the folder tree,
\* whose replacement is the one place where numeric ids are forgotten.
StoresAgree ==
  /\ part = "two" => Two!StoresAgree
  /\ part = "tree" => Tree!StoresAgree /\ Tree!EdgeEndpointsResolve

\* A stub of one repository never displaces the declaration of another, and replacing the
\* folder tree leaves packages and their edges alone.
NoMergeDemotes ==
  [][/\ part = "two" => Two!DeclarationNeverDemoted
     /\ part = "tree" => Tree!StructureReplacementIsLocal]_vars

\* Every call is a step of GraphView or none.
ImplementsView ==
  /\ part = "two" => Two!View!Init
  /\ part = "tree" => Tree!View!Init
  /\ [][part = "two" => [Two!View!Next]_(Two!View!vars)]_vars
  /\ [][part = "tree" => [Tree!View!Next]_(Tree!View!vars)]_vars
=============================================================================
