-------------------------- MODULE MCKnowledgeGraph --------------------------
(***************************************************************************)
(* A small instance of KnowledgeGraph: two packages of one repository.     *)
(***************************************************************************)
EXTENDS KnowledgeGraph

Func(i, r) == [id |-> i, type |-> "FUNC", repo |-> r]
Stub(i, r) == [id |-> i, type |-> "BOUNDARY", repo |-> r]
EdgeOf(a, b, t, r, s) == [from |-> a, to |-> b, type |-> t, repo |-> r, sites |-> s]
EmptyDB == [nodes |-> [r \in RepoIDs |-> [i \in NodeIDs |-> NoNode]],
            edges |-> [r \in RepoIDs |-> {}]]
Result(r, N, E) == [repo |-> r, nodes |-> N, edges |-> E]

-----------------------------------------------------------------------------
(* One repository, packages p = {f, h} and q = {g}: f calls g from two     *)
(* places and h from one.  The database may be one written with v2 keys.   *)

PkgIDs == {"f", "h", "g"}
PkgPathOf1 == [i \in PkgIDs |-> IF i = "g" THEN "q" ELSE "p"]
OwnerOf1 == [p \in {"p", "q"} |-> "r"]
KindOf1 == [i \in PkgIDs |-> "FUNC"]
RepoOf1 == [i \in PkgIDs |-> "r"]
CallG(s) == EdgeOf("f", "g", "CALLS", "r", s)
CallH == EdgeOf("f", "h", "CALLS", "r", {1})
Results1 ==
  { Result("r", {Func("f", "r")}, {CallG({1}), CallG({2})}),
    Result("r", {Func("f", "r"), Func("h", "r")}, {CallG({2}), CallH}),
    Result("r", {Func("g", "r")}, {}) }
SingleNodes1 == {Func("g", "r")}
SingleEdges1 == {CallG({1})}
OldDB1 ==
  [nodes |-> [r \in RepoIDs |-> [i \in NodeIDs |->
                IF i = "h" THEN NoNode ELSE Func(i, "r")]],
   edges |-> [r \in RepoIDs |-> {[ver |-> "v2", edge |-> CallG({1})]}]]
Databases1 == {EmptyDB, OldDB1}
=============================================================================
