----------------------------- MODULE Traversal ------------------------------
(***************************************************************************)
(* What the searches of the graph have in common: ids in order, and the    *)
(* nodes a number of steps leads to.  A relation is a set of pairs.        *)
(***************************************************************************)
EXTENDS Integers, Sequences, FiniteSets

\* The ids of S in order: the i-th has i - 1 ids below it (sort.Strings).
InOrder(S) == [i \in 1..Cardinality(S) |-> CHOOSE x \in S : Cardinality({y \in S : y < x}) = i - 1]

\* The nodes X and those a step of R leads to.
Grow(R, X) == X \cup {p[2] : p \in {q \in R : q[1] \in X}}

\* Within(R, S)[k]: the nodes that at most k steps of R lead to from a node of S.
Within(R, S) == LET W[k \in Nat] == IF k = 0 THEN S ELSE Grow(R, W[k - 1]) IN W
=============================================================================
