--------------------------- MODULE PackageVariants ---------------------------
(***************************************************************************)
(* Which packages a full analysis takes, and the IMPLEMENTS edges between  *)
(* them.  With tests, packages.Load returns several variants of a package: *)
(* the plain one, the one compiled with its own _test.go files, the ones   *)
(* compiled again for the tests of another package, an external test       *)
(* package and the synthetic main of the test.  selectGraphPackages keeps  *)
(* one variant of every path; resolveImplementsEdges then walks from the   *)
(* selected packages along their imports, whose map Go iterates in any     *)
(* order, and collects the types of the first variant it meets of a path.  *)
(* A type of one variant is not the type of the same name of another.      *)
(*                                                                         *)
(* A variant is a record                                                   *)
(*   path      the import path, a sequence of elements                     *)
(*   forTest   the path of the package whose test it is compiled for, <<>> *)
(*             for the plain variant                                       *)
(*   syntax    how many files it has                                       *)
(*   types     what it declares: [name, kind, sig], where sig is the path  *)
(*             of the package whose type the methods mention, or <<>>      *)
(*   imports   the keys, in the load, of the variants it is compiled with  *)
(* and a load maps keys to variants.                                       *)
(***************************************************************************)
EXTENDS Naturals, Sequences, FiniteSets, SequencesExt

CONSTANTS Module,     \* the module path
          Synthetic,  \* the paths that end in .test
          Loads       \* what packages.Load may return: [order, of]

VARIABLES load, selected, position, stack, visited, collected

vars == <<load, selected, position, stack, visited, collected>>

-----------------------------------------------------------------------------
(* selectGraphPackages *)

Prefer(candidate, current) ==
  \/ candidate.forTest # <<>> /\ current.forTest = <<>>
  \/ candidate.syntax > current.syntax

\* The keys of the selected variants, in the order their paths were first met.
Selected(l) ==
  FoldLeft(LAMBDA acc, k :
             IF l.of[k].path \in Synthetic THEN acc
             ELSE IF \A i \in DOMAIN acc : l.of[acc[i]].path # l.of[k].path THEN Append(acc, k)
             ELSE [i \in DOMAIN acc |->
                     IF l.of[acc[i]].path = l.of[k].path /\ Prefer(l.of[k], l.of[acc[i]])
                     THEN k ELSE acc[i]],
           <<>>, l.order)

Internal(path) == path = Module \/ IsStrictPrefix(Module, path)

-----------------------------------------------------------------------------
(* resolveImplementsEdges: the walk that collects structs and interfaces *)

Init ==
  /\ load \in Loads
  /\ selected = Selected(load)
  /\ position = 1
  /\ stack = <<>>
  /\ visited = {}
  /\ collected = {}

CollectOnce(k, rest) ==
  LET v == load.of[k]
  IN IF v.path \in visited
     THEN stack' = rest /\ UNCHANGED <<visited, collected>>
     ELSE /\ visited' = visited \cup {v.path} \cup {load.of[i].path : i \in v.imports}
          /\ collected' = collected \cup {k}
          /\ stack' = <<[of |-> k, left |-> v.imports]>> \o rest

\* collect, up to its loop over the imports; rest is the stack it returns to.
Collect(k, rest) ==
  LET v == load.of[k]
  IN IF v.path \in visited
     THEN stack' = rest /\ UNCHANGED <<visited, collected>>
     ELSE /\ visited' = visited \cup {v.path}
          /\ IF Internal(v.path)
             THEN /\ collected' = collected \cup {k}
                  /\ stack' = <<[of |-> k, left |-> v.imports]>> \o rest
             ELSE stack' = rest /\ UNCHANGED collected

NextSelected ==
  /\ stack = <<>>
  /\ position <= Len(selected)
  /\ Collect(selected[position], <<>>)
  /\ position' = position + 1
  /\ UNCHANGED <<load, selected>>

Import(k) ==
  /\ stack # <<>>
  /\ k \in Head(stack).left
  /\ Collect(k, <<[Head(stack) EXCEPT !.left = @ \ {k}]>> \o Tail(stack))
  /\ UNCHANGED <<load, selected, position>>

Return ==
  /\ stack # <<>>
  /\ Head(stack).left = {}
  /\ stack' = Tail(stack)
  /\ UNCHANGED <<load, selected, position, visited, collected>>

Collected == stack = <<>> /\ position > Len(selected)

Done == Collected /\ UNCHANGED vars

Next ==
  \/ NextSelected
  \/ \E k \in DOMAIN load.of : Import(k)
  \/ Return
  \/ Done

Spec == Init /\ [][Next]_vars

\* The variant of a path that the types of k mention.
Seen(k, path) ==
  IF path = load.of[k].path THEN {k} ELSE {i \in load.of[k].imports : load.of[i].path = path}

\* types.Implements, for types with one method each: the method mentions the
\* same type, of the same variant, or none.
Implements(k, s, m, i) == s.sig = i.sig /\ Seen(k, s.sig) = Seen(m, i.sig)

TypesOf(keys, kind) ==
  {<<k, t>> \in keys \X UNION {load.of[k].types : k \in keys} :
     t \in load.of[k].types /\ t.kind = kind}

\* A named type is identified by the path of its package and its name.
ImplementsEdges ==
  {<<<<load.of[s[1]].path, s[2].name>>, <<load.of[i[1]].path, i[2].name>>>> :
     <<s, i>> \in {x \in TypesOf(collected, "struct") \X TypesOf(collected, "interface") :
                     Implements(x[1][1], x[1][2], x[2][1], x[2][2])}}

-----------------------------------------------------------------------------
(* What an analysis with or without tests promises *)

\* Everything that some variant of a package declares is declared by the variant
\* that was selected: no _test.go file of the package is left out, whatever the
\* order of the load.
SelectedIsWhole ==
  \A k \in Range(load.order) :
    load.of[k].path \notin Synthetic =>
      \E i \in DOMAIN selected : /\ load.of[selected[i]].path = load.of[k].path
                                 /\ load.of[k].types \subseteq load.of[selected[i]].types

\* Every package of the module, its test packages among them, is analysed and not
\* taken for the boundary of one: ./... loads nothing else.
AllAreInternal == \A i \in DOMAIN selected : Internal(load.of[selected[i]].path)

\* The graph has an IMPLEMENTS edge between two types that it holds exactly if
\* their methods agree in the source code, whichever variants they were read from
\* and in whichever order the imports were walked.
ImplementsAsWritten ==
  Collected =>
    ImplementsEdges =
      {<<<<load.of[s[1]].path, s[2].name>>, <<load.of[i[1]].path, i[2].name>>>> :
         <<s, i>> \in {x \in TypesOf(Range(selected), "struct")
                               \X TypesOf(Range(selected), "interface") :
                         x[1][2].sig = x[2][2].sig}}
=============================================================================
