----------------------------- MODULE MCChanges ------------------------------
(***************************************************************************)
(* From source code to the graph, and from a change of it to an answer:    *)
(* change impact analysis, the parser of git diff, the extraction of HTTP  *)
(* routes and of channels, and the choice among the variants of a package. *)
(* A behaviour is one of these parts; s1 to s15 are its state.             *)
(***************************************************************************)
EXTENDS Integers, Sequences

CONSTANTS
  Parts,        \* the parts of this run
  Programs,     \* the functions that register routes
  None          \* a register that is not in use; no channel

VARIABLES part, s1, s2, s3, s4, s5, s6, s7, s8, s9, s10, s11, s12, s13, s14, s15

-----------------------------------------------------------------------------
(* Impact.  Three repositories and two workers; one has changed and        *)
(* untracked files, one a changed test file, the third none.  Two          *)
(* declarations in one file, a caller of one of them, a caller of both it  *)
(* and the other.                                                          *)

File(r, p, whole, rgs, untracked, test) ==
  [repo |-> r, path |-> p, whole |-> whole, ranges |-> rgs, untracked |-> untracked, test |-> test]
Modified11 == File(1, 11, FALSE, {[start |-> 1, end |-> 2]}, FALSE, FALSE)
Between11 == File(1, 11, FALSE, {[start |-> 4, end |-> 4]}, FALSE, FALSE)
New12 == File(1, 12, TRUE, {}, TRUE, FALSE)
Test22 == File(2, 22, TRUE, {}, FALSE, TRUE)
Late21 == File(2, 21, TRUE, {}, FALSE, FALSE)
Node(i, r, p, a, b) == [id |-> i, repo |-> r, path |-> p, first |-> a, last |-> b]
Request(ref, d, n, f, u) == [baseRef |-> ref, maxDepth |-> d, maxNodes |-> n, maxFiles |-> f, untracked |-> u]

ImpactRepos == {1, 2, 3}
ImpactTrees ==
  {[r \in ImpactRepos |-> CASE r = 1 -> a [] r = 2 -> {Late21, Test22} [] OTHER -> {}] :
     a \in {{Modified11}, {Between11, New12}}}
ImpactNodes == {Node("f", 1, 11, 2, 3), Node("g", 1, 11, 5, 6), Node("h", 2, 21, 1, 3), Node("k", 0, 31, 1, 2)}
ImpactDeps == {<<"h", "f">>, <<"k", "h">>, <<"k", "g">>, <<"f", "k">>}
ImpactRequests ==
  {Request("", 0, 0, 0, TRUE), Request("HEAD", 2, 1, 2, FALSE),
   Request("a..b", 1, 1, 1, TRUE), Request("HEAD", 9, 1, 1, TRUE)}

Impact == INSTANCE ImpactAnalysis WITH
  Repos <- ImpactRepos, Trees <- ImpactTrees, Nodes <- ImpactNodes, Deps <- ImpactDeps,
  Requests <- ImpactRequests,
  MaxDepthLimit <- 2, MaxNodesLimit <- 4, MaxFilesLimit <- 5, WorkerLimit <- 2, MaxUpdates <- 1,
  request <- s1, tree <- s2, tests <- s3, pc <- s4, worker <- s5, freshness <- s6, diff <- s7,
  files <- s8, report <- s9, ids <- s10, cancelled <- s11, live <- s12, gap <- s13, updates <- s14,
  moved <- s15

\* The same without changed files, for the question whether a call ends.
OneTree == {[r \in ImpactRepos |-> {}]}
OneRequest == {Request("", 0, 0, 0, TRUE)}
NoDeps == {}
SmallImpact == INSTANCE ImpactAnalysis WITH
  Repos <- ImpactRepos, Trees <- OneTree, Nodes <- NoDeps, Deps <- NoDeps, Requests <- OneRequest,
  MaxDepthLimit <- 2, MaxNodesLimit <- 4, MaxFilesLimit <- 5, WorkerLimit <- 2, MaxUpdates <- 1,
  request <- s1, tree <- s2, tests <- s3, pc <- s4, worker <- s5, freshness <- s6, diff <- s7,
  files <- s8, report <- s9, ids <- s10, cancelled <- s11, live <- s12, gap <- s13, updates <- s14,
  moved <- s15

-----------------------------------------------------------------------------
(* Diffs of up to two files with up to two hunks at the top, in the middle *)
(* and at the end of a file of six lines, headers that cannot be parsed,   *)
(* and deleted lines that look like a header.                              *)

Hunk(s, c, l) == [start |-> s, count |-> c, looks |-> l]
\* Deletions (count 0) from line 0 on, additions from line 1 on.
Hunks(looks) ==
  {Hunk(s, 0, l) : s \in 0..4, l \in looks} \cup {Hunk(s, c, l) : s \in {1, 3, 5}, c \in 1..2, l \in looks}
HunkSeqs(looks) ==
  {<<>>} \cup {<<h>> : h \in Hunks(looks)}
  \cup {s \in {<<g, h>> : g \in Hunks({"text"}), h \in Hunks(looks)} : s[1].start + s[1].count < s[2].start}
Change(k, p, q, b, hs) == [kind |-> k, old |-> p, new |-> q, parses |-> b, hunks |-> hs]
Edited(p, looks) ==
  {Change("M", p, p, b, s) : b \in BOOLEAN, s \in HunkSeqs(looks)} \ {Change("M", p, p, FALSE, <<>>)}
OtherChanges(p, q) ==
  {Change("A", p, p, TRUE, <<Hunk(1, 4, "text")>>), Change("D", p, p, FALSE, <<Hunk(0, 0, "minus")>>),
   Change("R", q, p, TRUE, <<>>), Change("R", q, p, FALSE, <<Hunk(2, 1, "minus")>>)}
OneFile == {<<c>> : c \in Edited("x.go", {"text", "minus"}) \cup OtherChanges("x.go", "y.go")}
TwoFiles ==
  {<<c, d>> : c \in OtherChanges("x.go", "z.go"),
              d \in OtherChanges("y.go", "z.go") \cup {Change("M", "y.go", "y.go", TRUE, <<>>)}}

DiffPaths == {"x.go", "y.go", "z.go"}
ShownDiffs == OneFile \cup TwoFiles

Diff == INSTANCE DiffRanges WITH
  Paths <- DiffPaths, Diffs <- ShownDiffs,
  diff <- s1, lines <- s2, at <- s3, current <- s4, files <- s5, done <- s6

-----------------------------------------------------------------------------
(* Routes, channels, variants.                                             *)

Source == INSTANCE SourceInputs WITH NoChannel <- None
RoutePrograms == Source!RoutePrograms
AppendPrograms == Source!AppendPrograms
RouteStrings == Source!RouteStrings
RouteGroups == Source!RouteGroups
RouteUpper == Source!RouteUpper
Routes == INSTANCE RouteScopes WITH
  StringVars <- RouteStrings, GroupVars <- RouteGroups, Upper <- RouteUpper,
  program <- s1, stack <- s2, found <- s3

FlowPkgs == Source!FlowPkgs
FlowPkgOf == Source!FlowPkgOf
FlowParsedWith == Source!FlowParsedWith
FlowPrograms == Source!FlowPrograms
FlowDeclared == Source!FlowDeclared
FlowFields == Source!FlowFields
Flows == INSTANCE ParseFlows WITH
  PkgOrder <- FlowPkgs, PkgOf <- FlowPkgOf, ParsedWith <- FlowParsedWith,
  Programs <- FlowPrograms, Processors <- 2, Declared <- FlowDeclared, Fields <- FlowFields,
  MaxEdits <- 1, NoChannel <- None,
  program <- s1, started <- s2, running <- s3, result <- s4, cancelled <- s5, phase <- s6,
  stale <- s7, edits <- s8

\* The same with two states of the source code, for the question whether a parse ends.
TwoPrograms == Source!TwoPrograms
SmallFlows == INSTANCE ParseFlows WITH
  PkgOrder <- FlowPkgs, PkgOf <- FlowPkgOf, ParsedWith <- FlowParsedWith,
  Programs <- TwoPrograms, Processors <- 2, Declared <- FlowDeclared, Fields <- FlowFields,
  MaxEdits <- 1, NoChannel <- None,
  program <- s1, started <- s2, running <- s3, result <- s4, cancelled <- s5, phase <- s6,
  stale <- s7, edits <- s8

ModulePath == Source!M
SyntheticPaths == Source!SyntheticPaths
VariantLoads == Source!VariantLoads
Variants == INSTANCE PackageVariants WITH
  Module <- ModulePath, Synthetic <- SyntheticPaths, Loads <- VariantLoads,
  load <- s1, selected <- s2, position <- s3, stack <- s4, visited <- s5, collected <- s6

ASSUME InputsAssumption == Impact!ImpactAssumption /\ Diff!DiffAssumption

-----------------------------------------------------------------------------
Rest9 == <<s9, s10, s11, s12, s13, s14, s15>>
Rest7 == <<s7, s8, Rest9>>
Rest4 == <<s4, s5, s6, Rest7>>
All == <<part, s1, s2, s3, Rest4>>
Free9 == s9 = None /\ s10 = None /\ s11 = None /\ s12 = None /\ s13 = None /\ s14 = None /\ s15 = None
Free7 == s7 = None /\ s8 = None /\ Free9
Free4 == s4 = None /\ s5 = None /\ s6 = None /\ Free7

Init ==
  /\ part \in Parts
  /\ \/ part = "impact" /\ Impact!Init
     \/ part = "call ends" /\ SmallImpact!Init
     \/ part = "parse ends" /\ SmallFlows!Init /\ Free9
     \/ part = "diff" /\ Diff!Init /\ Free7
     \/ part = "routes" /\ Routes!Init /\ Free4
     \/ part = "flows" /\ Flows!Init /\ Free9
     \/ part = "variants" /\ Variants!Init /\ Free7

Next ==
  /\ UNCHANGED part
  /\ \/ part = "impact" /\ Impact!Next
     \/ part = "call ends" /\ SmallImpact!Next
     \/ part = "parse ends" /\ SmallFlows!Next /\ UNCHANGED Rest9
     \/ part = "diff" /\ Diff!Next /\ UNCHANGED Rest7
     \/ part = "routes" /\ Routes!Next /\ UNCHANGED Rest4
     \/ part = "flows" /\ Flows!Next /\ UNCHANGED Rest9
     \/ part = "variants" /\ Variants!Next /\ UNCHANGED Rest7

Spec ==
  /\ Init /\ [][Next]_All
  /\ WF_All(part = "call ends" /\ SmallImpact!GoStep /\ UNCHANGED part)
  /\ WF_All(part = "parse ends" /\ SmallFlows!GoStep /\ UNCHANGED <<part, Rest9>>)

-----------------------------------------------------------------------------
\* The report of an impact analysis (impact.go): complete where it says so, the same in
\* any order of the workers, honest about the repositories, files and tests it missed.
ImpactIsComplete ==
  part = "impact" =>
    /\ Impact!TypeOK /\ Impact!FailsForCause /\ Impact!FreshSeesEveryTest
    /\ Impact!SameListInAnyOrder /\ Impact!ListedOrWarned /\ Impact!ImpactIsComplete

\* ParseDiff and the ranges asked for (impact.go): exactly the declarations next to a
\* change are touched, of exactly the files that changed.
TouchedDeclarations ==
  part = "diff" => Diff!TypeOK /\ Diff!FilesAreThoseOfDiff /\ Diff!TouchedDeclarations

\* Routes (route.go): a route in the graph is one the program registers whenever it gets
\* there, and without branches every static one is found.
FoundIsRegistered == part = "routes" => Routes!FoundIsRegistered /\ Routes!StaticIsFound

\* Channels (parser.go, visitor.go): the edges are those of the source as it is, in any
\* order of the workers and after any update, and none is invented.
LiveIsCurrent == part = "flows" => Flows!TypeOK /\ Flows!LiveIsCurrent /\ Flows!EdgesAreReal

\* Variants of a package (parser.go): none of its declarations is left out, and IMPLEMENTS
\* edges are those of the source, whichever variants were read.
ImplementsAsWritten ==
  part = "variants" => Variants!SelectedIsWhole /\ Variants!AllAreInternal /\ Variants!ImplementsAsWritten

\* Every impact analysis ends, with more repositories than workers too; every parse ends,
\* with an error or with a graph that catches up with the source again and again.
EveryCallEnds ==
  /\ (part = "call ends") ~> (part = "call ends" /\ SmallImpact!Over)
  /\ (part = "parse ends") ~> (part = "parse ends" /\ SmallFlows!Settled)
=============================================================================
