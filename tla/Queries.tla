------------------------------- MODULE Queries --------------------------------
(***************************************************************************)
(* The queries that search and scan the graph under the read lock, and the *)
(* two ends of the Cypher engine, where a text is read and where the rows  *)
(* are made.  A behaviour is one call of one of them; the variables r1 to  *)
(* r9 are the locals of that call, under the names of its module.          *)
(***************************************************************************)
EXTENDS Integers, Sequences

CONSTANTS
  Asked,   \* the queries that are asked
  None,
  SearchEdgeTypes, BlastIDs, BlastGraphs, BlastRequests, PathIDs, PathGraphs,
  ScanIDs, ScanType, ScanGraphs, ScanSearches, SearchLimit,
  TreeIDs, TreeType, TreeDir, TreeRepo, TreeGraphs, TreeRequests,
  DefaultMaxDepth, LimitMaxDepth, DefaultMaxNodes, LimitMaxNodes,
  Texts, Letters, Digits, Keyword, Nul,
  EvalIDs, EvalType, EvalGraphs, EvalQueries, EvalValue, EvalContains(_, _)

VARIABLES asked, graph, pc, r1, r2, r3, r4, r5, r6, r7, r8, r9

-----------------------------------------------------------------------------
(* The searches.                                                           *)

Radius == INSTANCE BlastRadius WITH
  NodeIDs <- BlastIDs, EdgeTypes <- SearchEdgeTypes,
  Graphs <- BlastGraphs, Requests <- BlastRequests,
  request <- r1, queue <- r2, head <- r3, inbound <- r4, seen <- r5, truncated <- r6
Path == INSTANCE CallPath WITH
  NodeIDs <- PathIDs, EdgeTypes <- SearchEdgeTypes,
  Graphs <- PathGraphs,
  source <- r1, target <- r2, queue <- r3, head <- r4, seen <- r5, prev <- r6, next <- r7, path <- r8

(* What reads the graph in one pass.                                       *)

Scans == INSTANCE GraphScans WITH
  NodeIDs <- ScanIDs, TypeOf <- ScanType, Graphs <- ScanGraphs,
  Searches <- ScanSearches,
  query <- r1, todo <- r2, results <- r3, found <- r4

(* The folders, as a tree.                                                 *)

Tree == INSTANCE StructureTree WITH
  NodeIDs <- TreeIDs, TypeOf <- TreeType, DirOf <- TreeDir,
  RepoOf <- TreeRepo, Graphs <- TreeGraphs, Requests <- TreeRequests,
  request <- r1, stack <- r2, count <- r3, tree <- r4

(* Cypher: from characters to tokens, and from a query to its rows.       *)

Lexer == INSTANCE CypherLexer WITH
  Inputs <- Texts,
  input <- r1, at <- r2, tokens <- r3, remarks <- r4
Eval == INSTANCE CypherEval WITH
  NodeIDs <- EvalIDs, TypeOf <- EvalType, Graphs <- EvalGraphs,
  Queries <- EvalQueries, NodeValue <- EvalValue, HasSubstring <- EvalContains,
  query <- r1, todo <- r2, current <- r3, others <- r4, results <- r5, count <- r6

ASSUME Inputs ==
  /\ Radius!QueryAssumption /\ Path!PathAssumption
  /\ Scans!ReadAssumption /\ Scans!ScanAssumption /\ Tree!StructureAssumption
  /\ Lexer!LexerAssumption /\ Eval!ReadAssumption /\ Eval!EvalAssumption

-----------------------------------------------------------------------------
Rest9 == <<r9>>
Rest7 == <<r7, r8, r9>>
Rest5 == <<r5, r6, r7, r8, r9>>
Free9 == r9 = None
Free7 == r7 = None /\ r8 = None /\ Free9
Free5 == r5 = None /\ r6 = None /\ Free7

Init ==
  /\ asked \in Asked
  /\ \/ asked = "blast" /\ Radius!Init /\ Free7
     \/ asked = "path" /\ Path!Init /\ Free9
     \/ asked = "scan" /\ Scans!Init /\ Free5
     \/ asked = "tree" /\ Tree!Init /\ Free5
     \/ asked = "text" /\ Lexer!Init /\ graph = None /\ pc = None /\ Free5
     \/ asked = "rows" /\ Eval!Init /\ Free7

Next ==
  /\ UNCHANGED asked
  /\ \/ asked = "blast" /\ Radius!Next /\ UNCHANGED Rest7
     \/ asked = "path" /\ Path!Next /\ UNCHANGED Rest9
     \/ asked = "scan" /\ Scans!Next /\ UNCHANGED Rest5
     \/ asked = "tree" /\ Tree!Next /\ UNCHANGED Rest5
     \/ asked = "text" /\ Lexer!Next /\ UNCHANGED <<graph, pc, Rest5>>
     \/ asked = "rows" /\ Eval!Next /\ UNCHANGED Rest7

vars == <<asked, graph, pc, r1, r2, r3, r4, Rest5>>
Spec == Init /\ [][Next]_vars

-----------------------------------------------------------------------------
\* The blast radius (query.go): everything within the depth and nothing else, unless the
\* limit cut it; cut exactly when the flag says so, and then what is kept is nearest.
BlastRadiusIsExact ==
  asked = "blast" =>
    Radius!TypeOK /\ Radius!ExactUnlessTruncated /\ Radius!TruncatedIffCut /\ Radius!NearestKept

\* FindPath (query.go): a path is given if and only if calls lead to the target; it
\* consists of calls between live nodes, and none is shorter, in whatever order successors
\* are met.
PathIsShortestCalls ==
  asked = "path" => Path!TypeOK /\ Path!PathIsCalls /\ Path!PathIsShortest /\ Path!NoneIffUnreachable

\* The queries that scan the graph once (query.go): a search gives the first page in order;
\* dependencies and dependents are each other's converse; no channel of a function, of what
\* it calls or of what it starts is missing, in whatever order the map is walked.
ScansMissNothing ==
  asked = "scan" => Scans!TypeOK /\ Scans!SearchIsFirstPage /\ Scans!DirectionsAgree /\ Scans!EveryChannelFound

\* The folder tree (structure.go): the unfolding of what contains what, cut at cycles and at
\* the depth; refused exactly when it has more nodes than asked for; and never a folder of
\* another repository.
TreeIsUnfolding ==
  asked = "tree" => Tree!TypeOK /\ Tree!TreeIsUnfolding /\ Tree!RefusedIffTooLarge /\ Tree!NoOtherRepository

\* The lexer (lexer.go): only blanks and line comments are passed over, and every token is
\* as long as the characters allow, also where dashes and quotes meet.
TokensAreWhole == asked = "text" => Lexer!NothingElseIsSkipped /\ Lexer!TokensAreWhole

\* The evaluator (cypher_evaluator.go): each match of the pattern is a row once, with a limit
\* as many as it allows; and a query fails before its first row or not at all.
RowsAreMatches == asked = "rows" => Eval!TypeOK /\ Eval!RowsAreMatches /\ Eval!NeverFailsHalfway
=============================================================================
