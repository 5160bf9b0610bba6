----------------------------- MODULE AllQueries ------------------------------
(***************************************************************************)
(* Every query: those of Queries, the node context, and the Cypher parser  *)
(* between the lexer and the evaluator.                                    *)
(***************************************************************************)
EXTENDS Queries

CONSTANTS
  ContextIDs, ContextType, ContextGraphs, ContextLines, ContextRequests, ContextParsed,
  ContextFiles, ContextDefaults, ContextMaxima,
  ParserUpper, MaxInt, ParserInputs, ParserQueries

-----------------------------------------------------------------------------
Context == INSTANCE NodeContext WITH
  NodeIDs <- ContextIDs, TypeOf <- ContextType, Graphs <- ContextGraphs,
  Lines <- ContextLines, Requests <- ContextRequests, Parsed <- ContextParsed,
  Files <- ContextFiles, Defaults <- ContextDefaults, Maxima <- ContextMaxima,
  options <- r1, context <- r2, file <- r3, part <- r4, lineNum <- r5, captured <- r6,
  written <- r7, copied <- r8, source <- r9
Parser == INSTANCE CypherParser WITH
  Upper <- ParserUpper, Inputs <- ParserInputs, Queries <- ParserQueries,
  tokens <- r1, at <- r2, tree <- r3

ASSUME OtherInputs == Context!ReadAssumption /\ Context!ContextAssumption

-----------------------------------------------------------------------------
Rest4 == <<r4, Rest5>>

AllInit ==
  \/ Init
  \/ /\ asked \in Asked
     /\ \/ asked = "context" /\ Context!Init
        \/ asked = "tokens" /\ Parser!Init /\ graph = None /\ r4 = None /\ Free5

AllNext ==
  \/ Next
  \/ /\ UNCHANGED asked
     /\ \/ asked = "context" /\ Context!Next
        \/ asked = "tokens" /\ Parser!Next /\ UNCHANGED <<graph, Rest4>>

AllSpec == AllInit /\ [][AllNext]_vars

-----------------------------------------------------------------------------
\* The node context (node_context.go): no neighbour is lost between the sections, a section
\* that is cut says so, dependents are the nearest, and the source is the longest part of
\* the node's lines that the limits and the file as it is now allow.
ContextLosesNothing ==
  asked = "context" =>
    Context!TypeOK /\ Context!NothingLost /\ Context!NearestDependents /\ Context!SourceIsLongestPrefix

\* The parser (parser.go): what is accepted is a query of the documented language and the
\* tree says what was written; and no way of writing a query is refused.
TreeIsWhatIsWritten == asked = "tokens" => Parser!AcceptedIsWritten /\ Parser!WrittenIsAccepted
=============================================================================
