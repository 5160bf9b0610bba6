\* Every query of the graph and the three stages of a Cypher query.
CONSTANTS
  Asked = {"blast", "path", "scan", "tree", "context", "text", "tokens", "rows"}
  None = None
  SearchEdgeTypes <- MCSearchEdgeTypes
  BlastIDs <- MCBlastIDs
  BlastGraphs <- MCBlastGraphs
  BlastRequests <- MCBlastRequests
  PathIDs <- MCPathIDs
  PathGraphs <- MCPathGraphs
  ScanIDs <- MCScanIDs
  ScanType <- MCScanType
  ScanGraphs <- MCScanGraphs
  ScanSearches <- MCScanSearches
  TreeIDs <- MCTreeIDs
  TreeType <- MCTreeType
  TreeDir <- MCTreeDir
  TreeRepo <- MCTreeRepo
  TreeGraphs <- MCTreeGraphs
  TreeRequests <- MCTreeRequests
  ContextIDs <- MCContextIDs
  ContextType <- MCContextType
  ContextGraphs <- MCContextGraphs
  ContextLines <- MCContextLines
  ContextRequests <- MCContextRequests
  ContextParsed <- MCContextParsed
  ContextFiles <- MCContextFiles
  ContextDefaults <- MCContextDefaults
  ContextMaxima <- MCContextMaxima
  Texts <- MCTexts
  ParserUpper <- MCParserUpper
  ParserInputs <- MCParserInputs
  ParserQueries <- MCParserQueries
  EvalIDs <- MCEvalIDs
  EvalType <- MCEvalType
  EvalGraphs <- MCEvalGraphs
  EvalQueries <- MCEvalQueries
  EvalValue <- MCEvalValue
  EvalContains <- MCEvalContains
  Letters <- MCLetters
  Digits <- MCDigits
  Keyword <- MCKeyword
  SearchLimit = 3
  DefaultMaxDepth = 3
  LimitMaxDepth = 4
  DefaultMaxNodes = 9
  LimitMaxNodes = 12
  Nul = "nul"
  MaxInt = 8
SPECIFICATION AllSpec
INVARIANTS
  BlastRadiusIsExact
  PathIsShortestCalls
  ScansMissNothing
  TreeIsUnfolding
  ContextLosesNothing
  TokensAreWhole
  TreeIsWhatIsWritten
  RowsAreMatches
\* A call that is answered is the end of a behaviour.
CHECK_DEADLOCK FALSE
