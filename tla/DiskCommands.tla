---------------------------- MODULE DiskCommands -----------------------------
(***************************************************************************)
(* The commands that keep their state on disk: the workspace commands, one *)
(* at a time or together, analyze, and the freshness reports of gokg       *)
(* impact and of a watching server.  A behaviour is one of these parts;    *)
(* the variables s1 to s14 are the state of AnalyzeRun or of Freshness,    *)
(* those of Workspace rest in their initial state meanwhile.               *)
(***************************************************************************)
EXTENDS Workspace, Sequences

CONSTANTS
  Parts,                              \* the parts that are looked at
  AnalyzedRepos, FoundDirs, MaxRuns,  \* repositories of an analysis, what it finds, how often
  Versions, Gone,                     \* of Freshness
  Files, Ignored,                     \* files of the repository gokg impact looks at
  ServedFiles, ServedIgnored,         \* files of the one that is served and watched
  MaxCommits, MaxChanges,
  None

VARIABLES part, s1, s2, s3, s4, s5, s6, s7, s8, s9, s10, s11, s12, s13, s14

-----------------------------------------------------------------------------
Analyses == INSTANCE AnalyzeRun WITH
  Repos <- AnalyzedRepos, Found <- FoundDirs,
  dir <- s1, pc <- s2, result <- s3, lock <- s4, rebuild <- s5, command <- s6, cancelled <- s7,
  runs <- s8, atStart <- s9, torn <- s10, refused <- s11

\* Reports of gokg impact, beside analyses with and without --rebuild.
Reports == INSTANCE Freshness WITH
  Modes <- {"rebuild", "plain"}, Server <- FALSE,
  disk <- s1, commits <- s2, head <- s3, graph <- s4, served <- s5, meta <- s6, writer <- s7,
  pending <- s8, report <- s9, changes <- s10, whole <- s11, exact <- s12, same <- s13, index <- s14

\* Reports of a server that watches, beside analyses by another process.
Served == INSTANCE Freshness WITH
  Modes <- {"rebuild", "watch"}, Server <- TRUE, Files <- ServedFiles, Ignored <- ServedIgnored,
  disk <- s1, commits <- s2, head <- s3, graph <- s4, served <- s5, meta <- s6, writer <- s7,
  pending <- s8, report <- s9, changes <- s10, whole <- s11, exact <- s12, same <- s13, index <- s14

ASSUME Inputs == Analyses!AnalyzeAssumption /\ Reports!FreshnessAssumption /\ Served!FreshnessAssumption

-----------------------------------------------------------------------------
Rest12 == <<s12, s13, s14>>
Rest1 == <<s1, s2, s3, s4, s5, s6, s7, s8, s9, s10, s11, Rest12>>
Free12 == s12 = None /\ s13 = None /\ s14 = None
Free1 ==
  /\ s1 = None /\ s2 = None /\ s3 = None /\ s4 = None /\ s5 = None /\ s6 = None /\ s7 = None
  /\ s8 = None /\ s9 = None /\ s10 = None /\ s11 = None /\ Free12

CommandsInit ==
  /\ part \in Parts /\ Init
  /\ \/ part \in {"alone", "together"} /\ Free1
     \/ part = "analyze" /\ Analyses!Init /\ Free12
     \/ part = "reports" /\ Reports!Init
     \/ part = "served" /\ Served!Init

CommandsNext ==
  /\ UNCHANGED part
  /\ \/ part = "together" /\ Next /\ UNCHANGED Rest1
     \/ part = "alone" /\ NextAlone /\ UNCHANGED Rest1
     \/ part = "analyze" /\ Analyses!Next /\ UNCHANGED <<vars, Rest12>>
     \/ part = "reports" /\ Reports!Next /\ UNCHANGED vars
     \/ part = "served" /\ Served!Next /\ UNCHANGED vars

commandVars == <<part, vars, Rest1>>
CommandsSpec == CommandsInit /\ [][CommandsNext]_commandVars

-----------------------------------------------------------------------------
\* The configuration (workspace.go).  Whatever fails or is killed, commands that run one
\* after the other leave no database behind and keep every repository that was added; and
\* a file that does not parse was cut short while it was written, or written twice at once.
ConfigurationIsKept ==
  /\ part \in {"alone", "together"} => TypeOK /\ TornOnlyIfBroken
  /\ part = "alone" => NoOrphan /\ AddedStays

\* Analyses (analyze.go): success means the whole new graph everywhere; metadata are always
\* those of a graph that was merged whole, whatever failed, was cancelled or killed, in the
\* reports' histories as well; no database stays open; and --rebuild is refused only for a
\* directory with files of somebody else, or with what a removal or an opening left that
\* was cut short, and then changes nothing in it.
AnalysesAreWhole ==
  /\ part = "analyze" =>
       /\ Analyses!TypeOK /\ Analyses!SuccessIsComplete /\ Analyses!MetaNeverAhead
       /\ Analyses!ReleasesLocks /\ Analyses!RefusedOnlyIfTorn /\ Analyses!RefusalKeeps
  /\ part = "reports" => Reports!TypeOK /\ Reports!MetadataOfWhole
  /\ part = "served" => Served!TypeOK

\* Freshness (freshness.go): of a graph that was rebuilt from a clean tree, "fresh" is said
\* only while memory, database and tree agree on every file Git does not ignore; and "stale"
\* never while tree, index and HEAD are what the writer of the metadata saw.
FreshnessIsHonest ==
  [][/\ part = "reports" => Reports!CleanFreshMatches /\ Reports!NoFalseAlarm
     /\ part = "served" => Served!CleanFreshMatches /\ Served!NoFalseAlarm]_commandVars

=============================================================================
