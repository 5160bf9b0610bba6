----------------------------- MODULE McpRequests -----------------------------
(***************************************************************************)
(* What the MCP server makes of one message, whichever transport brought   *)
(* it (internal/mcp/server.go, tools.go): the method, the tool, and the    *)
(* checks a tool makes of its arguments before it asks the graph.  Ids are *)
(* numbers; 0 stands for a message without one.                            *)
(***************************************************************************)
EXTENDS Integers, Sequences, FiniteSets

CONSTANTS
  Messages,       \* what clients may send
  HasImpactRepos, \* whether repository roots were configured
  MaxLimit,       \* the largest value of a limit argument, and
  DefaultLimit,   \* the one that is used for an argument left out
  Absent          \* an argument left out; no answer

NodeTools == {"get_dependencies", "get_blast_radius", "get_concurrency_flow", "get_concurrency_graph",
              "get_implementations", "get_source_code", "find_path", "search_nodes"}
Tools == NodeTools \cup {"get_node_context", "get_repository_structure", "execute_cypher", "get_change_impact"}
Arguments == {"dependents", "callers", "limit"}

Reply(id, code) == [id |-> id, code |-> code]
Result == 0
ParseError == -32700
InvalidRequest == -32600
NotFound == -32601
InvalidParams == -32602
ToolError == -32000
Codes == {Result, ParseError, InvalidRequest, NotFound, InvalidParams, ToolError}

MessageAssumption ==
  /\ MaxLimit \in Nat \ {0} /\ DefaultLimit \in 1..MaxLimit /\ HasImpactRepos \in BOOLEAN
  /\ Absent \notin Int /\ \A id \in {0} \cup {m.id : m \in Messages}, code \in Codes : Reply(id, code) # Absent
  /\ \A m \in Messages :
       /\ m.text \in {"json", "trailing", "garbage", "oversize"} /\ m.id \in Nat
       /\ m.version \in {"none", "2.0", "1.0"} /\ m.paramsOK \in BOOLEAN /\ m.argsOK \in BOOLEAN
       /\ \A a \in Arguments : m.args[a] \in Int \cup {Absent}

-----------------------------------------------------------------------------
Given(m, a) == m.args[a] # Absent

\* applyNodeContextLimit: a limit that is given must be in range, even if it is 0.
WithinLimit(m, a) == Given(m, a) => m.args[a] \in 1..MaxLimit

\* The checks of the handlers, those of the graph's options among them: elsewhere than in
\* get_node_context 0 stands for the default; a Cypher query must have a limit.
Accepted(m) ==
  /\ m.argsOK
  /\ CASE m.tool = "get_node_context" ->
            /\ Given(m, "dependents") /\ Given(m, "callers") => m.args["dependents"] = m.args["callers"]
            /\ \A a \in Arguments : WithinLimit(m, a)
       [] m.tool = "get_repository_structure" -> Given(m, "limit") => m.args["limit"] \in 0..MaxLimit
       [] m.tool = "get_change_impact" -> HasImpactRepos /\ (Given(m, "limit") => m.args["limit"] \in 0..MaxLimit)
       [] m.tool = "execute_cypher" -> Given(m, "limit") /\ m.args["limit"] > 0
       [] OTHER -> TRUE

\* The limits the graph is asked to keep; callers is the old name of dependents.
OrDefault(m, a) == IF Given(m, a) /\ m.args[a] # 0 THEN m.args[a] ELSE DefaultLimit
DependentsLimit(m) == OrDefault(m, IF Given(m, "dependents") THEN "dependents" ELSE "callers")
Asked(m) ==
  [dependents |-> IF m.tool = "get_node_context" THEN DependentsLimit(m) ELSE DefaultLimit,
   limit |-> OrDefault(m, "limit")]

\* A tool answers with a text or an error, and get_change_impact with an error when its
\* context was cancelled.
ToolCodes(m, cancelled) ==
  IF Accepted(m) /\ ~(m.tool = "get_change_impact" /\ cancelled) THEN {Result, ToolError} ELSE {ToolError}

-----------------------------------------------------------------------------
ValidVersion(m) == m.version \in {"none", "2.0"}
CallsTool(m) == m.method = "tools/call" /\ m.paramsOK /\ m.tool \in Tools

\* handleRequestContext for all that calls no tool.
Answer(m) ==
  IF ~ValidVersion(m) THEN Reply(m.id, InvalidRequest)
  ELSE CASE m.method = "initialize" -> Reply(m.id, IF m.paramsOK THEN Result ELSE InvalidParams)
         [] m.method = "notifications/initialized" -> Absent
         [] m.method = "tools/list" -> Reply(m.id, Result)
         [] m.method = "tools/call" -> Reply(m.id, IF m.paramsOK THEN NotFound ELSE InvalidParams)
         [] OTHER -> IF m.id # 0 THEN Reply(m.id, NotFound) ELSE Absent

=============================================================================
