------------------------------ MODULE MCServer ------------------------------
(***************************************************************************)
(* Values for the MCP server.                                              *)
(***************************************************************************)
EXTENDS McpServer

\* Two watchers: with a database each, or on one directory.
MCRepos == {"r1", "r2"}
OneEach == [r \in MCRepos |-> IF r = "r1" THEN "d1" ELSE "d2"]
SameDir == [r \in MCRepos |-> "d1"]
NoShared == {}
StubOfR1 == {<<"r1", "r2">>}

-----------------------------------------------------------------------------
\* Every method and kind of tool, with and without ids, good and bad arguments.
NoArgs == [a \in {"dependents", "callers", "limit"} |-> None]
Base == [text |-> "json", version |-> "2.0", id |-> 1, method |-> "tools/call", paramsOK |-> TRUE,
         tool |-> "get_dependencies", argsOK |-> TRUE, args |-> NoArgs]
With(tool, args) ==
  [Base EXCEPT !.tool = tool, !.args = [a \in DOMAIN NoArgs |-> IF a \in DOMAIN args THEN args[a] ELSE None]]
Methods == {"initialize", "notifications/initialized", "tools/list", "other"}
MCLines ==
  {[Base EXCEPT !.method = x, !.id = i] : x \in Methods, i \in {0, 2}}
  \cup {[Base EXCEPT !.method = "initialize", !.paramsOK = FALSE], [Base EXCEPT !.version = "1.0", !.id = 0],
        [Base EXCEPT !.paramsOK = FALSE], [Base EXCEPT !.tool = "unknown", !.version = "none"],
        [Base EXCEPT !.argsOK = FALSE], [Base EXCEPT !.id = 0],
        [Base EXCEPT !.text = "garbage"], [Base EXCEPT !.text = "oversize"]}
  \cup {With("execute_cypher", [limit |-> l]) : l \in {0, 2}}
  \cup {With("get_node_context", [dependents |-> d, callers |-> c]) : d \in {0, 2}, c \in {1, 2}}
  \cup {With("get_node_context", [callers |-> 3]), With("get_node_context", [dependents |-> 0, limit |-> 1]),
        With("get_repository_structure", [limit |-> 0]), With("get_repository_structure", [limit |-> -1]),
        With("get_change_impact", [limit |-> 1])}

\* Every kind of refusal and of answer.
MCBodies ==
  {Base, [Base EXCEPT !.tool = "get_change_impact"], [Base EXCEPT !.tool = "unknown"],
   [Base EXCEPT !.version = "none"], [Base EXCEPT !.version = "1.0"],
   [Base EXCEPT !.text = "trailing"], [Base EXCEPT !.text = "garbage"]}
  \cup {[Base EXCEPT !.method = x, !.id = i] : x \in {"notifications/initialized", "other"}, i \in {0, 2}}
Post(m) == [path |-> "rpc", origin |-> "none", verb |-> "POST", message |-> m]
MCPosts ==
  {Post(m) : m \in MCBodies}
  \cup {[Post(Base) EXCEPT !.origin = "foreign"], [Post(Base) EXCEPT !.verb = "GET"],
        [Post(Base) EXCEPT !.verb = "OPTIONS", !.origin = "local"], [Post(Base) EXCEPT !.path = "other"]}
  \cup {[Post(Base) EXCEPT !.path = "health", !.verb = v] : v \in {"GET", "POST", "OPTIONS"}}
=============================================================================
