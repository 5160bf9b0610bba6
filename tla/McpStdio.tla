------------------------------ MODULE McpStdio ------------------------------
(***************************************************************************)
(* The MCP server on standard input and output (Server.Serve in            *)
(* internal/mcp/server.go): one line, one message, one after the other.  A *)
(* signal cancels the context of the process, which the server looks at    *)
(* when it has read a line.                                                 *)
(***************************************************************************)
EXTENDS McpRequests

CONSTANT MaxSent     \* how many lines the client sends

VARIABLES
  sent, closed,      \* the lines of the client, and whether it closed its end
  taken,             \* how many of them the server has read
  out,               \* the answers written, each with the line it belongs to
  pc,                \* "scan", "handle", "call", "write", "stopped"
  response,          \* the answer on its way
  asked,             \* what the tools asked the graph: line and limits
  signalled,
  cause              \* why the server stopped

vars == <<sent, closed, taken, out, pc, response, asked, signalled, cause>>

Line == sent[taken]

Init ==
  /\ sent = <<>> /\ closed = FALSE /\ taken = 0 /\ out = <<>> /\ pc = "scan"
  /\ response = Absent /\ asked = {} /\ signalled = FALSE /\ cause = Absent

Send(m) ==
  /\ ~closed /\ Len(sent) < MaxSent
  /\ sent' = Append(sent, m)
  /\ UNCHANGED <<closed, taken, out, pc, response, asked, signalled, cause>>

Close ==
  /\ ~closed /\ closed' = TRUE
  /\ UNCHANGED <<sent, taken, out, pc, response, asked, signalled, cause>>

Signal ==
  /\ ~signalled /\ signalled' = TRUE
  /\ UNCHANGED <<sent, closed, taken, out, pc, response, asked, cause>>

Stop(why) == pc' = "stopped" /\ cause' = why /\ UNCHANGED response
\* Without an answer the next line is read.
Respond(r) ==
  /\ pc' = IF r = Absent THEN "scan" ELSE "write"
  /\ response' = r /\ UNCHANGED cause

\* The next line: it may be longer than the buffer, or come after a signal, or not be a
\* message.  Faulty variant: what is no message is skipped.
ScanSkipping ==
  /\ pc = "scan" /\ taken < Len(sent)
  /\ taken' = taken + 1
  /\ LET m == sent[taken'] IN
     CASE m.text = "oversize" -> Stop("too-long")
       [] m.text # "oversize" /\ signalled -> Stop("signal")
       [] m.text \in {"garbage", "trailing"} /\ ~signalled -> Respond(Absent)
       [] OTHER -> pc' = "handle" /\ UNCHANGED <<response, cause>>
  /\ UNCHANGED <<sent, closed, out, asked, signalled>>
Scan ==
  /\ pc = "scan" /\ taken < Len(sent)
  /\ taken' = taken + 1
  /\ LET m == sent[taken'] IN
     CASE m.text = "oversize" -> Stop("too-long")
       [] m.text # "oversize" /\ signalled -> Stop("signal")
       [] m.text \in {"garbage", "trailing"} /\ ~signalled -> Respond(Reply(0, ParseError))
       [] OTHER -> pc' = "handle" /\ UNCHANGED <<response, cause>>
  /\ UNCHANGED <<sent, closed, out, asked, signalled>>

ScanEnd ==
  /\ pc = "scan" /\ taken = Len(sent) /\ closed
  /\ Stop("end-of-input")
  /\ UNCHANGED <<sent, closed, taken, out, asked, signalled>>

\* handleRequestContext; a tool that takes its arguments goes to the graph.
Handle ==
  /\ pc = "handle"
  /\ IF ValidVersion(Line) /\ CallsTool(Line)
     THEN /\ pc' = "call" /\ UNCHANGED <<response, cause>>
          /\ asked' = IF Accepted(Line) THEN asked \cup {[line |-> taken, limits |-> Asked(Line)]} ELSE asked
     ELSE Respond(Answer(Line)) /\ UNCHANGED asked
  /\ UNCHANGED <<sent, closed, taken, out, signalled>>

ToolEnds ==
  /\ pc = "call"
  /\ \E code \in ToolCodes(Line, signalled) : Respond(Reply(Line.id, code))
  /\ UNCHANGED <<sent, closed, taken, out, asked, signalled>>

Write ==
  /\ pc = "write"
  /\ out' = Append(out, [line |-> taken, reply |-> response])
  /\ pc' = "scan" /\ response' = Absent
  /\ UNCHANGED <<sent, closed, taken, asked, signalled, cause>>

WriteFails ==
  /\ pc = "write" /\ Stop("broken-pipe")
  /\ UNCHANGED <<sent, closed, taken, out, asked, signalled>>

Server == Scan \/ ScanEnd \/ Handle \/ ToolEnds \/ Write \/ WriteFails
Next == (\E m \in Messages : Send(m)) \/ Close \/ Signal \/ Server

\* Nothing obliges a client or a signal; Server runs whenever it can.
Spec == Init /\ [][Next]_vars /\ WF_vars(Server)

-----------------------------------------------------------------------------
TypeOK ==
  /\ sent \in Seq(Messages) /\ Len(sent) <= MaxSent /\ taken \in 0..Len(sent)
  /\ pc \in {"scan", "handle", "call", "write", "stopped"}
  /\ pc = "write" => response # Absent
  /\ cause \in {Absent, "too-long", "signal", "end-of-input", "broken-pipe"}
  /\ closed \in BOOLEAN /\ signalled \in BOOLEAN

\* A client can tell answers apart by counting: of the lines the server is done with, each
\* that wants an answer has exactly one, with its id, in the order of the lines; only
\* notifications/initialized and unknown methods without an id have none.
WantsAnswer(m) ==
  m.text = "json" /\ ValidVersion(m) =>
    m.method # "notifications/initialized" /\ (m.id = 0 => m.method \in {"initialize", "tools/list", "tools/call"})
Due == IF pc \in {"handle", "call", "write"} \/ (pc = "stopped" /\ cause # "end-of-input") THEN taken - 1 ELSE taken
AnswersInOrder ==
  /\ {out[i].line : i \in DOMAIN out} = {i \in 1..Due : WantsAnswer(sent[i])}
  /\ \A i, j \in DOMAIN out : i < j => out[i].line < out[j].line
  /\ \A i \in DOMAIN out :
       LET m == sent[out[i].line] IN out[i].reply.id = IF m.text = "json" THEN m.id ELSE 0

\* No call reaches the graph without a bound that somebody chose: a limit that was given
\* is the limit used or the call is refused, and what is not given has the default; only
\* outside get_node_context is a 0 taken for the default.
LimitsHonoured ==
  \A a \in asked :
    LET m == sent[a.line] IN
    /\ a.limits.dependents \in 1..MaxLimit
    /\ m.tool = "execute_cypher" => m.args["limit"] = a.limits.limit
    /\ Given(m, "limit") => a.limits.limit = m.args["limit"] \/ (m.args["limit"] = 0 /\ m.tool # "get_node_context")
    /\ m.tool = "get_node_context" =>
         \A x \in {"dependents", "callers"} : Given(m, x) => a.limits.dependents = m.args[x]

\* The server only stops for a reason: while the client keeps its end open, writes lines
\* that fit the buffer and reads its answers, no message ends the session, whatever it
\* holds and whatever the tools answer.
StopsForCause ==
  pc = "stopped" =>
    \/ cause = "end-of-input" /\ closed /\ taken = Len(sent)
    \/ cause = "signal" /\ signalled
    \/ cause = "too-long" /\ Line.text = "oversize"
    \/ cause = "broken-pipe"

\* A line has come, and it was dealt with.
Sent(i) == Len(sent) >= i
DealtWith(i) == taken >= i \/ pc = "stopped"
=============================================================================
