------------------------------ MODULE McpHttp ------------------------------
(***************************************************************************)
(* The MCP server over HTTP (internal/mcp/http.go): requests are handled   *)
(* at the same time, each with a context of its own, until a signal shuts  *)
(* the server down.  ListenAndServe returns as soon as the shutdown        *)
(* begins, and the process ends with it: the requests still running are    *)
(* not waited for.                                                          *)
(***************************************************************************)
EXTENDS McpRequests

CONSTANTS Clients, Requests  \* the requests: [path, origin, verb, message]

HttpAssumption ==
  \A r \in Requests :
    /\ r.path \in {"rpc", "health", "other"} /\ r.origin \in {"none", "local", "foreign"}
    /\ r.verb \in {"POST", "GET", "OPTIONS"} /\ r.message \in Messages

VARIABLES
  server,      \* "starting", "listening", "closing" (Shutdown was called), "exited"
  signalled,
  conn         \* for each client: state, request, status, reply

vars == <<server, signalled, conn>>

States == {"idle", "sent", "running", "answered", "gone", "lost"}
Nothing == [path |-> "none"]
Idle == [state |-> "idle", request |-> Nothing, status |-> 0, reply |-> Absent]

Init == server = "starting" /\ signalled = FALSE /\ conn = [c \in Clients |-> Idle]

Listen ==
  /\ server = "starting" /\ server' \in {"listening", "exited"}
  /\ UNCHANGED <<signalled, conn>>

Ask(c, r) ==
  /\ server = "listening" /\ conn[c].state \in {"idle", "answered"}
  /\ conn' = [conn EXCEPT ![c] = [Idle EXCEPT !.state = "sent", !.request = r]]
  /\ UNCHANGED <<server, signalled>>

\* setHTTPHeaders
AllowedOrigin(r) == r.origin \in {"none", "local"}

\* What handleHTTPRPC and handleHealth settle at once: status and answer.
Settled(status, reply) == [status |-> status, reply |-> reply]
Health(r) ==
  CASE ~AllowedOrigin(r) -> Settled(403, Reply(0, InvalidRequest))
    [] AllowedOrigin(r) /\ r.verb = "OPTIONS" -> Settled(204, Absent)
    [] AllowedOrigin(r) /\ r.verb = "GET" -> Settled(200, Absent)
    [] OTHER -> Settled(405, Reply(0, InvalidRequest))

\* A second value in the body is found after the first was decoded.
Refusal(m) ==
  CASE m.text \in {"garbage", "oversize"} -> Settled(400, Reply(0, ParseError))
    [] m.text = "trailing" -> Settled(400, Reply(m.id, ParseError))
    [] OTHER -> Settled(400, Reply(m.id, InvalidRequest))
DecodedWithVersion(m) == m.text = "json" /\ m.version = "2.0"
Decoded(m) == m.text = "json" /\ ValidVersion(m)

Rpc(r) ==
  LET m == r.message IN
  CASE ~AllowedOrigin(r) -> Settled(403, Reply(0, InvalidRequest))
    [] AllowedOrigin(r) /\ r.verb = "OPTIONS" -> Settled(204, Absent)
    [] AllowedOrigin(r) /\ r.verb = "GET" -> Settled(405, Reply(0, InvalidRequest))
    [] AllowedOrigin(r) /\ r.verb = "POST" /\ ~Decoded(m) -> Refusal(m)
    [] OTHER -> IF Answer(m) # Absent THEN Settled(200, Answer(m))
                ELSE IF m.id = 0 THEN Settled(202, Absent)
                ELSE Settled(200, Reply(m.id, NotFound))

Runs(r) == r.path = "rpc" /\ AllowedOrigin(r) /\ r.verb = "POST" /\ Decoded(r.message) /\ CallsTool(r.message)
Settle(r) == CASE r.path = "rpc" -> Rpc(r) [] r.path = "health" -> Health(r) [] OTHER -> Settled(404, Absent)

Finish(c, answer) ==
  conn' = [conn EXCEPT ![c].state = "answered", ![c].status = answer.status, ![c].reply = answer.reply]

Handle(c) ==
  /\ conn[c].state = "sent" /\ server # "exited"
  /\ LET r == conn[c].request IN
     IF Runs(r) THEN conn' = [conn EXCEPT ![c].state = "running"] ELSE Finish(c, Settle(r))
  /\ UNCHANGED <<server, signalled>>

\* The context of a request is cancelled when its client goes away, and not by a signal.
ToolEnds(c) ==
  /\ conn[c].state = "running" /\ server # "exited"
  /\ \E code \in ToolCodes(conn[c].request.message, FALSE) :
       Finish(c, Settled(200, Reply(conn[c].request.message.id, code)))
  /\ UNCHANGED <<server, signalled>>

Leave(c) ==
  /\ conn[c].state \in {"sent", "running"}
  /\ conn' = [conn EXCEPT ![c].state = "gone"]
  /\ UNCHANGED <<server, signalled>>

\* WriteTimeout: an answer after two minutes is not written.
TimeOut(c) ==
  /\ conn[c].state = "running" /\ server # "exited"
  /\ conn' = [conn EXCEPT ![c].state = "gone"]
  /\ UNCHANGED <<server, signalled>>

Signal == ~signalled /\ signalled' = TRUE /\ UNCHANGED <<server, conn>>

\* The goroutine of StartHTTP calls Shutdown.  Faulty variant: it only ends with the server.
ShutdownUnheard ==
  /\ server = "exited" /\ signalled /\ server' = "closing"
  /\ UNCHANGED <<signalled, conn>>
Shutdown ==
  /\ server = "listening" /\ signalled /\ server' = "closing"
  /\ UNCHANGED <<signalled, conn>>

\* ListenAndServe returned, StartHTTP and the command return, and main with them.
Cut == [c \in Clients |-> IF conn[c].state \in {"sent", "running"} THEN [conn[c] EXCEPT !.state = "lost"] ELSE conn[c]]
Return ==
  /\ server = "closing" /\ server' = "exited"
  /\ conn' = Cut /\ UNCHANGED signalled

ServerSteps == Listen \/ Shutdown \/ Return
Next ==
  \/ ServerSteps \/ Signal
  \/ \E c \in Clients : (\E r \in Requests : Ask(c, r)) \/ Handle(c) \/ ToolEnds(c) \/ Leave(c) \/ TimeOut(c)

\* Every goroutine of the server runs when it can; time may pass, and clients may leave.
Serves(c) == Handle(c) \/ ToolEnds(c)
Spec ==
  /\ Init /\ [][Next]_vars
  /\ WF_vars(ServerSteps)
  /\ \A c \in Clients : WF_vars(Serves(c))

-----------------------------------------------------------------------------
TypeOK ==
  /\ server \in {"starting", "listening", "closing", "exited"} /\ signalled \in BOOLEAN
  /\ \A c \in Clients :
       /\ conn[c].state \in States
       /\ conn[c].state \in {"idle", "sent", "running"} <=> conn[c].status = 0 /\ conn[c].state \notin {"gone", "lost"}
       /\ conn[c].state # "idle" => conn[c].request \in Requests

\* A message means the same on both transports: an answer over HTTP is one that Serve
\* could have written for the same line, the refusal of a request apart, and only
\* notifications/initialized with an id, which Serve leaves without an answer, has one.
OverStdio(m) ==
  CASE m.text # "json" -> {Reply(0, ParseError), Reply(m.id, ParseError)}
    [] m.text = "json" /\ ValidVersion(m) /\ CallsTool(m) -> {Reply(m.id, code) : code \in ToolCodes(m, FALSE)}
    [] OTHER -> {Answer(m)}
TransportsAgree ==
  \A c \in Clients :
    LET r == conn[c].request IN
    conn[c].state = "answered" /\ r.path = "rpc" /\ r.verb = "POST" /\ AllowedOrigin(r) =>
      \/ conn[c].reply \in OverStdio(r.message)
      \/ r.message.method = "notifications/initialized" /\ conn[c].reply = Reply(r.message.id, NotFound)

\* No request is dropped by the server except by a signal: whatever the other clients do,
\* a client that stays has its answer, or the process was told to end.
LostOnlyBySignal == (server = "exited" /\ \E c \in Clients : conn[c].state = "lost") => signalled

\* A request has come, and it was answered, or its connection has ended.
Waits(c) == conn[c].state = "sent"
Over(c) == conn[c].state \in {"answered", "gone", "lost"}
=============================================================================
