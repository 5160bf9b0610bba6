------------------------------ MODULE McpServer ------------------------------
(***************************************************************************)
(* The MCP server: the databases of its watchers, and its requests over    *)
(* standard input or HTTP.  A behaviour is one of these parts; s1 to s9    *)
(* are the state of McpStdio or of McpHttp, and the databases rest in      *)
(* their initial state meanwhile.                                          *)
(***************************************************************************)
EXTENDS WatchStorage, Sequences

CONSTANTS
  Parts,                  \* the parts that are looked at
  HasImpactRepos, MaxLimit, DefaultLimit,
  Lines, MaxSent,         \* messages on standard input, and how many
  Clients, Bodies, Posts, \* of the server over HTTP: messages and requests
  None                    \* a register that is not in use; an argument left out

VARIABLES part, s1, s2, s3, s4, s5, s6, s7, s8, s9

Stdio == INSTANCE McpStdio WITH
  Messages <- Lines, Absent <- None,
  sent <- s1, closed <- s2, taken <- s3, out <- s4, pc <- s5, response <- s6, asked <- s7,
  signalled <- s8, cause <- s9
Http == INSTANCE McpHttp WITH
  Messages <- Bodies, Absent <- None,
  Requests <- Posts, server <- s1, signalled <- s2, conn <- s3

ASSUME RequestsAssumption ==
  Stdio!MessageAssumption /\ Http!MessageAssumption /\ Http!HttpAssumption /\ MaxSent \in Nat

Rest4 == <<s4, s5, s6, s7, s8, s9>>
Registers == <<s1, s2, s3, Rest4>>
Free4 == s4 = None /\ s5 = None /\ s6 = None /\ s7 = None /\ s8 = None /\ s9 = None

ServerInit ==
  /\ part \in Parts /\ Init
  /\ \/ part = "storage" /\ s1 = None /\ s2 = None /\ s3 = None /\ Free4
     \/ part = "stdio" /\ Stdio!Init
     \/ part = "http" /\ Http!Init /\ Free4

StdioStep(A) == part = "stdio" /\ A /\ UNCHANGED <<part, vars>>
HttpStep(A) == part = "http" /\ A /\ UNCHANGED <<part, vars, Rest4>>
ServerNext ==
  \/ part = "storage" /\ Next /\ UNCHANGED <<part, Registers>>
  \/ StdioStep(Stdio!Next)
  \/ HttpStep(Http!Next)

\* The fairness of the parts; that of the databases says nothing while they rest.
serverVars == <<part, vars, Registers>>
ServerFairness ==
  /\ Fairness
  /\ WF_serverVars(StdioStep(Stdio!Server))
  /\ WF_serverVars(HttpStep(Http!ServerSteps))
  /\ \A c \in Clients : WF_serverVars(HttpStep(Http!Serves(c)))
ServerSpec == ServerInit /\ [][ServerNext]_serverVars /\ ServerFairness

-----------------------------------------------------------------------------
\* Standard input (server.go): a client can tell answers apart by counting them, no call
\* reaches the graph without the limit that was asked for, and the session ends for a
\* reason only.
SessionIsOrderly ==
  /\ TypeOK
  /\ part = "stdio" => Stdio!TypeOK /\ Stdio!AnswersInOrder /\ Stdio!LimitsHonoured /\ Stdio!StopsForCause

\* HTTP (http.go): a message means what it means on standard input, whatever the other
\* clients do, and no request is lost except by a signal.
SameOverHttp == part = "http" => Http!TypeOK /\ Http!TransportsAgree /\ Http!LostOnlyBySignal

\* Every line is dealt with in the end, also after the client closed its end; no request
\* hangs; and a signal ends the server over HTTP without another message.
NobodyWaitsForever ==
  /\ \A i \in 1..MaxSent :
       (part = "stdio" /\ Stdio!Sent(i)) ~> (part = "stdio" /\ Stdio!DealtWith(i))
  /\ \A c \in Clients : (part = "http" /\ Http!Waits(c)) ~> (part = "http" /\ Http!Over(c))
  /\ (part = "http" /\ s2) ~> (part = "http" /\ s1 = "exited")
=============================================================================
