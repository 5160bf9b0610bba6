----------------------------- MODULE ParseFlows -----------------------------
(***************************************************************************)
(* The extraction of the channel topology: ParseWorkspace hands the        *)
(* packages to a bounded group of workers, each extracts its package into  *)
(* a result of its own and appends it to the shared one, and only when all *)
(* are done are the channels that calls pass as arguments followed into    *)
(* the functions called.  Afterwards the watcher keeps the graph current,  *)
(* one package at a time, with ParsePackageIncremental.                    *)
(*                                                                         *)
(* A statement is a record                                                 *)
(*   by     the function or goroutine whose body holds it                  *)
(*   op     "SENDS_TO", "RECEIVES_FROM", "CALLS" or "SPAWNS"               *)
(*   at     the goroutine a go statement starts; `by' for the others       *)
(*   callee whose body runs: a function, or for a function literal the     *)
(*          node its statements are attributed to                          *)
(*   param  the channel parameter of what is called, or NoChannel          *)
(*   chan   the channel sent to, received from or passed, or NoChannel     *)
(* and a program is a set of statements.  A channel expression is a        *)
(* declared variable, the field of a value, or an expression the code does *)
(* not follow (a call, an element of a slice, a conversion).               *)
(***************************************************************************)
EXTENDS Naturals, Sequences, FiniteSets, SequencesExt

CONSTANTS PkgOrder,      \* the packages in the order packages.Load lists them
          PkgOf,         \* the package of every function and goroutine
          ParsedWith,    \* the packages in the directory a package names: itself
                         \* and its external test package
          Programs,      \* the states of the source code
          Processors,    \* GOMAXPROCS
          Declared,      \* the channel variables, identified where declared
          Fields,        \* the channels reached through a value
          MaxEdits,      \* bound: how often the source code changes
          NoChannel

VARIABLES program, started, running, result, cancelled, phase, stale, edits

vars == <<program, started, running, result, cancelled, phase, stale, edits>>

Pkgs == Range(PkgOrder)
Ops == {"SENDS_TO", "RECEIVES_FROM"}

-----------------------------------------------------------------------------
(* One package *)

\* A variable is the same node wherever it is used; what is reached through a
\* value is a node of the function that uses it, and the rest is no node.
ChannelNode(owner, c) ==
  CASE c \in Declared -> <<c>>
    [] c \in Fields -> <<owner, c>>
    [] OTHER -> <<>>

StatementsOf(code, p) == {s \in code : PkgOf[s.by] = p}

\* The edges one statement adds when the body that holds it is inspected.
EdgesOf(s) ==
  LET node == ChannelNode(s.by, s.chan)
  IN CASE s.op \in Ops /\ node # <<>> -> {<<s.by, s.op, node>>}
       [] s.op = "CALLS" /\ s.callee # s.by -> {<<s.by, "CALLS", <<s.callee>>>>}
       [] s.op = "SPAWNS" ->
            {<<s.by, "SPAWNS", <<s.at>>>>}
              \cup (IF s.callee = s.at THEN {} ELSE {<<s.at, "CALLS", <<s.callee>>>>})
       [] OTHER -> {}

\* The channel argument of a call, kept until every package is extracted.
FlowsOf(s) ==
  IF s.op \in {"CALLS", "SPAWNS"} /\ s.param # NoChannel /\ ChannelNode(s.by, s.chan) # <<>>
  THEN {[callee |-> s.callee, param |-> <<s.param>>, arg |-> ChannelNode(s.by, s.chan)]}
  ELSE {}

\* The channel nodes a statement makes; a parameter gets a node only when the
\* body uses it.
ChannelsOf(s) ==
  IF s.op \in Ops \/ FlowsOf(s) # {} THEN {ChannelNode(s.by, s.chan)} \ {<<>>} ELSE {}

Extracted(code, p) ==
  LET own == StatementsOf(code, p)
  IN [edges |-> UNION {EdgesOf(s) : s \in own},
      flows |-> UNION {FlowsOf(s) : s \in own},
      channels |-> UNION {ChannelsOf(s) : s \in own}]

FlowsFromGrowing(edges, flows) ==
  FoldLeft(LAMBDA acc, f :
             acc \cup {<<f.callee, op, f.arg>> :
                          op \in {o \in Ops : <<f.callee, o, f.param>> \in acc}},
           edges, flows)

\* Each flow is looked up in the edges observed before the first was followed:
\* a channel is followed through one call.
ResolveFlows(edges, flows) ==
  FoldLeft(LAMBDA acc, f :
             acc \cup {<<f.callee, op, f.arg>> :
                          op \in {o \in Ops : <<f.callee, o, f.param>> \in edges}},
           edges, flows)

-----------------------------------------------------------------------------
(* The workspace *)

Least(a, b) == IF a < b THEN a ELSE b

MaxPackageWorkers(pkgCount) == IF pkgCount <= 1 THEN 1 ELSE Least(Processors, pkgCount)

Init ==
  /\ program \in Programs
  /\ started = 0
  /\ running = {}
  /\ result = [edges |-> {}, flows |-> <<>>, owner |-> << >>]
  /\ cancelled = FALSE
  /\ phase = "extract"
  /\ stale = {}
  /\ edits = 0

\* Go waits for a free place in the group before it starts the next worker.
Start ==
  /\ phase \in {"extract", "failing"}
  /\ started < Len(PkgOrder)
  /\ Cardinality(running) < MaxPackageWorkers(Len(PkgOrder))
  /\ started' = started + 1
  /\ running' = running \cup {PkgOrder[started + 1]}
  /\ UNCHANGED <<program, result, cancelled, phase, stale, edits>>

\* owner: the package path each channel node carries, that of the last one added.
OwnedBy(owner, p, nodes) == [n \in DOMAIN owner \cup nodes |-> IF n \in nodes THEN p ELSE owner[n]]

Extract(p) ==
  /\ phase = "extract"
  /\ p \in running
  /\ LET local == Extracted(program, p)
     IN \E flows \in SetToSeqs(local.flows) :   \* the order of the source, which a set leaves open
          result' = [edges |-> result.edges \cup local.edges,
                     flows |-> result.flows \o flows,
                     owner |-> OwnedBy(result.owner, p, local.channels)]
  /\ running' = running \ {p}
  /\ UNCHANGED <<program, started, cancelled, phase, stale, edits>>

\* The context ends; a worker that sees it returns its error.
Cancel ==
  /\ phase = "extract"
  /\ ~cancelled
  /\ cancelled' = TRUE
  /\ UNCHANGED <<program, started, running, result, phase, stale, edits>>

Abandon(p) ==
  /\ phase = "extract"
  /\ cancelled
  /\ p \in running
  /\ running' = running \ {p}
  /\ phase' = "failing"
  /\ UNCHANGED <<program, started, result, cancelled, stale, edits>>

\* The other workers are still started and waited for.
Drain(p) ==
  /\ phase = "failing"
  /\ p \in running
  /\ running' = running \ {p}
  /\ UNCHANGED <<program, started, result, cancelled, phase, stale, edits>>

Fail ==
  /\ phase = "failing"
  /\ started = Len(PkgOrder)
  /\ running = {}
  /\ phase' = "failed"
  /\ UNCHANGED <<program, started, running, result, cancelled, stale, edits>>

Resolve ==
  /\ phase = "extract"
  /\ started = Len(PkgOrder)
  /\ running = {}
  /\ result' = [result EXCEPT !.edges = ResolveFlows(result.edges, result.flows), !.flows = <<>>]
  /\ phase' = "serving"
  /\ UNCHANGED <<program, started, running, cancelled, stale, edits>>

-----------------------------------------------------------------------------
(* The live graph *)

Edit(code) ==
  /\ phase = "serving"
  /\ edits < MaxEdits
  /\ code # program
  /\ program' = code
  /\ stale' = stale \cup {p \in Pkgs : \E q \in ParsedWith[p] :
                                       StatementsOf(code, q) # StatementsOf(program, q)}
  /\ edits' = edits + 1
  /\ UNCHANGED <<started, running, result, cancelled, phase>>

\* The directory is parsed alone, the nodes of its package are removed with the
\* edges that leave them, and all that was parsed is added.
Merged(p) ==
  /\ phase = "serving"
  /\ p \in stale
  /\ LET local == [q \in ParsedWith[p] |-> Extracted(program, q)]
         edges == UNION {local[q].edges : q \in ParsedWith[p]}
         kept == {e \in result.edges : PkgOf[e[1]] # p}
         owners == {n \in DOMAIN result.owner : result.owner[n] # p}
     IN \E flows \in SetToSeqs(UNION {local[q].flows : q \in ParsedWith[p]}) :
          result' = [edges |-> kept \cup ResolveFlows(edges, flows),
                     flows |-> <<>>,
                     owner |-> FoldSet(LAMBDA q, owner : OwnedBy(owner, q, local[q].channels),
                                       [n \in owners |-> result.owner[n]], ParsedWith[p])]
  /\ UNCHANGED <<program, started, running, cancelled, phase, edits>>

Update(p) == Merged(p) /\ stale' = stale \ {p}

Done ==
  /\ \/ phase = "failed"
     \/ phase = "serving" /\ stale = {} /\ edits = MaxEdits
  /\ UNCHANGED vars

Next ==
  \/ Start
  \/ \E p \in Pkgs : Extract(p) \/ Abandon(p) \/ Drain(p) \/ Update(p)
  \/ Cancel
  \/ Fail
  \/ Resolve
  \/ \E code \in Programs : Edit(code)
  \/ Done

\* Some worker that can run does, or the goroutine that waits for them; the debounce timer
\* brings every changed package to the watcher.
GoStep ==
  \/ Start \/ Fail \/ Resolve
  \/ \E p \in Pkgs : Extract(p) \/ Drain(p) \/ Update(p)

Spec == Init /\ [][Next]_vars /\ WF_vars(GoStep)

-----------------------------------------------------------------------------
(* What the graph must say *)

\* The types, and the bound on the packages extracted at the same time: no more
\* than the processors, however many packages there are.
TypeOK ==
  /\ program \in Programs
  /\ started \in 0 .. Len(PkgOrder)
  /\ running \subseteq Pkgs
  /\ Cardinality(running) <= Processors
  /\ phase \in {"extract", "failing", "failed", "serving"}
  /\ cancelled \in BOOLEAN
  /\ stale \subseteq Pkgs
  /\ edits \in 0 .. MaxEdits
  /\ DOMAIN result = {"edges", "flows", "owner"}
  /\ \A n \in DOMAIN result.owner : result.owner[n] \in Pkgs

\* The channel edges of a program, with every call looked at together with every
\* statement of what it calls, whichever packages they are in.
Topology(code) ==
  UNION {EdgesOf(s) : s \in code}
    \cup UNION {{<<f.callee, s.op, f.arg>> :
                    s \in {t \in code : t.op \in Ops /\ t.by = f.callee
                                        /\ ChannelNode(t.by, t.chan) = f.param}}
                 : f \in UNION {FlowsOf(t) : t \in code}}

Current == phase = "serving" /\ stale = {}

\* Once no package waits for its update, the graph holds the channel nodes and
\* the edges of the source code as it is now: nothing depends on the order in
\* which the workers ended, on the order of the flows or on the updates since.
LiveIsCurrent ==
  Current => /\ result.edges = Topology(program)
             /\ DOMAIN result.owner = UNION {ChannelsOf(s) : s \in program}

\* What a function can do to a channel when the program runs: what it does to a
\* parameter, it does to every channel passed for it, through any number of calls.
RECURSIVE Closed(_, _)
Closed(pairs, flows) ==
  LET more == pairs \cup {<<e[1], e[2], f.arg>> : <<e, f>> \in
                            {x \in pairs \X flows : x[1][3] = x[2].param}}
  IN IF more = pairs THEN pairs ELSE Closed(more, flows)

Behaviour(code) ==
  Closed({e \in UNION {EdgesOf(s) : s \in code} : e[2] \in Ops},
         UNION {FlowsOf(s) : s \in code})

\* No function is said to send to or to receive from a channel that it never
\* touches, neither itself nor through what it is called with.
EdgesAreReal ==
  Current => {e \in result.edges : e[2] \in Ops} \subseteq Behaviour(program)

\* The parse has ended with an error, or the graph has caught up with the source code.
Settled == phase = "failed" \/ Current
=============================================================================
