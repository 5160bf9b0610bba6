----------------------------- MODULE NodeContext -----------------------------
(***************************************************************************)
(* GetNodeContext (internal/graph/node_context.go): a node with all that   *)
(* surrounds it and its source, each part within a limit of the request.   *)
(* The parts come from the graph under one read lock; the source is read   *)
(* from the file after the lock is released, from lines noted when the     *)
(* file was parsed, so it may have been edited in between.                 *)
(***************************************************************************)
EXTENDS GraphReads, SequencesExt

CONSTANTS
  Lines,           \* Lines[n]: first and last line of a node, <<0, 0>> when it has none
  Requests,        \* the arguments, 0 where the caller left one out
  Parsed,          \* the content the lines were noted from
  None,            \* no request yet, or no such file
  Files,           \* contents a file may have: sequences of parts [len, end]
  Defaults, Maxima \* the NodeContextDefault... and NodeContextMax... constants

Limits == {"dependents", "dependencies", "relations", "depth", "lines", "bytes"}

ContextAssumption ==
  /\ Defaults \in [Limits -> Nat \ {0}] /\ Maxima \in [Limits -> Nat \ {0}]
  /\ Lines \in [NodeIDs -> Nat \X Nat]
  /\ \A f \in Files \ {None} : \A i \in DOMAIN f :
       /\ f[i].len \in Nat \ {0} /\ f[i].end \in {"line", "full", "eof"}
       /\ f[i].end = "eof" => i = Len(f)

VARIABLES
  options,   \* the request, normalised by the first step
  context,   \* the sections of the answer, and which of them were cut
  pc,        \* "call", "open", "read", "done", "failed"
  file,      \* what the file holds
  part,      \* how many parts of it were read
  lineNum, captured, written,  \* readNodeContextSource: lineNum, capturedLines, b.Len()
  copied,    \* the parts in the builder: [part, len]
  source     \* what it ends with: "none", "whole", "truncated", "unavailable"

reading == <<part, lineNum, captured, written, copied>>
vars == <<graph, options, context, pc, file, reading, source>>

-----------------------------------------------------------------------------
\* NormalizeNodeContextOptions: dependents also go by their old name, callers.
OrDefault(o, limit) == IF o[limit] = 0 THEN Defaults[limit] ELSE o[limit]
Normalized(o) ==
  [o EXCEPT !.limits =
     [limit \in Limits |->
        IF limit = "dependents" /\ @["dependents"] = 0 /\ o.callers # 0 THEN o.callers ELSE OrDefault(@, limit)]]

\* ValidateNodeContextOptions.
Valid(o) == \A limit \in Limits : o.limits[limit] \in 1..Maxima[limit]

-----------------------------------------------------------------------------
\* An edge and the node at its other end.
Relation(n, e, direction) ==
  [node |-> IF direction = "outbound" THEN e.to ELSE e.from, type |-> e.type, direction |-> direction]
Outbound(n) == {Relation(n, e, "outbound") : e \in {d \in graph.edges : d.from = n /\ d.to \in graph.live}}
Inbound(n)  == {Relation(n, e, "inbound") : e \in {d \in graph.edges : d.to = n /\ d.from \in graph.live}}

\* isRouteContextRelation.  Faulty variant: only the registration of a route counts.
IsRouteRegistration(n, r) == r.type = "REGISTERS_ROUTE"
IsRouteRelation(n, r) ==
  \/ r.type = "REGISTERS_ROUTE"
  \/ r.type = "REFERENCES" /\ "ROUTE" \in {TypeOf[n], TypeOf[r.node]}

Dependencies(n) == {r \in Outbound(n) : r.type \in DependencyTypes}
Children(n) == {r \in Outbound(n) : r.type = "CONTAINS"}
Parents(n)  == {r \in Inbound(n) : r.type = "CONTAINS"}
\* In the switch over the out-edges the dependencies come first, and REFERENCES is one.
Routes(n) == {r \in Outbound(n) \cup Inbound(n) :
                IsRouteRelation(n, r) /\ (r.direction = "outbound" => r.type \notin DependencyTypes)}
Interfaces(n) == {r \in Outbound(n) \cup Inbound(n) : r.type = "IMPLEMENTS"}

\* The loops of GetConcurrencyGraph again, without nodes that were removed.
Concurrency(n) == UNION {OutTurn(n, x) : x \in graph.live} \cup UNION {InTurn(n, x) : x \in graph.live}

-----------------------------------------------------------------------------
\* The queue of nodeDistancesFromInboundLocked after d rounds, without its limit: each node
\* appends in id order what depends on it and was not seen.
Dependents(seen, x) ==
  seen \o SetToSortSeq({f \in graph.live : Joined(f, x, DependencyTypes)} \ ToSet(seen), <)
Rounds(n, depth) ==
  LET Q[d \in 0..depth] ==
        IF d = 0 THEN <<n>> ELSE LET R == Q[d - 1] IN FoldLeft(Dependents, R, R)
  IN  Q

\* nodeDistancesFromInboundLocked.
DependentsCut(n, depth, max) ==
  LET Q   == Rounds(n, depth)
      all == Tail(Q[depth])
      Distance(x) == Min({d \in 0..depth : x \in ToSet(Q[d])})
  IN  [kept |-> {[node |-> x, distance |-> Distance(x)] : x \in ToSet(SubSeq(all, 1, Min({max, Len(all)})))},
       truncated |-> Len(all) > max]

\* Sections are sorted before they are cut, by numbers standing for names in alphabetical
\* order.  Relations differ in what they are sorted by; connections of several callees to
\* one channel do not, and any of them may stay.
TypeOrder == <<"CALLS", "CONTAINS", "IMPLEMENTS", "IMPORTS", "INSTANTIATES", "RECEIVES_FROM",
               "REFERENCES", "REGISTERS_ROUTE", "SENDS_TO", "SPAWNS">>
DirectionOrder == <<"inbound", "outbound", "via_call", "via_goroutine">>
Rank(name, order) == CHOOSE i \in DOMAIN order : order[i] = name
RelationKey(r) == <<r.node, Rank(r.type, TypeOrder), Rank(r.direction, DirectionOrder)>>
ConnectionKey(c) ==
  <<Rank(c.direction, DirectionOrder), IF c.direction = "inbound" THEN c.from ELSE c.to, Rank(c.type, TypeOrder)>>
Before(a, b) == \E i \in 1..3 : a[i] < b[i] /\ \A j \in 1..(i - 1) : a[j] = b[j]
SortKey(r) == IF "node" \in DOMAIN r THEN RelationKey(r) ELSE ConnectionKey(r)
Cuts(all, max) ==
  IF Cardinality(all) <= max THEN {[kept |-> all, truncated |-> FALSE]}
  ELSE {[kept |-> k, truncated |-> TRUE] :
          k \in {s \in kSubset(max, all) : \A a \in s, b \in all \ s : ~Before(SortKey(b), SortKey(a))}}

-----------------------------------------------------------------------------
Init ==
  /\ graph \in Graphs /\ file = Parsed
  /\ pc = "call" /\ options = None /\ context = None /\ source = "none"
  /\ part = 0 /\ lineNum = 1 /\ captured = 0 /\ written = 0 /\ copied = <<>>

\* A bad limit or an unknown node ends the call.
Reject(o) ==
  /\ pc = "call" /\ options' = Normalized(o)
  /\ ~Valid(options') \/ o.node \notin graph.live
  /\ pc' = "failed"
  /\ UNCHANGED <<graph, context, file, reading, source>>

\* nodeContextSnapshot: all of it under one read lock.
Snapshot(o) ==
  LET n == o.node
      L == Normalized(o).limits
  IN  /\ pc = "call" /\ Valid(Normalized(o)) /\ n \in graph.live
      /\ options' = Normalized(o)
      /\ \E concurrency \in Cuts(Concurrency(n), L["relations"]),
            dependencies \in Cuts(Dependencies(n), L["dependencies"]),
            parents \in Cuts(Parents(n), L["relations"]),
            children \in Cuts(Children(n), L["relations"]),
            routes \in Cuts(Routes(n), L["relations"]),
            interfaces \in Cuts(Interfaces(n), L["relations"]) :
           context' = [dependents |-> DependentsCut(n, L["depth"], L["dependents"]),
                       dependencies |-> dependencies, parents |-> parents, children |-> children,
                       routes |-> routes, interfaces |-> interfaces, concurrency |-> concurrency]
      /\ pc' = IF o.includeSource THEN "open" ELSE "done"
      /\ UNCHANGED <<graph, file, reading, source>>

\* Somebody edits or deletes the file while nobody holds a lock.
Edit ==
  /\ pc = "open" /\ file = Parsed
  /\ file' \in Files \ {Parsed}
  /\ UNCHANGED <<graph, options, context, pc, reading, source>>

FirstLine == Lines[options.node][1]
LastLine  == Lines[options.node][2]
Stop(verdict) == pc' = "done" /\ source' = verdict

\* A node without a place in a file, or a file that cannot be opened, is only a warning.
Open ==
  /\ pc = "open"
  /\ IF FirstLine > 0 /\ LastLine >= FirstLine /\ file # None
     THEN pc' = "read" /\ UNCHANGED source
     ELSE Stop("unavailable")
  /\ UNCHANGED <<graph, options, context, file, reading>>

\* ReadSlice: a line, as much of one as the buffer holds, or what precedes the end of the file.
InRange == lineNum >= FirstLine
Room    == options.limits["bytes"] - written
Copy(len) ==
  /\ copied' = Append(copied, [part |-> part + 1, len |-> len])
  /\ written' = written + len

\* What is copied ends the source when it fills it; a line that ends may be the last allowed.
TakePart ==
  LET p     == file[part + 1]
      ends  == p.end # "full"
  IN
  /\ pc = "read" /\ lineNum <= LastLine /\ part < Len(file)
  /\ part' = part + 1
  /\ IF InRange /\ (captured >= options.limits["lines"] \/ Room <= 0)
     THEN Stop("truncated") /\ UNCHANGED <<lineNum, captured, written, copied>>
     ELSE IF InRange /\ p.len > Room
     THEN Stop("truncated") /\ Copy(Room) /\ UNCHANGED <<lineNum, captured>>
     ELSE /\ IF InRange THEN Copy(p.len) ELSE UNCHANGED <<written, copied>>
          /\ captured' = IF InRange /\ ends THEN captured + 1 ELSE captured
          /\ IF InRange /\ ends /\ captured' >= options.limits["lines"] /\ lineNum < LastLine
             THEN Stop("truncated") /\ UNCHANGED lineNum
             ELSE lineNum' = (IF ends THEN lineNum + 1 ELSE lineNum) /\ UNCHANGED <<pc, source>>
  /\ UNCHANGED <<graph, options, context, file>>

EndRead ==
  /\ pc = "read" /\ (lineNum > LastLine \/ part = Len(file))
  /\ Stop("whole")
  /\ UNCHANGED <<graph, options, context, file, reading>>

Next ==
  \/ \E o \in Requests : Reject(o) \/ Snapshot(o)
  \/ Edit \/ Open \/ TakePart \/ EndRead

Spec == Init /\ [][Next]_vars

-----------------------------------------------------------------------------
Answered == pc \in {"open", "read", "done"}
Sections == {"dependents", "dependencies", "parents", "children", "routes", "interfaces", "concurrency"}
LimitOf(s) ==
  CASE s \in {"dependents", "dependencies"} -> options.limits[s] [] OTHER -> options.limits["relations"]

TypeOK ==
  /\ pc \in {"call", "open", "read", "done", "failed"}
  /\ source \in {"none", "whole", "truncated", "unavailable"}
  /\ Answered => /\ \A limit \in Limits : options.limits[limit] \in 1..Maxima[limit]
                 /\ \A s \in Sections : Cardinality(context[s].kept) \in 0..LimitOf(s)
  /\ part \in Nat /\ lineNum \in Nat \ {0} /\ captured \in Nat /\ written \in Nat

\* Nothing next to a node goes missing without a word: whatever a live node is joined to it
\* by is in its section, a route in that of the routes unless it is a dependency, or the
\* section it would be in says it was cut.  Only a function that starts a goroutine or
\* uses a channel is not told to that goroutine or channel.
Told(e) ==
  \/ e.type \in DependencyTypes \cup {"CONTAINS", "IMPLEMENTS", "REGISTERS_ROUTE"}
  \/ e.from = options.node \/ TypeOf[e.from] \in {"GOROUTINE", "CHANNEL"}
NothingLost ==
  Answered =>
    \A e \in graph.edges :
      LET n     == options.node
          other == IF e.from = n THEN e.to ELSE e.from
          HomeOf(s) ==
            CASE e.from = n /\ e.type \in DependencyTypes -> s = "dependencies"
              [] e.type = "CONTAINS" -> s = (IF e.from = n THEN "children" ELSE "parents")
              [] e.type = "IMPLEMENTS" -> s = "interfaces"
              [] e.type = "REGISTERS_ROUTE" -> s = "routes"
              [] e.type = "REFERENCES" /\ "ROUTE" \in {TypeOf[e.from], TypeOf[e.to]} -> s = "routes"
              [] e.type \in DependencyTypes -> s = "dependents"
              [] OTHER -> s = "concurrency"
          Tells(s, entry) ==
            IF s # "concurrency" THEN entry.node = other ELSE entry.from = e.from /\ entry.to = e.to
      IN  n \in {e.from, e.to} /\ other # n /\ other \in graph.live /\ Told(e) =>
            \E s \in Sections : HomeOf(s) /\ (context[s].truncated \/ \E x \in context[s].kept : Tells(s, x))

\* The dependents are the nearest ones at their true distances, and the answer says that it
\* was cut exactly when there are more within the depth that was asked for.
NearestDependents ==
  Answered =>
    LET depth == options.limits["depth"]
        Within[d \in 0..depth] ==
          IF d = 0 THEN {options.node}
          ELSE LET W == Within[d - 1]
               IN  W \cup {f \in graph.live : \E x \in W : \E e \in graph.edges :
                             e.from = f /\ e.to = x /\ e.type \in DependencyTypes}
        all == Within[depth] \ {options.node}
        D   == context["dependents"]
        ids == {x.node : x \in D.kept}
    IN  /\ ids \subseteq all /\ (D.truncated <=> ids # all)
        /\ \A x \in D.kept : x.node \in Within[x.distance] \ Within[x.distance - 1]
        /\ \A x \in D.kept : Within[x.distance - 1] \ {options.node} \subseteq ids

\* Where the parts of the file are: the line each belongs to.
LineOf(i) == 1 + Cardinality({j \in 1..(i - 1) : file[j].end # "full"})
Wanted == SelectSeq([i \in DOMAIN file |-> [part |-> i, len |-> file[i].len]],
                    LAMBDA p : LineOf(p.part) \in FirstLine..LastLine)
BytesOf(s) == FoldSeq(LAMBDA p, n : p.len + n, 0, s)
LinesOf(s) == Cardinality({LineOf(s[i].part) : i \in DOMAIN s})

\* The source is what the file holds at the noted lines, as much of it as the limits allow
\* and no more: whatever the length of the lines, wherever the file ends, and whether or
\* not it is still the file that was parsed.
SourceIsLongestPrefix ==
  pc = "done" /\ source \in {"whole", "truncated"} =>
    LET n == Len(copied) IN
    /\ n <= Len(Wanted) /\ \A i \in 1..n : copied[i].part = Wanted[i].part /\ copied[i].len <= Wanted[i].len
    /\ \A i \in 1..(n - 1) : copied[i].len = Wanted[i].len
    /\ BytesOf(copied) <= options.limits["bytes"] /\ LinesOf(copied) <= options.limits["lines"]
    /\ source = "whole" => copied = Wanted
    /\ source = "truncated" => \/ BytesOf(copied) = options.limits["bytes"]
                               \/ captured = options.limits["lines"]
=============================================================================
