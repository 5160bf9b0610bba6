------------------------------ MODULE MCQueries -------------------------------
(* The graphs, requests, texts and Cypher queries of the query run.         *)
EXTENDS AllQueries, SequencesExt, TLC

Rel(a, b, t) == [from |-> a, to |-> b, type |-> t]

-----------------------------------------------------------------------------
(* Graphs for the two searches.  BlastRadius: every set of eight possible   *)
(* edges between four nodes, and graphs with self-loops, edges out of the   *)
(* source, to removed nodes and of another type.  CallPath: calls in every  *)
(* direction between four nodes, some of them removed while edges to them   *)
(* stay, and edges that are no calls; and five nodes with two ways of       *)
(* different length.                                                        *)
MCBlastIDs == 1..4
MCSearchEdgeTypes == {"CALLS", "CONTAINS"}

Call(p) == [from |-> p[1], to |-> p[2], type |-> "CALLS"]
Pairs == {p \in (1..4) \X (1..4) : p[1] # p[2]}
\* Node 1 is the first source; the edges out of it, which lead back to a node that is
\* settled, are left to the second family.
AllCalls == {[live |-> 1..4, edges |-> {Call(p) : p \in P}] :
               P \in SUBSET {p \in Pairs : p[1] # 1 /\ p # <<3, 4>>}}
Mixed == {[live |-> L, edges |-> {e \in E : e.from \in L}] :
            L \in {{1, 2, 3}, {1, 3}, {2, 3}},
            E \in SUBSET {Call(<<1, 1>>), Call(<<2, 1>>), Call(<<3, 2>>), Call(<<1, 3>>),
                          [from |-> 3, to |-> 1, type |-> "CONTAINS"]}}
MCBlastGraphs == AllCalls \cup Mixed

Req(s, d, m) == [sources |-> s, maxDepth |-> d, maxNodes |-> m]
MCBlastRequests ==
  {Req(s, d, m) : s \in {<<1>>, <<1, 4, 1>>}, d \in 1..3, m \in 0..2}
    \cup {Req(<<>>, 1, 0), Req(<<1>>, 0, 1)}

-----------------------------------------------------------------------------
MCPathIDs == 1..5
Edges(P, type) == {[from |-> p[1], to |-> p[2], type |-> type] : p \in P}

\* The source of interest is 1 and the target 4; two chains, a shortcut and cycles.
Calls == {<<1, 2>>, <<2, 3>>, <<3, 4>>, <<2, 4>>, <<3, 1>>, <<4, 2>>, <<1, 1>>}
Others == {<<1, 4>>, <<1, 3>>}
SmallGraphs ==
  {[live |-> L, known |-> 1..4,
    edges |-> {e \in Edges(P, "CALLS") \cup Edges(Q, "CONTAINS") : e.from \in L}] :
     L \in {1..4, {1, 2, 4}, {1, 3, 4}, {2, 3}},
     P \in SUBSET (Calls \cup {<<1, 3>>}), Q \in SUBSET Others}
TwoWays ==
  {[live |-> 1..5, known |-> 1..5, edges |-> Edges(P, "CALLS")] :
     P \in SUBSET {<<1, 2>>, <<2, 3>>, <<3, 4>>, <<1, 5>>, <<5, 4>>, <<5, 2>>, <<4, 1>>}}
MCPathGraphs == SmallGraphs \cup TwoWays

-----------------------------------------------------------------------------
(* A function, one it calls, a goroutine it starts, a function both call, a *)
(* channel, an interface and its implementation; every choice of some edges. *)
\* 1 main, 2 helper, 3 goroutine, 4 worker, 5 channel, 6 interface, 7 struct
MCScanIDs == 1..7
MCScanType == [n \in MCScanIDs |-> CASE n = 3 -> "GOROUTINE" [] n = 5 -> "CHANNEL" [] n = 6 -> "INTERFACE"
                             [] n = 7 -> "STRUCT" [] OTHER -> "FUNC"]
ScanLoose == {Rel(1, 5, "SENDS_TO"), Rel(2, 5, "RECEIVES_FROM"), Rel(4, 5, "SENDS_TO"), Rel(1, 3, "SPAWNS"), Rel(3, 4, "CALLS")}
ScanFixed == {Rel(1, 2, "CALLS"), Rel(1, 4, "CALLS"), Rel(1, 1, "CALLS"), Rel(3, 5, "RECEIVES_FROM"),
          Rel(7, 6, "IMPLEMENTS"), Rel(2, 7, "INSTANTIATES"), Rel(2, 6, "REFERENCES"), Rel(4, 2, "CALLS")}
MCScanGraphs ==
  {[live |-> MCScanIDs \ gone, edges |-> {e \in ScanFixed \cup some : e.from \notin gone}] :
     some \in SUBSET ScanLoose, gone \in {{}, {2}, {5}}}
MCScanSearches == {{}, {1, 2, 3, 4, 6, 7}, {4, 5}}

-----------------------------------------------------------------------------
(* A workspace of two repositories with a folder each of the same name,     *)
(* with cycles and shared folders in one of them; or a repository alone.    *)
\* 1 workspace, 2 and 3 repositories, 4 and 5 their root folders, 6 and 7 sub folders
\* of 4, 8 a package, 9 a file, 10 a sub folder of 5, 11 a root without repository.
MCTreeIDs == 1..11
MCTreeType == [n \in MCTreeIDs |-> CASE n = 1 -> "WORKSPACE" [] n \in {2, 3} -> "REPO"
                              [] n \in {4, 5, 6, 7, 10, 11} -> "FOLDER" [] n = 8 -> "PACKAGE" [] OTHER -> "FILE"]
MCTreeDir == [n \in MCTreeIDs |-> CASE n \in {4, 5, 11} -> "." [] n \in {6, 10} -> "a" [] n = 7 -> "b" [] OTHER -> None]
MCTreeRepo == [n \in MCTreeIDs |-> CASE n \in {2, 4, 6, 7} -> "A" [] n \in {3, 5, 10} -> "B" [] OTHER -> None]
C(a, b) == <<a, b, "CONTAINS">>
TreeLoose == {C(4, 6), C(4, 7), C(6, 7), C(6, 8), C(7, 8), C(7, 6), <<7, 9, "IMPORTS">>, C(7, 9)}
TreeFixed == {C(1, 2), C(1, 3), C(2, 4), C(3, 5), C(5, 10), C(8, 9)}
MCTreeGraphs ==
  {[live |-> (1..10) \ gone, edges |-> {e \in TreeFixed \cup E : e[1] \notin gone}] :
      E \in {TreeLoose \ F : F \in SUBSET {C(6, 7), C(6, 8), C(7, 6), C(7, 9)}}, gone \in {{}, {1}, {9}}}
  \cup {[live |-> {4, 6, 8, 11}, edges |-> {C(11, 6), C(6, 8)}]}

AskTree(root, dir, repo, d, n, p, f) ==
  [root |-> root, dir |-> dir, repo |-> repo, maxDepth |-> d, maxNodes |-> n, packages |-> p, files |-> f]
MCTreeRequests ==
  {AskTree(4, None, None, d, n, TRUE, f) : d \in {0, 1, 4}, n \in {0, 1, 3, 7}, f \in BOOLEAN}
  \cup {AskTree(0, dir, repo, 2, 0, FALSE, FALSE) : dir \in {".", "a", "b", "c"}, repo \in {None, "A", "B"}}
  \cup {AskTree(4, None, None, 5, 1, TRUE, TRUE), AskTree(4, None, None, -1, 1, TRUE, TRUE), AskTree(4, None, None, 1, 99, TRUE, TRUE)}

-----------------------------------------------------------------------------
(* A package with two functions, a route, an interface and its              *)
(* implementation, a goroutine and a channel; small limits, and a file      *)
(* edited before it is read.                                                *)
\* 1 package, 2 handler, 3 setup, 4 route, 5 interface, 6 struct, 7 goroutine, 8 channel, 9 helper
MCContextIDs == 1..9
MCContextType == <<"PACKAGE", "FUNC", "FUNC", "ROUTE", "INTERFACE", "STRUCT", "GOROUTINE", "CHANNEL", "FUNC">>
MCContextLines == <<<<0, 0>>, <<2, 3>>, <<1, 1>>, <<3, 2>>, <<1, 2>>, <<4, 4>>, <<3, 3>>, <<1, 1>>, <<2, 4>>>>
ContextFixed == {Rel(1, 2, "CONTAINS"), Rel(1, 3, "CONTAINS"), Rel(1, 4, "CONTAINS"), Rel(3, 4, "REGISTERS_ROUTE"),
          Rel(4, 2, "REFERENCES"), Rel(6, 5, "IMPLEMENTS"), Rel(3, 7, "SPAWNS"), Rel(7, 2, "CALLS"),
          Rel(2, 8, "SENDS_TO"), Rel(9, 8, "RECEIVES_FROM"), Rel(9, 9, "CALLS"), Rel(9, 5, "REFERENCES")}
ContextLoose == {Rel(3, 2, "CALLS"), Rel(2, 9, "CALLS"), Rel(9, 2, "CALLS"), Rel(7, 8, "RECEIVES_FROM"), Rel(3, 4, "REFERENCES")}
MCContextGraphs ==
  {[live |-> MCContextIDs \ gone, edges |-> {e \in ContextFixed \cup some : e.from \notin gone}] :
     some \in SUBSET ContextLoose, gone \in {{}, {9}}}

Limits == {"dependents", "dependencies", "relations", "depth", "lines", "bytes"}
MCContextDefaults == [limit \in Limits |-> IF limit = "bytes" THEN 6 ELSE 2]
MCContextMaxima == [limit \in Limits |-> IF limit = "bytes" THEN 9 ELSE 3]
AskContext(n, src, callers, l) ==
  [node |-> n, includeSource |-> src, callers |-> callers,
   limits |-> [limit \in Limits |-> IF limit \in DOMAIN l THEN l[limit] ELSE 0]]
MCContextRequests ==
  {AskContext(n, FALSE, c, [dependents |-> d, relations |-> r, depth |-> x]) :
     n \in MCContextIDs, c \in {0, 1}, d \in {0, 3}, r \in {1, 3}, x \in {1, 3}}
  \cup {AskContext(2, FALSE, c, [dependents |-> d]) : c \in {-1, 0, 4}, d \in {0, -1, 4}}
  \cup {AskContext(n, TRUE, 0, [lines |-> k, bytes |-> b]) : n \in {1, 2, 4, 9}, k \in 1..3, b \in {2, 6, 9}}

P(len, end) == [len |-> len, end |-> end]
MCContextParsed == <<P(1, "line"), P(2, "full"), P(2, "line"), P(3, "line"), P(1, "line")>>
MCContextFiles ==
  {None, <<>>, MCContextParsed, <<P(1, "line"), P(2, "line")>>, <<P(1, "line"), P(2, "eof")>>,
   <<P(2, "full"), P(2, "full"), P(1, "line"), P(2, "full"), P(2, "eof")>>,
   <<P(1, "line"), P(1, "line"), P(2, "line"), P(2, "full"), P(1, "eof")>>}
-----------------------------------------------------------------------------
(* Texts for the lexer.                                                     *)

Classes == {"a", "1", "_", "=", "!", "<", "-", ">", "'", "\"", " ", "\n", "?"}
Around == {<<"-", "-">>, <<"-", "-", ">">>, <<"-", "-", "a">>, <<"-", "-", "'">>, <<"a", "n", "d">>,
           <<"\n">>, <<"'">>, <<" ">>, <<"\"">>, <<"(">>}
MCTexts == SeqOf(Classes, 4) \cup {FlattenSeq(s) : s \in [1..4 -> Around]}
           \cup {<<"a", "n", "d">> \o s : s \in SeqOf({"a", "1", "_", " "}, 2)}
MCLetters == {"a", "n", "d"}
MCDigits == {"1"}
MCKeyword == [w \in {<<"a", "n", "d">>} |-> "and"]

-----------------------------------------------------------------------------
Node(alias, type) == [alias |-> alias, type |-> type]
Edge(alias, type, direction) == [alias |-> alias, type |-> type, direction |-> direction]
Cond(alias, property, op, value) == [alias |-> alias, property |-> property, op |-> op, value |-> value]
Item(alias, property) == [alias |-> alias, property |-> property]
Q(n1, edge, n2, where, items, limit) ==
  [n1 |-> n1, edge |-> edge, n2 |-> n2, where |-> where, items |-> items, limit |-> limit]

-----------------------------------------------------------------------------
(* Queries of every form, and the same with a token gone, replaced or swapped. *)
MCParserUpper == [l \in {"FUNC", "func", "CALLS", "CONTAINS", "contains", "n"} |->
              CASE l \in {"FUNC", "func"} -> "FUNC" [] l = "CALLS" -> "CALLS" [] l = "n" -> "N" [] OTHER -> "CONTAINS"]
LOCAL INSTANCE CypherGrammar WITH Upper <- MCParserUpper

MCParserQueries ==
  {Q(Node(a, t), None, None, <<>>, <<Item("n", "")>>, l) : a \in {"", "n"}, t \in {"", "FUNC"}, l \in {0, 7}}
  \cup {Q(Node("n", ""), Edge(r, t, d), Node("", ""), <<>>, <<Item("n", "ID"), Item("r", "")>>, 0) :
          r \in {"", "r"}, t \in {"", "CONTAINS"}, d \in {"in", "out", "any"}}
  \cup {Q(Node("n", ""), None, None, w, <<Item("n", "")>>, 7) :
          w \in {<<Cond("n", "ID", "=", "x")>>, <<Cond("n", "", "CONTAINS", "x"), Cond("n", "ID", "!=", "x")>>,
                 <<Cond("n", "ID", "=", "x"), Cond("n", "ID", "=", "x"), Cond("n", "ID", "CONTAINS", "x")>>}}

Sentences == UNION {Written(q) : q \in MCParserQueries}
Swapped(s, i) == [s EXCEPT ![i] = s[i + 1], ![i + 1] = s[i]]
OtherTokens == {T(":"), T("("), T("-"), T("->"), T("["), T(","), T("AND"), T("WHERE"), T("illegal"), T("LIMIT"),
           Word("ident", "n"), Word("CONTAINS", "contains"), Word("string", "x"), Word("number", 0), Word("number", 9)}
MCParserInputs ==
  Sentences
  \cup UNION {{RemoveAt(s, i) : i \in DOMAIN s} : s \in Sentences}
  \cup UNION {{Swapped(s, i) : i \in 1..(Len(s) - 1)} : s \in Sentences}
  \cup UNION {{[s EXCEPT ![i] = x] : i \in DOMAIN s, x \in OtherTokens} : s \in Sentences}
  \cup {Append(s, x) : s \in Sentences, x \in OtherTokens}

-----------------------------------------------------------------------------
(* Functions that call each other and themselves, a package and a removed node. *)
\* 1 package, 2 and 3 functions, 4 a node that may be removed
MCEvalIDs == 1..4
MCEvalType == <<"PACKAGE", "FUNC", "FUNC", "STRUCT">>
Value(n, name) == [name |-> name, id |-> "id" \o ToString(n), pkgpath |-> "p", filepath |-> "f",
               type |-> MCEvalType[n], repoid |-> IF n = 3 THEN "r2" ELSE "r1"]
MCEvalValue == <<Value(1, "p"), Value(2, "ab"), Value(3, "a"), Value(4, "b")>>
MCEvalContains(s, x) == s = x \/ (s = "ab" /\ x \in {"a", "b"})
Link(a, b, t) == [from |-> a, to |-> b, type |-> t]
EvalFixed == {Link(1, 2, "CONTAINS"), Link(1, 3, "CONTAINS"), Link(2, 3, "CALLS"), Link(2, 4, "REFERENCES")}
MCEvalGraphs == {[live |-> MCEvalIDs \ gone, edges |-> EvalFixed \cup some] :
               some \in SUBSET {Link(2, 2, "CALLS"), Link(3, 2, "CALLS"), Link(2, 3, "REFERENCES")}, gone \in {{}, {4}}}

Wheres == {<<>>, <<Cond("a", "name", "CONTAINS", "a")>>, <<Cond("a", "type", "!=", "FUNC")>>,
           <<Cond("a", "repoid", "=", "r1"), Cond("a", "name", "!=", "p")>>}
MCEvalQueries ==
  {Q(Node("a", t), None, None, w, <<Item("a", "name")>>, l) : t \in {None, "FUNC"}, w \in Wheres, l \in {0, 1, 3}}
  \cup {Q(Node("a", t), Edge("r", k, d), Node("b", None), w, <<Item("b", None), Item("r", "type")>>, l) :
          t \in {None, "FUNC"}, k \in {None, "CALLS"}, d \in {"out", "in", "any"},
          w \in {<<>>, <<Cond("a", "name", "CONTAINS", "a"), Cond("r", "from", "=", "id2")>>}, l \in {0, 2}}
  \cup {Q(Node("a", "FUNC"), Edge(None, "CALLS", "any"), Node(None, "FUNC"), <<Cond("a", "name", "=", "ab")>>, <<Item("a", "id")>>, 0)}
  \cup {Q(Node("a", t1), Edge(r, k, "out"), Node(b, None), <<Cond("r", p, "=", "id2")>>, <<Item("b", q)>>, 0) :
          t1 \in {None, "WIDGET"}, r \in {"r", "a", None}, k \in {None, "KNOWS"}, b \in {"b", "a"},
          p \in {"from", "name"}, q \in {None, "name", "from"}}
  \cup {Q(Node("a", None), None, None, <<>>, <<>>, 0), Q(Node("a", None), None, None, <<Cond("a", "name", "<", "b")>>, <<Item("a", None)>>, 0)}
============================================================================
