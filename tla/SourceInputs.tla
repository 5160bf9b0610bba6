---------------------------- MODULE SourceInputs -----------------------------
(* The source code that is parsed: programs, channels, variants of packages. *)
EXTENDS Naturals, SequencesExt

CONSTANT NoChannel

-----------------------------------------------------------------------------
(* Functions that change a pattern and a router group, then register routes. *)
RouteStrings == {"p", "q"}
RouteGroups == {"g", "h"}
RouteUpper == [w \in {"get", "GET"} |-> "GET"]

C(v) == [op |-> "const", value |-> v]
V(x) == [op |-> "var", name |-> x]
Plus(l, r) == [op |-> "plus", left |-> l, right |-> r]
Dynamic == [op |-> "dynamic"]
Engine == [op |-> "engine"]
Group(r, p, h) == [op |-> "group", recv |-> r, path |-> p, handlers |-> h]
A == <<"/", "a">>
B == <<"/", "b", "/">>
Set(x, e) == [op |-> "assign", lhs |-> <<x>>, rhs |-> <<e>>, tok |-> "="]
SetTwo(x, y, e, f) == [op |-> "assign", lhs |-> <<x, y>>, rhs |-> <<e, f>>, tok |-> "="]
Append2(x, e) == [op |-> "assign", lhs |-> <<x>>, rhs |-> <<e>>, tok |-> "+="]
Declare(x, e) == [op |-> "decl", lhs |-> <<x>>, rhs |-> e]
If(b, e) == [op |-> "if", body |-> b, else |-> e]
For(i, p, b) == [op |-> "for", init |-> i, post |-> p, body |-> b]
Switch(b) == [op |-> "switch", body |-> b]
Lit(b, go) == [op |-> "func", body |-> b, go |-> go]
Nested(b) == [op |-> "block", body |-> b]
Reg(site, name, recv, args, h) == [op |-> "call", site |-> site, name |-> name, recv |-> recv, args |-> args, handlers |-> h]
Use(site) == Reg(site, "GET", V("g"), <<V("p")>>, <<"f">>)

Declared == <<Declare("p", <<C(A)>>), Declare("q", <<C(<<"get", " ">>)>>),
              [op |-> "assign", lhs |-> <<"g">>, rhs |-> <<Group(Engine, C(B), <<"mw">>)>>, tok |-> "="], Declare("h", <<>>)>>
Ending ==
  <<Use(1), Reg(2, "HandleFunc", Engine, <<Plus(V("q"), V("p"))>>, <<"f">>), Reg(3, "Handle", V("h"), <<V("q"), V("p")>>, <<>>),
    Reg(4, "Static", V("g"), <<V("p")>>, <<>>), Reg(5, "StaticFile", Engine, <<V("p")>>, <<>>)>>

Simple ==
  {Set("p", C(<<>>)), Set("p", Plus(V("p"), C(<<"x">>))), Set("q", Dynamic), SetTwo("p", "q", V("q"), V("p")),
   Set("g", Group(V("g"), V("p"), <<"mw2">>)), Set("h", V("g")), SetTwo("g", "h", V("h"), V("g")), Set("g", Dynamic), Set("p", C(B))}
Compound(k) ==
  {If(<<s>>, e) : s \in Simple, e \in {<<>>, <<Set("p", C(B))>>}}
  \cup {For(<<>>, p, <<Use(k), s>>) : s \in Simple, p \in {<<>>, <<Set("p", C(B))>>}}
  \cup {For(<<Set("p", C(A))>>, <<>>, <<Use(k)>>), Switch(<<<<Use(k), Set("h", V("g"))>>, <<Set("p", C(A)), Use(k + 1)>>>>), Nested(<<Use(k), Set("p", C(B))>>),
        For(<<>>, <<Set("p", C(B))>>, <<Use(k)>>), If(<<For(<<>>, <<>>, <<Set("g", Group(V("g"), C(A), <<>>))>>)>>, <<Use(k)>>),
        Lit(<<Use(k), Lit(<<Use(k + 1)>>, FALSE)>>, FALSE)}
RoutePrograms ==
  {Declared \o m \o Ending : m \in SeqOf(Simple, 3)}
  \cup {Declared \o m \o <<c>> \o Ending : c \in Compound(8), m \in SeqOf(Simple, 1)}
  \cup {Declared \o <<c>> \o m \o Ending : c \in Compound(8), m \in SeqOf(Simple, 1)}
  \cup {Declared \o <<c, d>> \o Ending : c \in Compound(8), d \in Compound(10)}
  \cup {Declared \o m \o <<Lit(<<Use(8)>>, TRUE)>> \o Ending : m \in SeqOf(Simple, 2)}

\* p += b before the registration.
AppendPrograms == {<<Declare("p", <<C(A)>>), Append2("p", C(B)), Reg(1, "HandleFunc", Engine, <<V("p")>>, <<"f">>)>>}

-----------------------------------------------------------------------------
(* Two packages, and one without functions.  main calls produce and relay of *)
(* the same package and starts the literal g; worker is in a package of its own. *)
\* Packages; functions and a goroutine; channel variables and parameters.
FlowPkgs == <<"app", "docs", "lib">>
FlowPkgOf == [f \in {"main", "produce", "relay", "g", "worker"} |-> IF f = "worker" THEN "lib" ELSE "app"]
FlowParsedWith == [p \in {"app", "docs", "lib"} |-> {p}]
FlowDeclared == {"ch", "pp", "pr", "pl", "pw", "shared"}
FlowFields == {"field"}

St(by, op, at, callee, param, chan) ==
  [by |-> by, op |-> op, at |-> at, callee |-> callee, param |-> param, chan |-> chan]
Send(f, c) == St(f, "SENDS_TO", f, f, NoChannel, c)
Receive(f, c) == St(f, "RECEIVES_FROM", f, f, NoChannel, c)
Call(f, callee, param, c) == St(f, "CALLS", f, callee, param, c)
Go(f, at, callee, param, c) == St(f, "SPAWNS", at, callee, param, c)

\* The bodies that are combined; field is reached through a value, other is an
\* expression the code does not follow.
Bodies(f) ==
  CASE f = "main" ->
         {{Call("main", "relay", "pr", "ch"), Receive("main", "ch")},
          {Call("main", "relay", "pr", "field"), Go("main", "g", "g", "pl", "ch"), Send("g", "pl")},
          {Go("main", "g", "produce", "pp", "field"), Receive("main", "field")},
          {Go("main", "g", "g", "pl", "other"), Receive("g", "pl"), Call("main", "produce", "pp", "ch")}}
    [] f = "relay" ->
         {{Call("relay", "produce", "pp", "pr")},
          {Receive("relay", "pr"), Call("relay", "produce", "pp", "pr")},
          {Call("relay", "relay", "pl", "pr"), Send("relay", "pl")}}
    [] f = "produce" -> {{}, {Send("produce", "pp")}, {Receive("produce", "pp"), Send("produce", "ch")}}
    [] f = "worker" -> {{Receive("worker", "pw")}, {Send("worker", "shared"), Send("worker", "field")}}

FlowPrograms ==
  {m \cup r \cup p \cup w : m \in Bodies("main"), r \in Bodies("relay"), p \in Bodies("produce"),
                            w \in Bodies("worker")}
\* main takes the channel from relay, or gives it to a goroutine.
TwoPrograms == {m \cup {Send("relay", "pr"), Receive("worker", "pw")} :
                  m \in {{Call("main", "relay", "pr", "ch")}, {Go("main", "relay", "relay", "pr", "field")}}}

-----------------------------------------------------------------------------
(* A module m with the packages p and q and its root; T of p is the type    *)
(* that methods mention.                                                    *)
M == <<"m">>
P == <<"m", "p">>
Q == <<"m", "q">>
PMain == <<"m", "p.test">>

Var(path, forTest, syntax, types, imports) ==
  [path |-> path, forTest |-> forTest, syntax |-> syntax, types |-> types, imports |-> imports]
Struct(name, sig) == [name |-> name, kind |-> "struct", sig |-> sig]
Interface(name, sig) == [name |-> name, kind |-> "interface", sig |-> sig]

\* p and q without tests; q may import p, and the root either or both.
PlainOf ==
  {"p" :> Var(P, <<>>, 1, {Struct("S", ps), Interface("I", pi)}, {})
     @@ "q" :> Var(Q, <<>>, 1, {Struct("S", qs), Interface("I", qi)}, qm)
     @@ "m" :> Var(M, <<>>, 1, {Struct("S", ms)}, mm)
     : ps \in {<<>>, P}, pi \in {<<>>, P}, qs \in {<<>>, P}, qi \in {<<>>, P}, ms \in {<<>>, P},
       qm \in {{}, {"p"}}, mm \in {{}, {"p"}, {"q"}, {"p", "q"}}}

Legal(of) == \A k \in DOMAIN of : \A t \in of[k].types :
               t.sig = <<>> \/ of[k].path = t.sig \/ \E i \in of[k].imports : of[i].path = t.sig

PlainLoads == {[order |-> <<"m", "p", "q">>, of |-> of] : of \in {x \in PlainOf : Legal(x)}}

\* q has tests, one in its package and one outside; nothing of the module imports q.
QTest == "q [q.test]"
QExt == "q_test [q.test]"
TestOf ==
  {"p" :> Var(P, <<>>, 1, {Struct("S", ps), Interface("I", pi)}, {})
     @@ "q" :> Var(Q, <<>>, 1, {Struct("S", qs)}, {"p"})
     @@ QTest :> Var(Q, Q, 2, {Struct("S", qs), Struct("Fake", fs)}, {"p"})
     @@ QExt :> Var(<<"m", "q_test">>, Q, 1, {Struct("S", es)}, {QTest, "p"})
     @@ "q.test" :> Var(PMain, <<>>, 1, {}, {QTest, QExt})
     : ps \in {<<>>, P}, pi \in {<<>>, P}, qs \in {<<>>, P}, fs \in {<<>>, P}, es \in {<<>>, P}}

TestLoads ==
  {[order |-> <<"p", "q", "q.test", QTest, QExt>>, of |-> of] : of \in TestOf}

VariantLoads == PlainLoads \cup TestLoads
SyntheticPaths == {PMain}
=============================================================================
