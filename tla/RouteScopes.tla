---------------------------- MODULE RouteScopes -----------------------------
(***************************************************************************)
(* HTTP routes in the body of a function (internal/parser/route.go, and    *)
(* the cases of inspectFunctionBody that feed it): a walk over the syntax  *)
(* tree carries what is known of the string and router group variables.    *)
(* A string is a sequence of pieces: names, "/" and " ".                   *)
(*                                                                         *)
(* Statements, by the field op:                                            *)
(*   assign [lhs, rhs, tok]   decl [lhs, rhs]   block [body]               *)
(*   if [body, else]   for [init, post, body]   switch [body] (of clauses) *)
(*   func [body, go]   (a function literal that is called, or started)     *)
(*   call [site, name, recv, args, handlers]   (a registration)            *)
(* Expressions: const [value], var [name], plus [left, right], engine,     *)
(*   group [recv, path, handlers], dynamic.                                *)
(***************************************************************************)
EXTENDS Naturals, SequencesExt, FiniteSetsExt, Functions

CONSTANTS
  Programs,      \* bodies: sequences of statements
  GroupVars, StringVars,
  Upper          \* strings.ToUpper where it changes a name

Vars == GroupVars \cup StringVars
Unknown == [known |-> FALSE, value |-> <<>>, handlers |-> <<>>]
Known(value, handlers) == [known |-> TRUE, value |-> value, handlers |-> handlers]

-----------------------------------------------------------------------------
\* joinGinPaths: path.Join, with the slash at the end of the relative path kept.
Clean(s) ==
  LET kept == {i \in DOMAIN s : s[i] = "/" => i < Len(s) /\ s[i + 1] # "/"}
  IN  [k \in 1..Cardinality(kept) |-> s[CHOOSE i \in kept : Cardinality({j \in kept : j <= i}) = k]]
JoinGinPaths(base, relative) ==
  IF relative = <<>> THEN IF base = <<>> THEN <<"/">> ELSE base
  ELSE LET path == Clean(<<"/">> \o base \o <<"/">> \o relative) IN
       IF path = <<>> THEN <<"/">>
       ELSE IF Last(relative) = "/" THEN Append(path, "/") ELSE path
StaticWildcard(path) == (IF path = <<"/">> THEN <<>> ELSE IF Last(path) = "/" THEN Front(path) ELSE path) \o <<"/", "*filepath">>

\* splitHTTPPattern: a first word without a slash, before another word, is the method.
Trimmed(s) ==
  LET solid == {i \in DOMAIN s : s[i] # " "} IN IF solid = {} THEN <<>> ELSE SubSeq(s, Min(solid), Max(solid))
FirstWord(s) == SubSeq(s, 1, Min({i \in 0..Len(s) : i = Len(s) \/ s[i + 1] = " "}))
Methods(word) == [i \in DOMAIN word |-> IF word[i] \in DOMAIN Upper THEN Upper[word[i]] ELSE word[i]]
SplitHTTPPattern(raw) ==
  LET s == Trimmed(raw)
      word == FirstWord(s)
  IN  IF s = <<>> THEN {}
      ELSE IF Len(word) < Len(s) /\ "/" \notin Range(word)
      THEN {[method |-> Methods(word), pattern |-> Trimmed(SubSeq(s, Len(word) + 1, Len(s)))]}
      ELSE {[method |-> <<"ANY">>, pattern |-> s]}

\* resolveStaticString and resolveGinGroupPrefix: what an expression is, given the variables.
RECURSIVE ResolveString(_, _), ResolveGroup(_, _)
ResolveString(env, e) ==
  CASE e.op = "const" -> Known(e.value, <<>>)
    [] e.op = "var" -> env[e.name]
    [] e.op = "plus" ->
         LET l == ResolveString(env, e.left)
             r == ResolveString(env, e.right)
         IN  IF l.known /\ r.known THEN Known(l.value \o r.value, <<>>) ELSE Unknown
    [] OTHER -> Unknown
ResolveGroup(env, e) ==
  CASE e.op = "var" -> env[e.name]
    [] e.op = "engine" -> Known(<<"/">>, <<>>)
    [] e.op = "group" ->
         LET base == ResolveGroup(env, e.recv)
             path == ResolveString(env, e.path)
         IN  IF base.known /\ path.known
             THEN Known(JoinGinPaths(base.value, path.value), base.handlers \o e.handlers) ELSE Unknown
    [] OTHER -> Unknown
Resolve(env, x, e) == IF x \in GroupVars THEN ResolveGroup(env, e) ELSE ResolveString(env, e)

\* What a call registers, given the variables: detectNetHTTPRoutes, detectGinRoutes.
Route(method, pattern, handlers) == [method |-> method, pattern |-> pattern, handlers |-> Range(handlers)]
HTTPRoutes(env, call) ==
  LET raw == ResolveString(env, call.args[1]) IN
  IF ~raw.known THEN {} ELSE {Route(p.method, p.pattern, call.handlers) : p \in SplitHTTPPattern(raw.value)}
GinRoutes(env, call) ==
  LET prefix == ResolveGroup(env, call.recv)
      path   == ResolveString(env, Last(call.args))
      full   == JoinGinPaths(prefix.value, path.value)
      method == Trimmed(ResolveString(env, call.args[1]).value)
  IN  IF ~prefix.known \/ ~path.known THEN {}
      ELSE CASE call.name = "Handle" ->
                  IF method = <<>> THEN {} ELSE {Route(Methods(method), full, prefix.handlers \o call.handlers)}
             [] call.name = "Static" -> {Route(<<m>>, StaticWildcard(full), prefix.handlers) : m \in {"GET", "HEAD"}}
             [] call.name = "StaticFile" -> {Route(<<m>>, full, prefix.handlers) : m \in {"GET", "HEAD"}}
             [] OTHER -> {Route(<<call.name>>, full, prefix.handlers \o call.handlers)}
Routes(env, call) == IF call.name = "HandleFunc" THEN HTTPRoutes(env, call) ELSE GinRoutes(env, call)

-----------------------------------------------------------------------------
VARIABLES
  program,
  stack,     \* the literals being walked: [todo, scope, owner]
  found      \* what was found: [site, route, owner]

vars == <<program, stack, found>>

\* routeScope: the values of the variables met so far, and those that control flow changes.
NewScope == [env |-> [x \in Vars |-> Unknown], tracked |-> {}, ambiguous |-> {}]
Top == Head(stack)
Now == Head(Top.todo)
Scope == Top.scope
\* ast.Inspect goes to the children of a node first, then on.
Go(scope, children) ==
  stack' = <<[Top EXCEPT !.todo = children \o Tail(@), !.scope = scope]>> \o Tail(stack)
At(ops) == stack # <<>> /\ Top.todo # <<>> /\ Now.op \in ops

\* All right-hand sides are resolved before a variable changes.
Bind(scope, names, exprs, kept) ==
  LET value(i) == IF names[i] \in kept \/ Len(names) # Len(exprs) THEN Unknown
                  ELSE Resolve(scope.env, names[i], exprs[i])
  IN  [scope EXCEPT !.env = [x \in Vars |-> IF \E i \in DOMAIN names : names[i] = x
                                            THEN value(CHOOSE i \in DOMAIN names : names[i] = x) ELSE @[x]],
                    !.tracked = @ \cup Range(names)]

\* The variables assigned somewhere below, function literals left out.
RECURSIVE AssignedIn(_)
AssignedIn(body) ==
  UNION {LET s == body[i] IN
         CASE s.op = "assign" -> Range(s.lhs)
           [] s.op = "block" -> AssignedIn(s.body)
           [] s.op = "if" -> AssignedIn(s.body \o s.else)
           [] s.op = "for" -> AssignedIn(s.init \o s.post \o s.body)
           [] s.op = "switch" -> AssignedIn(FlattenSeq(s.body))
           [] OTHER -> {} : i \in DOMAIN body}
\* What a branch or a loop makes ambiguous.  Faulty variant: the end of a turn is forgotten.
BranchesNoPost(s) ==
  CASE s.op = "if" -> AssignedIn(s.body \o s.else)
    [] s.op = "for" -> AssignedIn(s.body)
    [] s.op = "switch" -> AssignedIn(FlattenSeq(s.body))
Branches(s) ==
  CASE s.op = "if" -> AssignedIn(s.body \o s.else)
    [] s.op = "for" -> AssignedIn(s.body \o s.post)
    [] s.op = "switch" -> AssignedIn(FlattenSeq(s.body))
Marked(scope, s) ==
  LET changed == Branches(s) \cap scope.tracked
  IN  [scope EXCEPT !.env = [x \in Vars |-> IF x \in changed THEN Unknown ELSE @[x]], !.ambiguous = @ \cup changed]

Init ==
  /\ program \in Programs
  /\ stack = <<[todo |-> program, scope |-> NewScope, owner |-> "function"]>>
  /\ found = {}

\* A compound assignment p += e is treated as p = e.
Assign ==
  /\ At({"assign"}) /\ Go(Bind(Scope, Now.lhs, Now.rhs, Scope.ambiguous), <<>>)
  /\ UNCHANGED <<program, found>>
Decl ==
  /\ At({"decl"}) /\ Go(Bind(Scope, Now.lhs, Now.rhs, {}), <<>>)
  /\ UNCHANGED <<program, found>>

Block == At({"block"}) /\ Go(Scope, Now.body) /\ UNCHANGED <<program, found>>

\* The end of a turn of a for loop is met before its body.
Branch ==
  /\ At({"if", "for", "switch"})
  /\ Go(Marked(Scope, Now),
        CASE Now.op = "if" -> Now.body \o Now.else
          [] Now.op = "for" -> Now.init \o Now.post \o Now.body
          [] OTHER -> FlattenSeq(Now.body))
  /\ UNCHANGED <<program, found>>

\* A literal is walked at once, with a copy of the scope; a started one registers for itself.
Func ==
  /\ At({"func"})
  /\ stack' = <<[todo |-> Now.body, scope |-> Scope, owner |-> IF Now.go THEN "goroutine" ELSE Top.owner],
                [Top EXCEPT !.todo = Tail(@)]>> \o Tail(stack)
  /\ UNCHANGED <<program, found>>
Leave ==
  /\ stack # <<>> /\ Top.todo = <<>>
  /\ stack' = Tail(stack)
  /\ UNCHANGED <<program, found>>

Call ==
  /\ At({"call"}) /\ Go(Scope, <<>>)
  /\ found' = found \cup {[site |-> Now.site, route |-> r, owner |-> Top.owner] : r \in Routes(Scope.env, Now)}
  /\ UNCHANGED program

Next == Assign \/ Decl \/ Block \/ Branch \/ Func \/ Leave \/ Call
Spec == Init /\ [][Next]_vars

-----------------------------------------------------------------------------
\* Running the function: every outcome of the conditions, loops of up to two turns, started
\* literals at once or at the end.  What the walk calls unknown is some string "?".
Value(env, x, e) == LET v == Resolve(env, x, e) IN IF v.known THEN v ELSE Known(<<"?">>, <<>>)
Assigned(env, s) ==
  LET value(i) ==
        IF Len(s.lhs) # Len(s.rhs) THEN Known(<<"?">>, <<>>)
        ELSE IF s.op = "assign" /\ s.tok = "+="
        THEN Known(env[s.lhs[i]].value \o Value(env, s.lhs[i], s.rhs[i]).value, <<>>)
        ELSE Value(env, s.lhs[i], s.rhs[i])
  IN  [x \in Vars |-> IF \E i \in DOMAIN s.lhs : s.lhs[i] = x
                      THEN value(CHOOSE i \in DOMAIN s.lhs : s.lhs[i] = x) ELSE env[x]]

RECURSIVE Exec(_, _)
Run(s, st) ==
  CASE s.op \in {"assign", "decl"} -> {[st EXCEPT !.env = Assigned(@, s)]}
    [] s.op = "block" -> Exec(s.body, {st})
    [] s.op = "if" -> Exec(s.body, {st}) \cup Exec(s.else, {st})
    [] s.op = "for" ->
         LET start == Exec(s.init, {st})
             once  == Exec(s.body \o s.post, start)
         IN  start \cup once \cup Exec(s.body \o s.post, once)
    [] s.op = "switch" -> {st} \cup UNION {Exec(s.body[i], {st}) : i \in DOMAIN s.body}
    [] s.op = "func" -> Exec(s.body, {st}) \cup IF s.go THEN {[st EXCEPT !.later = @ \o s.body]} ELSE {}
    [] s.op = "call" -> {[st EXCEPT !.log = @ \cup {[site |-> s.site, routes |-> Routes(st.env, s)]}]}
Exec(body, states) == IF body = <<>> THEN states ELSE Exec(Tail(body), UNION {Run(Head(body), st) : st \in states})
Runs ==
  LET start == [env |-> [x \in Vars |-> Known(<<"?">>, <<>>)], log |-> {}, later |-> <<>>]
  IN  UNION {Exec(st.later, {st}) : st \in Exec(program, {start})}

Done == stack = <<>>

\* A route that was found is registered by its call in every run that reaches the call, with
\* these handlers: "resolved when their values remain static within the registering function.
\* Dynamic route patterns, dynamic group factories [...] are skipped".
FoundIsRegistered ==
  Done => \A f \in found : \A run \in Runs : \A l \in run.log : l.site = f.site => f.route \in l.routes

\* Without branches, loops and literals all values are static, and nothing is missed.
Straight == \A i \in DOMAIN program : program[i].op \in {"assign", "decl", "call"}
StaticIsFound ==
  Done /\ Straight => \A run \in Runs : \A l \in run.log :
    {r \in l.routes : "?" \notin Range(r.pattern) \cup Range(r.method)} \subseteq {f.route : f \in {g \in found : g.site = l.site}}
=============================================================================
