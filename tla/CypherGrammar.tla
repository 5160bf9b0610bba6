---------------------------- MODULE CypherGrammar ----------------------------
(***************************************************************************)
(* The ways to write a query down, as the reference of the language        *)
(* defines it (docs/cypher-reference.md):                                  *)
(*   MATCH pattern [WHERE conditions] RETURN items [LIMIT n]               *)
(* The parser is compared with it.  A query is a tree [n1, edge, n2,       *)
(* where, items, limit], a token [type, literal].                          *)
(***************************************************************************)
EXTENDS Naturals, SequencesExt

CONSTANTS
  Upper,     \* strings.ToUpper on the literals
  None

T(type) == [type |-> type, literal |-> type]
Word(type, literal) == [type |-> type, literal |-> literal]
Cat(S, U) == {s \o u : s \in S, u \in U}
Optional(s) == {<<>>, s}
WrittenBody(b) ==
  Cat({IF b.alias = "" THEN <<>> ELSE <<Word("ident", b.alias)>>},
      IF b.type = "" THEN {<<>>}
      ELSE {<<T(":"), Word(IF b.type = "CONTAINS" THEN "CONTAINS" ELSE "ident", l)>> :
              l \in {x \in DOMAIN Upper : Upper[x] = b.type}})
WrittenNode(n) == {<<T("(")>> \o b \o <<T(")")>> : b \in WrittenBody(n)}
WrittenEdge(e) ==
  LET left  == <<T(IF e.direction = "in" THEN "<-" ELSE "-")>>
      right == <<T(IF e.direction = "out" THEN "->" ELSE "-")>>
  IN  {left \o b \o right : b \in {<<T("[")>> \o x \o <<T("]")>> : x \in WrittenBody(e)}
                                  \cup (IF e.alias = "" /\ e.type = "" THEN {<<>>} ELSE {})}
WrittenReference(r) ==
  <<Word("ident", r.alias)>> \o IF r.property = "" THEN <<>> ELSE <<T("."), Word("ident", r.property)>>
WrittenCondition(c) ==
  {WrittenReference(c) \o <<op, Word("string", c.value)>> :
     op \in IF c.op = "CONTAINS" THEN {Word("CONTAINS", l) : l \in {x \in DOMAIN Upper : Upper[x] = "CONTAINS"}}
            ELSE {T(c.op)}}
WrittenWhere(where) ==
  IF where = <<>> THEN {<<>>}
  ELSE FoldLeft(LAMBDA done, c : Cat(Cat(done, Optional(<<T("AND")>>)), WrittenCondition(c)),
                Cat({<<T("WHERE")>>}, WrittenCondition(where[1])), Tail(where))
Written(q) ==
  LET pattern == IF q.edge = None THEN WrittenNode(q.n1)
                 ELSE Cat(Cat(WrittenNode(q.n1), WrittenEdge(q.edge)), WrittenNode(q.n2))
      items   == FlattenSeq([i \in 1..(2 * Len(q.items) - 1) |->
                               IF i % 2 = 1 THEN WrittenReference(q.items[(i + 1) \div 2]) ELSE <<T(",")>>])
      limit   == IF q.limit = 0 THEN <<>> ELSE <<T("LIMIT"), Word("number", q.limit)>>
  IN  Cat(Cat({<<T("MATCH")>> \o p : p \in pattern}, WrittenWhere(q.where)), {<<T("RETURN")>> \o items \o limit})
=============================================================================
