---------------------------- MODULE CypherParser ----------------------------
(***************************************************************************)
(* Parser.ParseQuery (internal/cypher/parser.go): recursive descent over   *)
(* the tokens of a query.  A parsing function that fails is the empty set, *)
(* one that succeeds the set of its result, which tells where it stopped;  *)
(* an action is a turn of ParseQuery or of its loops.                      *)
(***************************************************************************)
EXTENDS CypherGrammar

CONSTANTS
  Inputs,    \* sequences of tokens [type, literal]; the literal of a number is a number
  MaxInt,    \* the largest LIMIT strconv.Atoi accepts
  Queries    \* trees, to compare the results with

VARIABLES
  tokens, at, pc,
  tree       \* [n1, edge, n2, where, items, limit]; limit 0 is none

vars == <<tokens, at, pc, tree>>

Is(i, type) == i <= Len(tokens) /\ tokens[i].type = type
IsOneOf(i, types) == \E type \in types : Is(i, type)

-----------------------------------------------------------------------------
\* parseNodePattern and parseEdgePatternBody: [alias][:type] between brackets.
Body(i, open, close, types) ==
  LET colon == IF Is(i + 1, "ident") THEN i + 2 ELSE i + 1
      end   == IF Is(colon, ":") THEN colon + 2 ELSE colon
  IN  IF /\ Is(i, open) /\ Is(end, close)
         /\ Is(colon, ":") => IsOneOf(colon + 1, types)
      THEN {[alias |-> IF Is(i + 1, "ident") THEN tokens[i + 1].literal ELSE "",
             type |-> IF Is(colon, ":") THEN Upper[tokens[colon + 1].literal] ELSE "",
             next |-> end + 1]}
      ELSE {}
NodePattern(i) == Body(i, "(", ")", {"ident"})
\* An edge type may be the keyword CONTAINS.
EdgeTypes == {"ident", "CONTAINS"}
EdgeBody(i) ==
  IF Is(i, "[") THEN Body(i, "[", "]", EdgeTypes) ELSE {[alias |-> "", type |-> "", next |-> i]}

\* The direction that the signs on both sides of the body give.
Direction(i, j) ==
  CASE Is(i, "<-") /\ Is(j, "-") -> {"in"}
    [] Is(i, "-") /\ Is(j, "->") -> {"out"}
    [] Is(i, "-") /\ Is(j, "-") -> {"any"}
    [] OTHER -> {}
EdgePattern(i) ==
  UNION {{[alias |-> b.alias, type |-> b.type, direction |-> d, next |-> b.next + 1] :
            d \in Direction(i, b.next)} : b \in EdgeBody(i + 1)}

\* alias[.property], shared by parseCondition and parseReturn.
Reference(i) ==
  LET dotted == Is(i + 1, ".")
  IN  IF Is(i, "ident") /\ (dotted => Is(i + 2, "ident"))
      THEN {[alias |-> tokens[i].literal, property |-> IF dotted THEN tokens[i + 2].literal ELSE "",
             next |-> IF dotted THEN i + 3 ELSE i + 1]}
      ELSE {}
Condition(i) ==
  {[alias |-> r.alias, property |-> r.property, op |-> tokens[r.next].type,
    value |-> tokens[r.next + 1].literal, next |-> r.next + 2] :
      r \in {x \in Reference(i) : IsOneOf(x.next, {"=", "!=", "CONTAINS"}) /\ Is(x.next + 1, "string")}}
Limit(i) ==
  IF Is(i, "number") /\ tokens[i].literal \in 1..MaxInt
  THEN {[value |-> tokens[i].literal, next |-> i + 1]} ELSE {}

Node(n) == [alias |-> n.alias, type |-> n.type]
-----------------------------------------------------------------------------
Init ==
  /\ tokens \in Inputs /\ at = 1 /\ pc = "match"
  /\ tree = [n1 |-> None, edge |-> None, n2 |-> None, where |-> <<>>, items |-> <<>>, limit |-> 0]

\* From one place to the next with the result of a parsing function, or failure.
Fail == pc' = "failed" /\ UNCHANGED <<tokens, at, tree>>
Goto(place, next) == pc' = place /\ at' = next /\ UNCHANGED tokens

ParseMatch ==
  /\ pc = "match"
  /\ LET found == IF Is(at, "MATCH") THEN NodePattern(at + 1) ELSE {}
     IN  \/ found = {} /\ Fail
         \/ \E n \in found : tree' = [tree EXCEPT !.n1 = Node(n)] /\ Goto("edge", n.next)

\* The signs, the body and the second node, when a sign follows the first node.
AfterPattern(i) == IF Is(i, "WHERE") THEN Goto("where", i + 1) ELSE Goto("return", i)
ParseEdge ==
  /\ pc = "edge"
  /\ LET found == UNION {{e} \X NodePattern(e.next) : e \in EdgePattern(at)}
     IN  IF ~IsOneOf(at, {"-", "<-"}) THEN UNCHANGED tree /\ AfterPattern(at)
         ELSE \/ found = {} /\ Fail
              \/ \E p \in found :
                   /\ tree' = [tree EXCEPT !.edge = [alias |-> p[1].alias, type |-> p[1].type,
                                                    direction |-> p[1].direction],
                                           !.n2 = Node(p[2])]
                   /\ AfterPattern(p[2].next)

\* A turn of parseWhere: the AND before another condition may be left out.
AfterCondition(i) ==
  CASE Is(i, "AND") -> Goto("where", i + 1) [] Is(i, "ident") -> Goto("where", i) [] OTHER -> Goto("return", i)
ParseCondition ==
  /\ pc = "where"
  /\ \/ Condition(at) = {} /\ Fail
     \/ \E c \in Condition(at) :
          /\ tree' = [tree EXCEPT !.where = Append(@, [alias |-> c.alias, property |-> c.property,
                                                       op |-> c.op, value |-> c.value])]
          /\ AfterCondition(c.next)

\* A turn of parseReturn, the first one after the keyword.
ParseItem ==
  /\ pc \in {"return", "item"}
  /\ LET found == IF pc = "item" THEN Reference(at) ELSE IF Is(at, "RETURN") THEN Reference(at + 1) ELSE {}
     IN  \/ found = {} /\ Fail
         \/ \E r \in found :
              /\ tree' = [tree EXCEPT !.items = Append(@, [alias |-> r.alias, property |-> r.property])]
              /\ IF Is(r.next, ",") THEN Goto("item", r.next + 1) ELSE Goto("limit", r.next)

ParseLimit ==
  /\ pc = "limit"
  /\ IF ~Is(at, "LIMIT") THEN UNCHANGED tree /\ Goto("end", at)
     ELSE \/ Limit(at + 1) = {} /\ Fail
          \/ \E l \in Limit(at + 1) : tree' = [tree EXCEPT !.limit = l.value] /\ Goto("end", l.next)

\* Faulty variant: what follows the query is ignored.
EndAnywhere == pc = "end" /\ UNCHANGED tree /\ Goto("accepted", at)
End ==
  /\ pc = "end"
  /\ IF at = Len(tokens) + 1 THEN UNCHANGED tree /\ Goto("accepted", at) ELSE Fail

Next == ParseMatch \/ ParseEdge \/ ParseCondition \/ ParseItem \/ ParseLimit \/ End
Spec == Init /\ [][Next]_vars

-----------------------------------------------------------------------------
\* What is accepted is a query of the documented language, whole, and the tree says what was
\* written: "trailing tokens return errors instead of silently widening the result set".
AcceptedIsWritten == pc = "accepted" => tokens \in Written(tree)

\* No way of writing a query is refused: any case of the types, CONTAINS as an operator and
\* as an edge type, empty brackets or none, AND written or left out.
WrittenIsAccepted == pc = "failed" => \A q \in Queries : tokens \notin Written(q)
=============================================================================
