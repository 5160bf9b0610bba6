---------------------------- MODULE CypherLexer -----------------------------
(***************************************************************************)
(* Lexer.NextToken (internal/cypher/lexer.go): from the characters of a    *)
(* query to its tokens.  What skipIgnored passes over is a step of its     *)
(* own, so is each token.  Nul is the character 0, which readChar also     *)
(* gives past the end.                                                     *)
(***************************************************************************)
EXTENDS Naturals, Sequences, FiniteSetsExt

CONSTANTS
  Inputs,            \* sequences of characters
  Letters, Digits,   \* isLetter without the underscore, isDigit
  Keyword,           \* [word |-> type], the words of lookupIdent in any case
  Nul

VARIABLES
  input, at,
  tokens,    \* the tokens so far: [type, from, next]
  remarks    \* the positions taken for comments

vars == <<input, at, tokens, remarks>>

Blanks == {" ", "\t", "\n", "\r"}
LineEnds == {"\n", "\r"}
Quotes == {"\"", "'"}
Sign == [c \in {"=", "(", ")", "[", "]", ":", ".", ","} |-> c]
WordStart == Letters \cup {"_"}

\* A character is of one kind, and a keyword is a type of its own.
LexerAssumption ==
  /\ \A text \in Inputs : text \in Seq(Range(text))
  /\ (WordStart \cup Digits) \cap (Blanks \cup Quotes \cup {Nul}) = {}
  /\ Nul \notin Blanks \cup Quotes \cup DOMAIN Sign \cup {"!", "-", "<", ">"}
  /\ \A word \in DOMAIN Keyword :
       Keyword[word] \notin DOMAIN Sign \cup {"!=", "-", "->", "<-", "illegal", "string", "number", "eof"}

Char(i) == IF i <= Len(input) THEN input[i] ELSE Nul
\* The first position from i on whose character is in a set, at the latest the end.
FirstIn(S, i) == Min({j \in i..(Len(input) + 1) : j > Len(input) \/ input[j] \in S})
FirstNotIn(S, i) == Min({j \in i..(Len(input) + 1) : j > Len(input) \/ input[j] \notin S})

\* isLineCommentStart: "--" with nothing but blanks before it on its line.
LineCommentStart(i) ==
  /\ Char(i) = "-" /\ Char(i + 1) = "-"
  /\ \A j \in 1..(i - 1) : input[j] \notin Blanks => \E k \in j..(i - 1) : input[k] \in LineEnds
Ignored(i) == Char(i) \in Blanks \/ LineCommentStart(i)

\* readString, readIdentifier, readNumber and the signs: a token and where it ends.
Token(type, next) == [type |-> type, from |-> at, next |-> next]
ReadString(c) ==
  LET end == FirstIn({c, Nul}, at + 1) IN Token(IF Char(end) = c THEN "string" ELSE "illegal", end + 1)
WordTo(next) ==
  LET word == SubSeq(input, at, next - 1) IN Token(IF word \in DOMAIN Keyword THEN Keyword[word] ELSE "ident", next)
\* Faulty variant: a name is letters only.
ReadLetters == WordTo(FirstNotIn(WordStart, at))
ReadIdentifier == WordTo(FirstNotIn(WordStart \cup Digits, at))
ReadSign(second, both, alone) == IF Char(at + 1) = second THEN Token(both, at + 2) ELSE Token(alone, at + 1)

ReadToken(c) ==
  IF c \in DOMAIN Sign THEN Token(c, at + 1)
  ELSE IF c = "!" THEN ReadSign("=", "!=", "illegal")
  ELSE IF c = "-" THEN ReadSign(">", "->", "-")
  ELSE IF c = "<" THEN ReadSign("-", "<-", "illegal")
  ELSE IF c \in Quotes THEN ReadString(c)
  ELSE IF c = Nul THEN Token("eof", at + 1)
  ELSE IF c \in WordStart THEN ReadIdentifier
  ELSE IF c \in Digits THEN Token("number", FirstNotIn(Digits, at))
  ELSE Token("illegal", at + 1)

-----------------------------------------------------------------------------
Init == input \in Inputs /\ at = 1 /\ tokens = <<>> /\ remarks = {}

\* The parser asks for no token after the end.
Ended == tokens # <<>> /\ tokens[Len(tokens)].type = "eof"

SkipBlank ==
  /\ ~Ended /\ Char(at) \in Blanks
  /\ at' = FirstNotIn(Blanks, at)
  /\ UNCHANGED <<input, tokens, remarks>>
SkipComment ==
  /\ ~Ended /\ LineCommentStart(at)
  /\ at' = FirstIn(LineEnds \cup {Nul}, at)
  /\ remarks' = remarks \cup at..(at' - 1)
  /\ UNCHANGED <<input, tokens>>
NextToken ==
  /\ ~Ended /\ ~Ignored(at)
  /\ LET token == ReadToken(Char(at)) IN tokens' = Append(tokens, token) /\ at' = token.next
  /\ UNCHANGED <<input, remarks>>

Next == SkipBlank \/ SkipComment \/ NextToken
Spec == Init /\ [][Next]_vars

-----------------------------------------------------------------------------
\* The same read from left to right, a character at a time: in which string, in a comment,
\* at the start of a line ("open") or behind something on it.
ModeAfter(mode, i) ==
  LET c == input[i] IN
  IF mode \in Quotes THEN IF c \in {mode, Nul} THEN "behind" ELSE mode
  ELSE IF c \in LineEnds THEN "open"
  ELSE IF mode = "comment" \/ (mode = "open" /\ c \in Blanks) THEN mode
  ELSE IF mode = "open" /\ c = "-" /\ Char(i + 1) = "-" THEN "comment"
  ELSE IF c \in Quotes THEN c ELSE "behind"
Mode == LET m[i \in 0..Len(input)] == IF i = 0 THEN "open" ELSE ModeAfter(m[i - 1], i) IN m

Read == {t \in Range(tokens) : t.type # "eof"}
Covered(i) == \E t \in Read : i \in t.from..(t.next - 1)

\* Each character before the end is in a token, unless it is a blank between tokens or in a
\* comment line; a comment is what the line-by-line reading takes for one, so neither what
\* looks like a comment inside a string nor two dashes in the middle of a line is lost.
NothingElseIsSkipped ==
  Ended => \A i \in 1..Min({Len(input), tokens[Len(tokens)].from - 1}) :
    /\ (i \in remarks) = (Mode[i] = "comment")
    /\ ~Covered(i) => i \in remarks \/ input[i] \in Blanks
    /\ \A t \in Read : i \in t.from..(t.next - 1) => i \notin remarks

\* A token goes as far as it can: no sign, number, name or keyword is cut in two.
TokensAreWhole ==
  \A t \in Read :
    LET c == Char(t.next) IN
    /\ t.type = "number" => c \notin Digits
    /\ t.type \in {"ident"} \cup {Keyword[w] : w \in DOMAIN Keyword} => c \notin WordStart \cup Digits
    /\ ~(t.type = "-" /\ c = ">") /\ ~(t.type = "illegal" /\ Char(t.from) = "<" /\ c = "-")
=============================================================================
