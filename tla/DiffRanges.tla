----------------------------- MODULE DiffRanges -----------------------------
(***************************************************************************)
(* ParseDiff (internal/impact/impact.go): from the lines `git diff         *)
(* --unified=0` prints to changed files with the line ranges that the      *)
(* graph is asked for.  The parser sees one line after the other and keeps *)
(* the file it is in.  A line is what its prefix makes of it; the content  *)
(* of changed lines is passed over, unless it looks like a header.         *)
(***************************************************************************)
EXTENDS Integers, Sequences, FiniteSets, SequencesExt

CONSTANTS
  Paths,
  Diffs        \* sequences of changes, see Changes

NoPath == "/dev/null"

\* A change of one file: its old and new path, whether the header line can be parsed,
\* the hunks, and what some changed line of the hunks looks like.
Kinds == {"M", "A", "D", "R"}
IsHunk(h) == h.start \in Nat /\ h.count \in Nat /\ h.looks \in {"text", "minus", "plus"}
IsChange(c) ==
  /\ c.kind \in Kinds /\ c.old \in Paths /\ c.new \in Paths /\ c.parses \in BOOLEAN
  /\ c.kind # "R" => c.old = c.new
  /\ \A i \in DOMAIN c.hunks : IsHunk(c.hunks[i])
  /\ c.kind = "D" => \A i \in DOMAIN c.hunks : c.hunks[i].start = 0 /\ c.hunks[i].count = 0

DiffAssumption == \A d \in Diffs : \A i \in DOMAIN d : IsChange(d[i])

VARIABLES
  diff,      \* what changed
  lines,     \* what git prints of it
  at,        \* lines read
  current,   \* the file the parser is in, or NoFile
  files,     \* the files it is done with
  done

vars == <<diff, lines, at, current, files, done>>

-----------------------------------------------------------------------------
(* git diff.                                                               *)

Line(kind, path) == [kind |-> kind, path |-> path, start |-> 0, count |-> 0]
HunkLine(h) == [kind |-> "hunk", path |-> "", start |-> h.start, count |-> h.count]

\* A hunk and its content: of the changed lines the one that matters.
HunkLines(h, path) ==
  <<HunkLine(h)>> \o (IF h.looks = "text" THEN <<Line("text", "")>> ELSE <<Line(h.looks, "content")>>)

ChangeLines(c) ==
  <<Line("diff", IF c.parses THEN c.new ELSE "")>>
  \o (CASE c.kind = "A" -> <<Line("new", "")>>
        [] c.kind = "D" -> <<Line("deleted", "")>>
        [] c.kind = "R" -> <<Line("rename from", c.old), Line("rename to", c.new)>>
        [] OTHER -> <<>>)
  \o (IF c.hunks = <<>> THEN <<>>
      ELSE <<Line("minus", IF c.kind = "A" THEN NoPath ELSE c.old),
             Line("plus", IF c.kind = "D" THEN NoPath ELSE c.new)>>)
  \o FlattenSeq([i \in DOMAIN c.hunks |-> HunkLines(c.hunks[i], c.new)])

DiffLines(d) == FlattenSeq([i \in DOMAIN d |-> ChangeLines(d[i])])

-----------------------------------------------------------------------------
(* The parser.                                                             *)

NoFile == [path |-> "", status |-> "none", whole |-> FALSE, ranges |-> <<>>]

Init ==
  /\ diff \in Diffs /\ lines = DiffLines(diff)
  /\ at = 0 /\ current = NoFile /\ files = <<>> /\ done = FALSE

\* flush: a file without ranges counts as a whole.
Closed(f) == [f EXCEPT !.whole = @ \/ f.ranges = <<>>]
Flushed == IF current = NoFile THEN files ELSE Append(files, Closed(current))

\* parseHunkRange: a hunk that only deletes stands at the line before.
HunkRange(start, count) == [start |-> start, end |-> IF count <= 0 THEN start ELSE start + count - 1]

\* parseDiffLine.
NamesFile(l) ==
  \/ l.kind = "plus" /\ l.path # NoPath
  \/ l.kind = "minus" /\ current.path = "" /\ l.path # NoPath
  \/ l.kind = "rename to"

After(l) ==
  [current EXCEPT
     !.path = IF NamesFile(l) THEN l.path ELSE @,
     !.status = CASE l.kind = "new" -> "A" [] l.kind = "deleted" -> "D"
                  [] l.kind \in {"rename from", "rename to"} -> "R" [] OTHER -> @,
     !.whole = @ \/ l.kind = "deleted",
     !.ranges = IF l.kind = "hunk" THEN Append(@, HunkRange(l.start, l.count)) ELSE @]

FileLine ==
  /\ at < Len(lines) /\ lines[at + 1].kind = "diff"
  /\ files' = Flushed
  /\ current' = [NoFile EXCEPT !.path = lines[at + 1].path, !.status = "M"]
  /\ at' = at + 1
  /\ UNCHANGED <<diff, lines, done>>

OtherLine ==
  /\ at < Len(lines) /\ lines[at + 1].kind # "diff"
  /\ current' = IF current = NoFile THEN current ELSE After(lines[at + 1])
  /\ at' = at + 1
  /\ UNCHANGED <<diff, lines, files, done>>

EndOfDiff ==
  /\ at = Len(lines) /\ ~done
  /\ files' = Flushed /\ current' = NoFile /\ done' = TRUE
  /\ UNCHANGED <<diff, lines, at>>

Next == FileLine \/ OtherLine \/ EndOfDiff

Spec == Init /\ [][Next]_vars

-----------------------------------------------------------------------------
(* graphRangesForChangedFile and nodeOverlapsFileRange.                    *)

\* Faulty variant: the last line of a range is left out.
OverlapsBelow(r, d) == r.start > 0 /\ r.end > 0 /\ d.first < r.end /\ d.last >= r.start
Overlaps(r, d) == r.start > 0 /\ r.end > 0 /\ d.first <= r.end /\ d.last >= r.start
Touches(f, d) == f.whole \/ \E i \in DOMAIN f.ranges : Overlaps(f.ranges[i], d)

-----------------------------------------------------------------------------
LineBound == 6
Declarations == {d \in [first : 1..LineBound, last : 1..LineBound] : d.first <= d.last}

TypeOK ==
  /\ diff \in Diffs /\ at \in 0..Len(lines) /\ done \in BOOLEAN
  /\ \A i \in DOMAIN files :
       /\ files[i].status \in Kinds
       /\ \A j \in DOMAIN files[i].ranges :
            files[i].ranges[j].start \in Nat /\ files[i].ranges[j].end >= files[i].ranges[j].start

\* Every changed file is reported once, in the order of the diff, with its new path (the
\* old one if it was deleted) and what happened to it.
FilesAreThoseOfDiff ==
  done => /\ Len(files) = Len(diff)
          /\ \A i \in DOMAIN diff : files[i].path = diff[i].new /\ files[i].status = diff[i].kind

\* A declaration of the new file is touched if a hunk adds one of its lines, or deletes
\* between two of its lines, and in a file without hunks always; a declaration no hunk
\* is next to is not.
Inside(h, d) ==
  IF h.count = 0 THEN d.first <= h.start /\ h.start < d.last
  ELSE d.first <= h.start + h.count - 1 /\ h.start <= d.last
NextTo(h, d) == d.first <= h.start + h.count /\ h.start <= d.last
TouchedDeclarations ==
  done => \A i \in DOMAIN diff : \A d \in Declarations :
    LET hunks == {diff[i].hunks[j] : j \in DOMAIN diff[i].hunks}
    IN  /\ hunks = {} \/ (\E h \in hunks : Inside(h, d)) => Touches(files[i], d)
        /\ diff[i].kind # "D" /\ hunks # {} /\ Touches(files[i], d) => \E h \in hunks : NextTo(h, d)
=============================================================================
