----------------------------- MODULE MCCommands ------------------------------
(***************************************************************************)
(* Values for the commands that keep their state on disk.                  *)
(***************************************************************************)
EXTENDS DiskCommands, TLC

\* Three repositories, two of which have the same database path.
MCRepos == {"a/b", "a_b", "c"}
MCDBPath == [r \in MCRepos |-> IF r = "c" THEN "c.db" ELSE "a_b.db"]

\* Databases that are missing, empty, complete, half made by a command that was killed, or
\* a directory somebody else filled.
MCFoundDirs ==
  LET Absent == [exists |-> FALSE, entries |-> {}, graph |-> {}, meta |-> "none"]
      Files0 == {"MANIFEST", "KEYREGISTRY", "data"}
  IN  {Absent, [Absent EXCEPT !.exists = TRUE],
       [exists |-> TRUE, entries |-> Files0, graph |-> {"old"}, meta |-> "old"],
       [exists |-> TRUE, entries |-> {"LOCK", "MANIFEST"}, graph |-> {}, meta |-> "none"],
       [exists |-> TRUE, entries |-> {"other", "MANIFEST"}, graph |-> {}, meta |-> "none"]}

Symmetry == Permutations(AnalyzedRepos) \cup Permutations(Files) \cup Permutations(Versions)
=============================================================================
