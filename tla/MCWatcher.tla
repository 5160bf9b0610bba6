------------------------------ MODULE MCWatcher ------------------------------
(***************************************************************************)
(* Small trees of directories for Watcher: the root with one directory, a  *)
(* chain of three, and a directory with two below it that may be moved in  *)
(* as one tree.                                                            *)
(***************************************************************************)
EXTENDS Watcher

FlatDirs == {"root", "a"}
FlatParent == [d \in FlatDirs \ {"root"} |-> "root"]
FlatSubtree == [d \in FlatDirs |-> IF d = "root" THEN FlatDirs ELSE {d}]
FlatDisks == {[d \in FlatDirs |-> 1],
              [d \in FlatDirs |-> IF d = "root" THEN 1 ELSE Absent]}

ChainDirs == {"root", "a", "a/b"}
ChainParent == [d \in ChainDirs \ {"root"} |-> IF d = "a" THEN "root" ELSE "a"]
ChainSubtree == [d \in ChainDirs |-> CASE d = "root" -> ChainDirs
                                        [] d = "a" -> {"a", "a/b"}
                                        [] OTHER -> {d}]
ChainDisks == {[d \in ChainDirs |-> IF d = "a" THEN 1 ELSE 0]}

DeepDirs == {"root", "a", "a/b", "a/c"}
DeepParent == [d \in DeepDirs \ {"root"} |-> IF d = "a" THEN "root" ELSE "a"]
DeepSubtree == [d \in DeepDirs |-> CASE d = "root" -> DeepDirs
                                      [] d = "a" -> DeepDirs \ {"root"}
                                      [] OTHER -> {d}]
DeepDisks == {[d \in DeepDirs |-> IF d = "root" THEN 0 ELSE Absent]}

ASSUME TreeAssumption == WatcherAssumption
=============================================================================
