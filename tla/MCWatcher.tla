------------------------------ MODULE MCWatcher ------------------------------
(* Constants for model checking Watcher: a directory in a directory, a tree *)
(* that WatcherAssumption admits.                                           *)
EXTENDS Watcher

Chain ==
  [p \in {"root", "outer", "inner", "f"} |->
     CASE p = "root" -> {}
       [] p = "outer" -> {"root"}
       [] p = "inner" -> {"root", "outer"}
       [] p = "f" -> {"root", "outer", "inner"}]
=============================================================================
