----------------------------- MODULE MCTaskQueue -----------------------------
(* TaskQueue on two executors; the tasks are interchangeable, the executors   *)
(* too.                                                                      *)
EXTENDS TaskQueue, TLC

Symmetry == Permutations(Tasks) \cup Permutations(Executors)
=============================================================================
