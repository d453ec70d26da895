------------------------------ MODULE WorkQueue ------------------------------
(***************************************************************************)
(* What the ingestion queue promises: a submitted job stays available      *)
(* until somebody completes it, at most one worker has it at a time, and a *)
(* completed job is never handed out again.  TaskQueue implements it.      *)
(***************************************************************************)
EXTENDS FiniteSets

CONSTANT Job

VARIABLES todo, leased, done

vars == <<todo, leased, done>>

Init == todo = {} /\ leased = {} /\ done = {}

Submit(S) ==
  /\ S \cap (todo \cup leased \cup done) = {}
  /\ todo' = todo \cup S
  /\ UNCHANGED <<leased, done>>

Lease(j) ==
  /\ j \in todo
  /\ todo' = todo \ {j}
  /\ leased' = leased \cup {j}
  /\ UNCHANGED done

\* A worker lost its jobs: they are available again.
Return(S) ==
  /\ S \subseteq leased
  /\ todo' = todo \cup S
  /\ leased' = leased \ S
  /\ UNCHANGED done

Complete(j) ==
  /\ j \in leased
  /\ leased' = leased \ {j}
  /\ done' = done \cup {j}
  /\ UNCHANGED todo

Next ==
  \/ \E S \in SUBSET Job : Submit(S) \/ Return(S)
  \/ \E j \in Job : Lease(j) \/ Complete(j)

Spec == Init /\ [][Next]_vars
=============================================================================
