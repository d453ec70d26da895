---------------------------- MODULE MCAgentGraph ----------------------------
(* The editor with one id per operator, two for the agents.                  *)
EXTENDS AgentGraph, TLC

CONSTANTS begin, s1, a1, a2, t1, g1, i1, p1

LabelOf ==
  [n \in Ids |->
     CASE n = begin -> "Begin"
       [] n = s1 -> "Switch"
       [] n \in {a1, a2} -> "Agent"
       [] n = t1 -> "Tool"
       [] n = g1 -> "Iteration"
       [] n = i1 -> "IterationStart"
       [] n = p1 -> "Placeholder"]

OneCase == <<"Case 1">>

Symmetry == Permutations({a1, a2})
=============================================================================
