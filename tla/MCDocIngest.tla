----------------------------- MODULE MCDocIngest -----------------------------
(* DocIngest on one or two parts with text, which are interchangeable, and   *)
(* at most one without.                                                      *)
EXTENDS DocIngest, TLC

Symmetry == Permutations(FullParts)
=============================================================================
