---------------------------- MODULE MCAssessment -----------------------------
(* Four systems or findings in any mixture, two findings at most.  The types  *)
(* are two of one group and one of another; four definitions of a field reach *)
(* every similarity and both severities.                                      *)
EXTENDS Assessment, TLC

Groups == [varchar |-> "text", string |-> "text", int |-> "number"]

Said == {[type |-> "varchar", key |-> FALSE], [type |-> "string", key |-> TRUE],
         [type |-> "int", key |-> FALSE], [type |-> Untyped, key |-> FALSE]}

\* A canonical estimate, and one of a gap's own that the discount takes below its level.
GapEstimates == {FromLevel("CRITICAL"), [min |-> 10, max |-> 25, level |-> "HIGH"]}

Symmetry == Permutations(Names)
=============================================================================
