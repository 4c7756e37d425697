------------------------------- MODULE MCTags -------------------------------
(* Tags with the bounds of its run.                                         *)
EXTENDS Tags

TagBudget ==
  [edits |-> 2, errors |-> 1, losses |-> 1, drifts |-> 1, upgrades |-> 1]
=============================================================================
