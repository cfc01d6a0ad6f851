----------------------------- MODULE MCTaskSync -----------------------------
(* Instances of TaskSync for TLC.                                           *)
EXTENDS TaskSync, TLC

Symmetry == Permutations(Clis) \cup Permutations(Texts) \cup Permutations(Assignees)
=============================================================================
