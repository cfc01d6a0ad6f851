------------------------------ MODULE MCFiling ------------------------------
(* Instances of Filing for TLC.                                             *)
EXTENDS Filing, TLC

Symmetry == Permutations(Tasks) \cup Permutations(Repos) \cup Permutations(Texts)
=============================================================================
