------------------------------ MODULE MCOutbox ------------------------------
(* Instances of Outbox for TLC.                                             *)
EXTENDS Outbox, TLC

Mut(kind, payload) == [kind |-> kind, payload |-> payload]

(* One mutation of each class the code tells apart: the re-derived patch    *)
(* (may be skipped, may conflict), the attach that a detach withdraws, and  *)
(* the deduplicated type projection.                                        *)
MCMutations == {Mut("update_remote", 0), Mut("add_item", 0), Mut("set_issue_type", 1)}
MCDirty == Mut("update_remote", 0)
MCOneMutation == {MCDirty}
MCAttach == {MCDirty, Mut("add_item", 0)}
MCDelays == <<1>>
Symmetry == Permutations(Tasks) \cup Permutations(Writers)
=============================================================================
