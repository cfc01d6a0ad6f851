------------------------------- MODULE Mirror -------------------------------
(***************************************************************************)
(* Five parts of rl that share no state: the relations of an issue, its    *)
(* comments, the paged lists both are read from, cascading imports, and    *)
(* the ids of the tasks. A behaviour belongs to one of them, chosen at the *)
(* start; the variables of the others keep their first values, where every *)
(* property holds.                                                         *)
(***************************************************************************)
EXTENDS Relations, Comments, Paging, Ids, Cascade

VARIABLE part

MirrorVars == <<part, vars, commentVars, pagingVars, cascadeVars, idVars>>

\* The parts that are not chosen rest in one of their initial states.
MirrorInit ==
  /\ part \in {"relations", "comments", "paging", "cascade", "ids"}
  /\ Init /\ (part # "relations" => rel = LegacyRel)
  /\ CommentsInit /\ (part # "comments" => issue = CHOOSE i \in CommentIssues : TRUE)
  /\ PagingInit /\ (part # "paging" => listed = <<>> /\ homed /\ reader.kind = "mirror")
  /\ CascadeInit /\ (part # "cascade" => home = 1..Size /\ \A n \in 2..Size : parentOf[n] = 1)
  /\ IdsInit /\ (part # "ids" => \A t \in IdTasks : homeOf[t] = "nowhere")

MirrorNext ==
  \/ part = "relations" /\ Next /\ UNCHANGED <<part, commentVars, pagingVars, cascadeVars, idVars>>
  \/ part = "comments" /\ CommentsNext /\ UNCHANGED <<part, vars, pagingVars, cascadeVars, idVars>>
  \/ part = "paging" /\ PagingNext /\ UNCHANGED <<part, vars, commentVars, cascadeVars, idVars>>
  \/ part = "cascade" /\ CascadeNext /\ UNCHANGED <<part, vars, commentVars, pagingVars, idVars>>
  \/ part = "ids" /\ IdsNext /\ UNCHANGED <<part, vars, commentVars, pagingVars, cascadeVars>>

MirrorSpec == MirrorInit /\ [][MirrorNext]_MirrorVars

-----------------------------------------------------------------------------
(* One property for each part of the state and one for its steps, from the  *)
(* properties that the modules of the parts state; a part that was not      *)
(* chosen rests in a state where its own holds.                             *)

\* No command closes a cycle, no pull drops an edge that GitHub cannot know, and a
\* written comment stays until it was posted (would_create_cycle, reconcile_family,
\* reconcile_parent, mark_comments_pushed).
MirrorSteps == CommandsKeepAcyclic /\ PullKeepsLocalOnly /\ WrittenIsKept
=============================================================================
