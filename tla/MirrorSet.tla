----------------------------- MODULE MirrorSet -----------------------------
(***************************************************************************)
(* The fields that cross to GitHub and back: what of a task differs from   *)
(* its baseline, the PATCH made of it, and what a fetched issue does to    *)
(* the task. A task and a baseline have title, body, life and who (a list  *)
(* of logins), an issue closed for life. A patch or an update has only the *)
(* fields that are sent. A type name is a word and how it is written.      *)
(***************************************************************************)
EXTENDS Sequences, SequencesExt

Lifecycle == {"Open", "Reopened", "Completed", "NotPlanned"}
OpenLife(life) == life \in {"Open", "Reopened"}
MirroredFields == {"title", "body", "life", "who"}

\* Logins count as a set, in lists of one length.
SameAssignees(a, b) == Len(a) = Len(b) /\ Range(a) = Range(b)
DiffersFrom(task, baseline, field) ==
  IF field = "who" THEN ~SameAssignees(task.who, baseline.who) ELSE task[field] # baseline[field]
DiffOf(task, baseline) == [f \in {g \in MirroredFields : DiffersFrom(task, baseline, g)} |-> task[f]]
FullMirrorPatch(task) == [f \in MirroredFields |-> task[f]]

\* The open bit and the reason; a fresh Open has none.
StateReason(life) ==
  CASE life = "Open" -> "none" [] life = "Reopened" -> "reopened" [] life = "Completed" -> "completed"
    [] life = "NotPlanned" -> "not_planned"
LifecycleToRemoteState(life) == [closed |-> ~OpenLife(life), reason |-> StateReason(life)]

\* Back, only a change of the bit counts: the reason is not fetched.
RemoteStateToLifecycle(closed, current) ==
  IF closed # OpenLife(current) THEN current ELSE IF closed THEN "Completed" ELSE "Reopened"

\* Nothing is sent for an empty patch; bit and reason go together.
BuildUpdateFromPatch(patch) ==
  IF DOMAIN patch = {} THEN {}
  ELSE {[f \in (DOMAIN patch \ {"life"}) \cup (IF "life" \in DOMAIN patch THEN {"closed", "reason"} ELSE {}) |->
           IF f \in {"closed", "reason"} THEN LifecycleToRemoteState(patch.life)[f] ELSE patch[f]]}

\* GitHub's answer to the PATCH.
PatchedIssue(issue, update) == [f \in DOMAIN issue |-> IF f \in DOMAIN update THEN update[f] ELSE issue[f]]

InboundMirrorsBaseline(issue, baseline) ==
  /\ issue.title = baseline.title /\ issue.body = baseline.body
  /\ SameAssignees(issue.who, baseline.who) /\ issue.closed # OpenLife(baseline.life)
CopyInboundMirrorFromSnap(task, issue) ==
  [title |-> issue.title, body |-> issue.body, who |-> issue.who,
   life |-> RemoteStateToLifecycle(issue.closed, task.life)]
SupersededInboundFields(task, issue) ==
  {f \in {"title", "body"} : task[f] # issue[f]}
    \cup (IF task.life # RemoteStateToLifecycle(issue.closed, task.life) THEN {"life"} ELSE {})
    \cup (IF SameAssignees(task.who, issue.who) THEN {} ELSE {"who"})

EnsureNotArchived(task) == task.life # "NotPlanned"
DecideFor(state, remoteDirty) ==
  CASE state \in {"DirtyRemote", "Conflict"} \/ (remoteDirty /\ state \in {"DirtyLocal", "Synced"}) -> "PullRemote"
    [] state = "Staged" \/ (state = "DirtyLocal" /\ ~remoteDirty) -> "PushLocal"
    [] OTHER -> "Noop"

\* What rl sync pull makes of the task, and which lost proposals it tells of. --force
\* takes the issue also for a task that is only ahead. An archived task is not pulled.
PullOutcome(task, baseline, state, issue, force) ==
  LET decided == DecideFor(state, ~InboundMirrorsBaseline(issue, baseline))
      pull == decided = "PullRemote" \/ (decided = "PushLocal" /\ force /\ state = "DirtyLocal")
  IN IF ~EnsureNotArchived(task) THEN {}
     ELSE IF ~pull THEN {[task |-> task, baseline |-> baseline, note |-> {}]}
     ELSE {[task |-> CopyInboundMirrorFromSnap(task, issue), baseline |-> CopyInboundMirrorFromSnap(task, issue),
            note |-> IF state \in {"DirtyLocal", "Conflict"} THEN SupersededInboundFields(task, issue) ELSE {}]}

\* A type name is read in any case, and one that is not well known kept as written.
WellKnown == {"task", "bug", "feature"}
IssueTypeFrom(name) == [custom |-> name[1] \notin WellKnown, name |-> IF name[1] \in WellKnown THEN <<name[1], "lower">> ELSE name]
IssueTypeDisplay(type) == type.name
=============================================================================
