------------------------------- MODULE Board -------------------------------
(***************************************************************************)
(* The tasks of one workspace and the GitHub project board it is attached  *)
(* to: rl workspace set-project, the lifecycle commands that move cards,   *)
(* promotion and draft conversion, and the drainer arms that add cards,    *)
(* mint drafts, convert them and move columns. The issue axis of the same  *)
(* queue (UpdateRemote) is in TaskSync and the other fields of a card are  *)
(* in Fields. A command is one transaction and one step, but for a detach; *)
(* the drainer takes a step per remote call and per local write, so that   *)
(* commands and crashes fall between them.                                 *)
(***************************************************************************)
EXTENDS Integers, Sequences, FiniteSets, SequencesExt

CONSTANTS Tasks, Projects,
          Detached,       \* no project
          Column,         \* Column[p][open]: the mapped option of p, or "null"
          MaxAttempts,    \* failed calls before a row is dead-lettered
          MaxCommands, MaxDetaches, MaxFaults, MaxCrashes

ASSUME BoardConstants ==
  /\ Detached \notin Projects \cup Tasks
  /\ Column \in [Projects -> [BOOLEAN -> {"null", "todo", "done"}]]
  /\ MaxAttempts \in Nat \ {0}
  /\ {MaxCommands, MaxDetaches, MaxFaults, MaxCrashes} \subseteq Nat

VARIABLES
  project,    \* workspaces.project_id
  row,        \* tasks: lifecycle bit, sync state, repo, issue number (0: none), node id, item
  queue,      \* pending rows of a task, in order; the head is inflight while job is on it
  job,        \* what the drainer is doing
  scrub,      \* a detach in progress: the rows it listed and has not visited yet
  cards,      \* GitHub: item id <<board, task, n>> -> column, issue it holds (0: draft), how it began
  issues,     \* GitHub: issues filed so far
  dead,       \* tasks with a dead-lettered row
  strays,     \* tasks anchored to a board their workspace does not target
  spent       \* how much of each bound is used up

vars == <<project, row, queue, job, scrub, cards, issues, dead, strays, spent>>

NoItem == <<>>
Idle == [task |-> Detached, phase |-> "idle", item |-> NoItem, issue |-> 0]
NoScrub == [running |-> FALSE, todo |-> {}, listed |-> <<>>]
Limit == [commands |-> MaxCommands, detaches |-> MaxDetaches, faults |-> MaxFaults,
          crashes |-> MaxCrashes]
Spend(b) == spent[b] < Limit[b] /\ spent' = [spent EXCEPT ![b] = @ + 1]

Row == [open: BOOLEAN, sync: {"LocalOnly", "Staged", "Synced"}, repo: BOOLEAN, issue: Nat,
        node: BOOLEAN, item: {NoItem} \cup (Projects \X Tasks \X Nat)]
Items == Projects \X Tasks \X Nat
Mutation == [kind: {"AddItem", "CreateDraftIssue"}, board: Projects, item: {NoItem},
             option: {"null"}, issue: Nat, attempts: Nat]
            \cup [kind: {"ConvertDraftToIssue"}, board: Projects, item: Items, option: {"null"},
                  issue: {0}, attempts: Nat]
            \cup [kind: {"SetProjectStatus"}, board: Projects, item: Items, option: {"todo", "done"},
                  issue: {0}, attempts: Nat]

\* The first state has a drafted task, or one with an issue whose node id a
\* client before node ids may not have recorded.
Init ==
  /\ project \in Projects \cup {Detached}
  /\ row \in [Tasks -> {r \in [open: {TRUE}, sync: {"LocalOnly", "Synced"}, repo: {FALSE},
                               issue: 0..1, node: BOOLEAN, item: {NoItem}] :
                          /\ (r.sync = "Synced") = (r.issue = 1)
                          /\ r.node => r.issue = 1}]
  /\ queue = [t \in Tasks |-> <<>>]
  /\ job = Idle /\ scrub = NoScrub
  /\ cards = <<>> /\ issues = 1 /\ dead = {} /\ strays = {}
  /\ spent = [b \in DOMAIN Limit |-> 0]
-----------------------------------------------------------------------------
(* What a change owes the board.                                           *)

Of(kind, p, item, option, issue) ==
  [kind |-> kind, board |-> p, item |-> item, option |-> option, issue |-> issue, attempts |-> 0]

\* set_project_status_mutation, with the option of the lifecycle bit now.
SetProjectStatusMutation(p, r) ==
  IF Column[p][r.open] = "null" THEN <<>>
  ELSE <<Of("SetProjectStatus", p, r.item, Column[p][r.open], 0)>>

\* The project half of plan_mutations: move the card, or add one lazily. An
\* issue without a node id cannot be added.
PlanMutations(r, p) ==
  IF r.sync = "LocalOnly" \/ p = Detached THEN <<>>
  ELSE IF r.item # NoItem THEN SetProjectStatusMutation(p, r)
  ELSE IF r.node THEN <<Of("AddItem", p, NoItem, "null", r.issue)>>
  ELSE IF r.issue = 0 THEN <<Of("CreateDraftIssue", p, NoItem, "null", 0)>>
  ELSE <<>>
-----------------------------------------------------------------------------
(* Commands.                                                               *)

Command == Spend("commands") /\ ~scrub.running

\* rl task stage.
StageForSync(t) ==
  /\ Command
  /\ row[t].sync = "LocalOnly"
  /\ row' = [row EXCEPT ![t].sync = "Staged"]
  /\ UNCHANGED <<project, queue, job, scrub, cards, issues, dead, strays>>

\* complete, archive and reopen: the bit flips, the rows ride in the same save.
TransitionMirror(t) ==
  /\ Command
  /\ LET r == [row[t] EXCEPT !.open = ~@]
     IN /\ row' = [row EXCEPT ![t] = r]
        /\ queue' = [queue EXCEPT ![t] = @ \o PlanMutations(r, project)]
  /\ UNCHANGED <<project, job, scrub, cards, issues, dead, strays>>

\* promote files an issue with its node id and leaves the board to later edits.
Promote(t) ==
  /\ Command
  /\ row[t].sync \in {"LocalOnly", "Staged"}
  /\ issues' = issues + 1
  /\ row' = [row EXCEPT ![t].sync = "Synced", ![t].issue = issues', ![t].node = TRUE]
  /\ UNCHANGED <<project, queue, job, scrub, cards, dead, strays>>

\* A pull records the node id of an issue.
CacheRemoteNodeId(t) ==
  /\ Command
  /\ row[t].issue # 0 /\ ~row[t].node
  /\ row' = [row EXCEPT ![t].node = TRUE]
  /\ UNCHANGED <<project, queue, job, scrub, cards, issues, dead, strays>>

\* rl task edit --repo: a draft on the board that had no repo graduates.
UpdateRepo(t) ==
  /\ Command
  /\ ~row[t].repo
  /\ row' = [row EXCEPT ![t].repo = TRUE]
  /\ queue' = IF row[t].issue = 0 /\ row[t].item # NoItem
              THEN [queue EXCEPT ![t] =
                      Append(@, Of("ConvertDraftToIssue", row[t].item[1], row[t].item, "null", 0))]
              ELSE queue
  /\ UNCHANGED <<project, job, scrub, cards, issues, dead, strays>>

\* set_project(Some(p)): never from one project to another. Open tasks with an
\* issue and without an item are queued once for this board.
PendingAdd(t, p) ==
  \E i \in DOMAIN queue[t] : /\ i > 1 \/ job.task # t
                             /\ queue[t][i].kind = "AddItem" /\ queue[t][i].board = p
Backfilled(t, p) ==
  row[t].open /\ row[t].item = NoItem /\ row[t].node /\ ~PendingAdd(t, p)

SetProject(p) ==
  /\ Command
  /\ project \in {Detached, p}
  /\ project' = p
  /\ queue' = [t \in Tasks |-> IF Backfilled(t, p)
                               THEN Append(queue[t], Of("AddItem", p, NoItem, "null", row[t].issue))
                               ELSE queue[t]]
  /\ UNCHANGED <<row, job, scrub, cards, issues, dead, strays>>

\* set_project(None): the rows are listed, then each task loses its pending
\* AddItems and the anchor the list showed (the listed row is saved whole), and
\* only then the project is dropped.
DetachBegin ==
  /\ Spend("detaches") /\ ~scrub.running
  /\ scrub' = [running |-> TRUE, todo |-> Tasks, listed |-> row]
  /\ UNCHANGED <<project, row, queue, job, cards, issues, dead, strays>>

\* The j-th of a set of positions, and the rows at these positions, in order.
Nth(S, j) == CHOOSE i \in S : Cardinality({k \in S : k <= i}) = j
OnlyAt(q, S) == [j \in 1..Cardinality(S) |-> q[Nth(S, j)]]

\* delete_pending_add_items leaves an inflight row alone.
WithoutPendingAdds(t) ==
  OnlyAt(queue[t], {i \in DOMAIN queue[t] : (i = 1 /\ job.task = t) \/ queue[t][i].kind # "AddItem"})

DetachTask(t) ==
  /\ scrub.running /\ t \in scrub.todo
  /\ queue' = [queue EXCEPT ![t] = WithoutPendingAdds(t)]
  /\ IF scrub.listed[t].item # NoItem
     THEN /\ row' = [row EXCEPT ![t] = [scrub.listed[t] EXCEPT !.item = NoItem]]
          /\ strays' = strays \ {t}
     ELSE UNCHANGED <<row, strays>>
  /\ scrub' = [scrub EXCEPT !.todo = @ \ {t}]
  /\ UNCHANGED <<project, job, cards, issues, dead, spent>>

DetachEnd ==
  /\ scrub.running /\ scrub.todo = {}
  /\ project' = Detached
  /\ scrub' = NoScrub
  /\ strays' = {t \in Tasks : row[t].item # NoItem}
  /\ UNCHANGED <<row, queue, job, cards, issues, dead, spent>>
-----------------------------------------------------------------------------
(* The drainer.                                                            *)

Entry == Head(queue[job.task])
Ids == DOMAIN cards
CardOf(t, p, n) == {c \in Ids : c[1] = p /\ c[2] = t /\ cards[c].issue = n}

\* Claiming a row, with the replay guards that need no call: a draft that is
\* anchored already and an issue that is known already.
Apply(t) ==
  /\ job = Idle /\ queue[t] # <<>>
  /\ job' = CASE Head(queue[t]).kind = "CreateDraftIssue" /\ row[t].item # NoItem ->
                   [Idle EXCEPT !.task = t, !.phase = "follow", !.item = row[t].item]
              [] Head(queue[t]).kind = "ConvertDraftToIssue" /\ row[t].node ->
                   [Idle EXCEPT !.task = t, !.phase = "finish"]
              [] OTHER -> [Idle EXCEPT !.task = t, !.phase = "call"]
  /\ UNCHANGED <<project, row, queue, scrub, cards, issues, dead, strays, spent>>

\* GitHub: adding an issue twice gives the same item, a draft is a new one, an
\* item is converted once, a column exists on the item's own board.
AddItem(item) ==
  LET held == CardOf(job.task, Entry.board, Entry.issue)
  IN /\ IF held # {} THEN item \in held /\ UNCHANGED cards
        ELSE /\ item = <<Entry.board, job.task, Cardinality(Ids)>>
             /\ cards' = [c \in Ids \cup {item} |->
                            IF c \in Ids THEN cards[c]
                            ELSE [column |-> "null", issue |-> Entry.issue, minted |-> FALSE]]
     /\ UNCHANGED issues
CreateDraftIssue(item) ==
  /\ item = <<Entry.board, job.task, Cardinality(Ids)>>
  /\ cards' = [c \in Ids \cup {item} |-> IF c \in Ids THEN cards[c]
                                         ELSE [column |-> "null", issue |-> 0, minted |-> TRUE]]
  /\ UNCHANGED issues
ConvertDraftIssueItem ==
  /\ cards[Entry.item].issue = 0
  /\ issues' = issues + 1
  /\ cards' = [cards EXCEPT ![Entry.item].issue = issues']
SetSingleSelectOption ==
  /\ Entry.item[1] = Entry.board
  /\ cards' = [cards EXCEPT ![Entry.item].column = Entry.option]
  /\ UNCHANGED issues

\* What each kind sends and where it goes on.
Effect(item, number, next) ==
  \/ /\ Entry.kind = "AddItem" /\ AddItem(item)
     /\ number = 0 /\ next = "back"
  \/ /\ Entry.kind = "CreateDraftIssue" /\ CreateDraftIssue(item)
     /\ number = 0 /\ next = "back"
  \/ /\ Entry.kind = "ConvertDraftToIssue" /\ ConvertDraftIssueItem
     /\ item = Entry.item /\ number = issues' /\ next = "back"
  \/ /\ Entry.kind = "SetProjectStatus" /\ SetSingleSelectOption
     /\ item = Entry.item /\ number = 0 /\ next = "finish"

Candidates == {NoItem, Entry.item, <<Entry.board, job.task, Cardinality(Ids)>>} \cup Ids

Call ==
  /\ job.phase = "call"
  /\ \E item \in Candidates, number \in {0, issues + 1}, next \in {"back", "finish"} :
       /\ Effect(item, number, next)
       /\ job' = [job EXCEPT !.phase = next, !.item = item, !.issue = number]
  /\ UNCHANGED <<project, row, queue, scrub, dead, strays, spent>>

\* A call that errs is retried and dead-lettered in the end.
Retried ==
  /\ job' = Idle
  /\ IF Entry.attempts + 1 < MaxAttempts
     THEN queue' = [queue EXCEPT ![job.task][1].attempts = @ + 1] /\ UNCHANGED dead
     ELSE queue' = [queue EXCEPT ![job.task] = Tail(@)] /\ dead' = dead \cup {job.task}

CallFails ==
  /\ job.phase = "call"
  /\ Spend("faults")
  /\ Retried
  /\ UNCHANGED <<project, row, scrub, cards, issues, strays>>

\* The effect lands and its answer does not.
AnswerLost ==
  /\ job.phase = "call"
  /\ Spend("faults")
  /\ \E item \in Candidates, number \in {0, issues + 1}, next \in {"back", "finish"} :
       Effect(item, number, next)
  /\ Retried
  /\ UNCHANGED <<project, row, scrub, strays>>

\* GitHub refuses a second conversion and an option of another board.
Refused ==
  /\ job.phase = "call"
  /\ \/ Entry.kind = "ConvertDraftToIssue" /\ cards[Entry.item].issue # 0
     \/ Entry.kind = "SetProjectStatus" /\ Entry.item[1] # Entry.board
  /\ Retried
  /\ UNCHANGED <<project, row, scrub, cards, issues, strays, spent>>

TargetsNothing == FALSE
WorkspaceStillTargetsProject == project = Entry.board

\* The write-back of an added card is dropped when the workspace has moved on,
\* the one of a draft is not.
WriteBack ==
  /\ job.phase = "back"
  /\ CASE Entry.kind = "AddItem" /\ ~WorkspaceStillTargetsProject ->
            job' = [job EXCEPT !.phase = "finish"] /\ UNCHANGED <<row, strays>>
       [] Entry.kind = "ConvertDraftToIssue" ->
            /\ row' = [row EXCEPT ![job.task].issue = job.issue, ![job.task].node = TRUE]
            /\ job' = [job EXCEPT !.phase = "finish"]
            /\ UNCHANGED strays
       [] OTHER ->
            /\ row' = [row EXCEPT ![job.task].item = job.item]
            /\ strays' = IF WorkspaceStillTargetsProject THEN strays ELSE strays \cup {job.task}
            /\ job' = [job EXCEPT !.phase = "follow"]
  /\ UNCHANGED <<project, queue, scrub, cards, issues, dead, spent>>

\* enqueue_status_follow_up: the column of a new card, for this board only.
FollowUpNothing ==
  /\ job.phase = "follow"
  /\ job' = [job EXCEPT !.phase = "finish"]
  /\ UNCHANGED <<project, row, queue, scrub, cards, issues, dead, strays, spent>>
EnqueueStatusFollowUp ==
  /\ job.phase = "follow"
  /\ queue' = IF WorkspaceStillTargetsProject
              THEN [queue EXCEPT ![job.task] = @ \o
                      SetProjectStatusMutation(project, [row[job.task] EXCEPT !.item = job.item])]
              ELSE queue
  /\ job' = [job EXCEPT !.phase = "finish"]
  /\ UNCHANGED <<project, row, scrub, cards, issues, dead, strays, spent>>

MarkSucceeded ==
  /\ job.phase = "finish"
  /\ queue' = [queue EXCEPT ![job.task] = Tail(@)]
  /\ job' = Idle
  /\ UNCHANGED <<project, row, scrub, cards, issues, dead, strays, spent>>

\* The daemon dies; at the next start its inflight row is pending again.
Crash ==
  /\ job # Idle
  /\ Spend("crashes")
  /\ job' = Idle
  /\ UNCHANGED <<project, row, queue, scrub, cards, issues, dead, strays>>
-----------------------------------------------------------------------------
Commands == \/ \E t \in Tasks : \/ StageForSync(t) \/ TransitionMirror(t) \/ Promote(t)
                                \/ CacheRemoteNodeId(t) \/ UpdateRepo(t)
            \/ \E p \in Projects : SetProject(p)
            \/ DetachBegin
Detach == (\E t \in Tasks : DetachTask(t)) \/ DetachEnd
Drain == \/ \E t \in Tasks : Apply(t)
         \/ Call \/ Refused \/ WriteBack \/ EnqueueStatusFollowUp \/ MarkSucceeded
Faults == CallFails \/ AnswerLost \/ Crash

Next == Commands \/ Detach \/ Drain \/ Faults

Spec == Init /\ [][Next]_vars

\* The daemon drains on a timer and a command runs to its end.
FairSpec == Spec /\ WF_vars(Drain) /\ WF_vars(Detach)
-----------------------------------------------------------------------------
\* Types: the rows, the queued mutations by kind (a column move always names
\* an option and an item), the items and the columns.
TypeOK ==
  /\ project \in Projects \cup {Detached}
  /\ row \in [Tasks -> Row]
  /\ \A t \in Tasks : \A i \in DOMAIN queue[t] : queue[t][i] \in Mutation
  /\ job.task \in Tasks \cup {Detached} /\ job.item \in {NoItem} \cup Ids
  /\ \A c \in Ids : cards[c].column \in {"null", "todo", "done"} /\ cards[c].issue \in 0..issues
  /\ dead \subseteq Tasks /\ strays \subseteq Tasks

\* When nothing is queued or under way for a task, its card on the workspace's
\* board is in the column of its lifecycle bit, however commands, retries,
\* crashes and detaches fell between the adding of the card and its follow-up.
BoardFollows ==
  \A t \in Tasks \ (dead \cup strays) :
    LET r == row[t] IN
    (r.item # NoItem /\ queue[t] = <<>> /\ job.task # t /\ ~scrub.running /\ r.item[1] = project)
      => Column[project][r.open] \in {"null", cards[r.item].column}

\* A task gets one draft: another one takes a crash, a lost answer or a detach,
\* however many lifecycle changes queue a create before the first is applied.
OneDraft ==
  \A t \in Tasks :
    Cardinality({c \in Ids : c[2] = t /\ cards[c].minted})
      <= 1 + spent.crashes + spent.faults + spent.detaches

\* A task whose card is to be added gets it, unless the workspace leaves the
\* board first or a row of the task is dead-lettered.
CardIsAdded ==
  \A t \in Tasks, p \in Projects :
    (project = p /\ PendingAdd(t, p))
      ~> (row[t].item # NoItem \/ project # p \/ scrub.running \/ t \in dead)

\* Rows, queued mutations and cards are well formed, a card at rest is in the column
\* of its task, and a task gets one draft (plan_mutations, the drainer's card arms
\* and follow-up).
CardsAreSound == TypeOK /\ BoardFollows /\ OneDraft
=============================================================================
