------------------------------ MODULE TaskSync ------------------------------
(***************************************************************************)
(* One mirrored task and its GitHub issue: the sync state machine of the    *)
(* Task aggregate, and every operation that moves it, taken apart at the    *)
(* points where the code awaits the network or another process may write.   *)
(*                                                                          *)
(* A process reads the task into a copy, works on the copy and writes the   *)
(* whole row back (write_task_in_tx has no version check).  task.base is    *)
(* the latest baseline-eligible snapshot; a save from such a source stores  *)
(* the live content as the new baseline.  UpdateRemote rows carry nothing   *)
(* that is read at apply time, so the task's outbox is their number.        *)
(***************************************************************************)
EXTENDS Integers, FiniteSets

CONSTANTS
  Clis,            \* rl processes
  Texts,           \* values of title and body, which are always treated alike
  Assignees,       \* sets of assignees
  Overlap,         \* may operations on the task overlap in time?
  DropsAssignees,  \* may GitHub ignore the assignees of a PATCH?
  MaxAttempts,     \* BackoffSchedule::max_attempts
  MaxCommands,     \* bound: rl commands
  MaxRemoteEdits,  \* bound: edits made on GitHub
  MaxRebaselines,  \* bound: saves with a baseline source that align nothing
  MaxRollbacks,    \* bound: rollbacks
  MaxFaults        \* bound: failed calls and daemon restarts

Drainer == "drainer"
Poller  == "poller"
Procs   == Clis \cup {Drainer, Poller}

ASSUME TaskSyncAssumption ==
  /\ Overlap \in BOOLEAN /\ DropsAssignees \in BOOLEAN
  /\ MaxAttempts \in Nat \ {0}
  /\ {MaxCommands, MaxRemoteEdits, MaxRebaselines, MaxRollbacks, MaxFaults} \subseteq Nat
  /\ Texts # {} /\ Assignees # {}
  /\ Drainer \notin Clis /\ Poller \notin Clis

Lifecycle  == {"open", "reopened", "completed", "not_planned"}
SyncStates == {"synced", "dirty_local", "dirty_remote", "conflict"}
Fields     == {"text", "status", "assignees"}
Content    == [text : Texts, status : Lifecycle, assignees : Assignees]
Issues     == [text : Texts, state : {"open", "closed"}, assignees : Assignees]
Tasks      == [sync : SyncStates, live : Content, base : Content]

(* A process is at rest, works on its copy of the task, or compares the     *)
(* copy with what it fetched.                                               *)
Rest     == [pc |-> "idle"]
Working  == {"edit", "push", "force_push", "sent", "sent_all", "pull", "force_pull", "relations",
             "repair", "rollback", "drain", "mark"}
Fetching == {"fetched", "force_fetched", "poll"}
Process  == {Rest} \cup [pc : Working, copy : Tasks] \cup [pc : Fetching, copy : Tasks, page : Issues]

VARIABLES
  task,    \* the row of tasks, with its baseline
  issue,   \* the GitHub issue
  queue,   \* open UpdateRemote rows
  tries,   \* attempts of the row at the head
  dead,    \* dead-lettered UpdateRemote rows
  proc,    \* what each process is doing, with its copy of the task
  history, \* the snapshots a rollback can name
  spent,   \* how much of each bound is used
  held,    \* history: the values the issue ever had, by field
  marked   \* history: "yes" from a drift mark on a task without rows until it is resolved

vars == <<task, issue, queue, tries, dead, proc, history, spent, held, marked>>

-----------------------------------------------------------------------------
(* Pure rules of the aggregate and of the sync layer.                       *)

(* lifecycle_to_remote_state, as far as anything reads it back.             *)
RemoteState(status) == IF status \in {"open", "reopened"} THEN "open" ELSE "closed"

RemoteStateToLifecycle(state, current) ==
  IF state = RemoteState(current) THEN current
  ELSE IF state = "closed" THEN "completed" ELSE "reopened"

InboundMirrorsBaseline(text, state, assignees, base) ==
  text = base.text /\ assignees = base.assignees /\ state = RemoteState(base.status)

CopyInbound(live, i) ==
  [text |-> i.text, assignees |-> i.assignees,
   status |-> RemoteStateToLifecycle(i.state, live.status)]

DiffAgainstBaseline(t) == {f \in Fields : t.live[f] # t.base[f]}

ReconcileNoConflict(sync, live, base) ==   \* mutant: an edit hides the remote change
  CASE sync = "synced" /\ live # base       -> "dirty_local"
    [] sync = "dirty_local" /\ live = base  -> "synced"
    [] OTHER                                -> sync

ReconcileDirtyAgainstBaseline(sync, live, base) ==
  CASE sync = "synced" /\ live # base       -> "dirty_local"
    [] sync = "dirty_local" /\ live = base  -> "synced"
    [] sync = "dirty_remote" /\ live # base -> "conflict"
    [] OTHER                                -> sync

(* build_update_from_patch applied by GitHub.                               *)
Patched(i, live, patch) ==
  [text      |-> IF "text" \in patch THEN live.text ELSE i.text,
   state     |-> IF "status" \in patch THEN RemoteState(live.status) ELSE i.state,
   assignees |-> IF "assignees" \in patch THEN live.assignees ELSE i.assignees]

ConfirmSyncedFields(t, patch) ==
  LET merged == [f \in Fields |-> IF f \in patch THEN t.live[f] ELSE t.base[f]]
      base   == [text |-> merged["text"], status |-> merged["status"],
                 assignees |-> merged["assignees"]]
  IN  [t EXCEPT !.base = base,
                !.sync = ReconcileDirtyAgainstBaseline("synced", t.live, base)]

ConfirmableConflict(t) == t.sync # "synced"   \* mutant: a conflict is pushed too

Confirmable(t) == t.sync \in {"dirty_local", "dirty_remote"}

Decide(sync, remoteDirty) ==
  CASE sync \in {"dirty_remote", "conflict"} -> "pull"
    [] sync = "dirty_local"                  -> IF remoteDirty THEN "pull" ELSE "push"
    [] sync = "synced"                       -> IF remoteDirty THEN "pull" ELSE "noop"

-----------------------------------------------------------------------------
(* Saving, enqueueing and running a process.                                *)

BaselineOnEdit == {"push", "pull", "filing_repo_repair", "local_edit"}   \* mutant

Baseline == {"push", "pull", "filing_repo_repair"}

Snapshots(ts) == IF MaxRollbacks = 0 THEN {} ELSE {[sync |-> t.sync, live |-> t.live] : t \in ts}

(* write_task_in_tx: the row, and a snapshot that may be the new baseline.  *)
Save(t, source) ==
  /\ task' = [sync |-> t.sync, live |-> t.live,
              base |-> IF source \in Baseline THEN t.live ELSE task.base]
  /\ history' = history \cup Snapshots({t})

MayBegin(p) == proc[p].pc = "idle" /\ (Overlap \/ \A q \in Procs : proc[q].pc = "idle")

At(p, pc) == proc[p].pc = pc
Finish(p) == proc' = [proc EXCEPT ![p] = Rest]
Hold(p, pc, copy) == proc' = [proc EXCEPT ![p] = [pc |-> pc, copy |-> copy]]
Fetch(p, pc, copy) == proc' = [proc EXCEPT ![p] = [pc |-> pc, copy |-> copy, page |-> issue]]
Within(b) == spent[b] < [commands |-> MaxCommands, remote |-> MaxRemoteEdits, faults |-> MaxFaults,
                         rebaselines |-> MaxRebaselines, rollbacks |-> MaxRollbacks][b]
Spend(bs) == /\ \A b \in bs : Within(b)
             /\ spent' = [b \in DOMAIN spent |-> IF b \in bs THEN spent[b] + 1 ELSE spent[b]]

Hear(i) == held' = [text      |-> held.text \cup {i.text},
                    state     |-> held.state \cup {i.state},
                    assignees |-> held.assignees \cup {i.assignees}]

(* The start of an rl command: the task is read.                            *)
Command(c, pc, budget) ==
  /\ MayBegin(c)
  /\ Spend({"commands"} \cup budget)
  /\ Hold(c, pc, task)
  /\ UNCHANGED <<task, issue, queue, tries, dead, history, held, marked>>

-----------------------------------------------------------------------------
(* rl task update and the lifecycle verbs.                                  *)

EditBegin(c) == Command(c, "edit", {})

SaveEdit(c, t, rows) ==
  /\ Save(t, "local_edit")
  /\ queue' = queue + rows
  /\ Finish(c)
  /\ UNCHANGED <<issue, tries, dead, spent, held, marked>>

(* TaskService::update: title and body, then assignees, each reconciled.    *)
(* An UpdateRemote is owed only if the sync state moved, so that edits of a *)
(* dirty task coalesce.                                                     *)
Update(c) ==
  /\ At(c, "edit")
  /\ \E text \in Texts, assignees \in Assignees :
       LET t    == proc[c].copy
           half == [t.live EXCEPT !.text = text]
           live == [half EXCEPT !.assignees = assignees]
           sync == ReconcileDirtyAgainstBaseline(
                     ReconcileDirtyAgainstBaseline(t.sync, half, t.base), live, t.base)
       IN  SaveEdit(c, [t EXCEPT !.live = live, !.sync = sync], IF sync # t.sync THEN 1 ELSE 0)

(* complete, archive, reopen: a real transition always owes an UpdateRemote; *)
(* a repeated one saves nothing.                                            *)
TransitionMirror(c) ==
  /\ At(c, "edit")
  /\ \E s \in {"completed", "not_planned", "reopened"} :
       LET t    == proc[c].copy
           live == [t.live EXCEPT !.status = s]
       IN  IF s = t.live.status
             THEN Finish(c) /\ UNCHANGED <<task, issue, queue, tries, dead, history, spent, held, marked>>
             ELSE SaveEdit(c, [t EXCEPT !.live = live,
                                        !.sync = ReconcileDirtyAgainstBaseline(t.sync, live, t.base)], 1)

(* rl task rollback: content and sync state of a snapshot, reconciled; no   *)
(* UpdateRemote is planned.                                                 *)
RollbackBegin(c) == Command(c, "rollback", {"rollbacks"})

Rollback(c) ==
  /\ At(c, "rollback")
  /\ \E s \in history :
       LET t == proc[c].copy
       IN  Save([t EXCEPT !.live = s.live,
                          !.sync = ReconcileDirtyAgainstBaseline(s.sync, s.live, t.base)], "rollback")
  /\ Finish(c)
  /\ UNCHANGED <<issue, queue, tries, dead, spent, held, marked>>

(* rl repo doctor --repair re-points filing_repo_id and saves the task.     *)
RepairBegin(c) == Command(c, "repair", {"rebaselines"})

Repair(c) ==
  /\ At(c, "repair")
  /\ Save(proc[c].copy, "filing_repo_repair")
  /\ Finish(c)
  /\ UNCHANGED <<issue, queue, tries, dead, spent, held, marked>>

-----------------------------------------------------------------------------
(* Sending a PATCH: rl sync push [--force] and the drainer's UpdateRemote.  *)

Lands(live, patch) ==
  LET sent == Patched(issue, live, patch)
  IN  /\ \E drop \in {FALSE, DropsAssignees} :
           issue' = IF drop THEN [sent EXCEPT !.assignees = issue.assignees] ELSE sent
      /\ Hear(issue')

(* The call fails; GitHub may have applied it all the same.                 *)
Fails(live, patch) ==
  /\ Spend({"faults"})
  /\ \/ Lands(live, patch)
     \/ UNCHANGED <<issue, held>>

PushBegin(c) ==
  /\ task.sync = "dirty_local" /\ Command(c, "push", {})

ForcePushBegin(c) ==
  /\ task.sync = "conflict" /\ Command(c, "force_push", {})

PatchOf(p) == IF At(p, "force_push") \/ At(p, "sent_all") THEN Fields
              ELSE DiffAgainstBaseline(proc[p].copy)

(* push_inner does not look at the response.                                *)
PushSend(c) ==
  /\ At(c, "push") \/ At(c, "force_push")
  /\ IF PatchOf(c) = {} THEN UNCHANGED <<issue, held>> ELSE Lands(proc[c].copy.live, PatchOf(c))
  /\ Hold(c, IF At(c, "push") THEN "sent" ELSE "sent_all", proc[c].copy)
  /\ UNCHANGED <<task, queue, tries, dead, history, spent, marked>>

PushFails(c) ==
  /\ At(c, "push") \/ At(c, "force_push")
  /\ PatchOf(c) # {} /\ Fails(proc[c].copy.live, PatchOf(c))
  /\ Finish(c)
  /\ UNCHANGED <<task, queue, tries, dead, history, marked>>

PushSave(c) ==
  /\ At(c, "sent") \/ At(c, "sent_all")
  /\ Save(ConfirmSyncedFields(proc[c].copy, PatchOf(c)), "push")
  /\ marked' = IF At(c, "sent_all") THEN "no" ELSE marked
  /\ Finish(c)
  /\ UNCHANGED <<issue, queue, tries, dead, spent, held>>

-----------------------------------------------------------------------------
(* rl sync pull [--force].                                                  *)

PullBegin(c) ==
  /\ task.live.status # "not_planned"
  /\ Command(c, "pull", {}) \/ Command(c, "force_pull", {})

PullFetch(c) ==
  /\ At(c, "pull") \/ At(c, "force_pull")
  /\ Fetch(c, IF At(c, "pull") THEN "fetched" ELSE "force_fetched", proc[c].copy)
  /\ UNCHANGED <<task, issue, queue, tries, dead, history, spent, held, marked>>

Decision(c) ==
  LET t == proc[c].copy
      i == proc[c].page
      d == Decide(t.sync, ~InboundMirrorsBaseline(i.text, i.state, i.assignees, t.base))
  IN  IF d = "push" /\ At(c, "force_fetched") THEN "pull" ELSE d

(* adopt_aligned_state on the fetched content.                              *)
Adopted(t, i) == LET live == CopyInbound(t.live, i)
                 IN  [sync |-> "synced", live |-> live, base |-> live]

(* The save of the local state before it is overwritten (PrePull) is        *)
(* followed at once by the save of the adopted state.                       *)
PullApply(c) ==
  /\ At(c, "fetched") \/ At(c, "force_fetched")
  /\ LET t == proc[c].copy
         new == Adopted(t, proc[c].page)
     IN  IF Decision(c) = "pull"
           THEN /\ task' = new
                /\ history' = history \cup Snapshots({t, new})
                /\ marked' = "no"
                /\ Hold(c, "relations", new)
           ELSE /\ Hold(c, "relations", t)
                /\ UNCHANGED <<task, history, marked>>
  /\ UNCHANGED <<issue, queue, tries, dead, spent, held>>

(* reconcile_relations_inbound: no edge changed ...                         *)
PullDone(c) ==
  /\ At(c, "relations")
  /\ Finish(c)
  /\ UNCHANGED <<task, issue, queue, tries, dead, history, spent, held, marked>>

(* ... or the task is saved again, with source Pull whatever was decided.   *)
PullRelations(c) ==
  /\ At(c, "relations")
  /\ Spend({"rebaselines"})
  /\ Save(proc[c].copy, "pull")
  /\ Finish(c)
  /\ UNCHANGED <<issue, queue, tries, dead, held, marked>>

-----------------------------------------------------------------------------
(* The drainer's UpdateRemote arm.                                          *)

DrainBegin ==
  /\ queue > 0 /\ MayBegin(Drainer)
  /\ Hold(Drainer, "drain", task)
  /\ UNCHANGED <<task, issue, queue, tries, dead, history, spent, held, marked>>

Draining == proc[Drainer].copy
DrainPatch == DiffAgainstBaseline(Draining)

Dropped == queue' = queue - 1 /\ tries' = 0 /\ UNCHANGED dead   \* mutant: no dead letter is kept

Stamped == queue' = queue - 1 /\ tries' = 0 /\ UNCHANGED dead
DeadLettered == queue' = queue - 1 /\ tries' = 0 /\ dead' = dead + 1

(* Synced and conflicted tasks are skipped and the row succeeds.            *)
DrainSkip ==
  /\ At(Drainer, "drain") /\ ~Confirmable(Draining)
  /\ Stamped /\ Finish(Drainer)
  /\ UNCHANGED <<task, issue, history, spent, held, marked>>

DrainSend ==
  /\ At(Drainer, "drain") /\ Confirmable(Draining) /\ DrainPatch # {}
  /\ Lands(Draining.live, DrainPatch)
  /\ IF "assignees" \in DrainPatch /\ issue'.assignees # Draining.live.assignees
       THEN /\ DeadLettered
            /\ IF task.sync # "conflict" THEN Save([task EXCEPT !.sync = "conflict"], "local_edit")
                                         ELSE UNCHANGED <<task, history>>
            /\ Finish(Drainer)
       ELSE Hold(Drainer, "sent", Draining) /\ UNCHANGED <<task, history, queue, tries, dead>>
  /\ UNCHANGED <<spent, marked>>

RetryLateCap ==   \* mutant: one attempt too many
  IF tries + 1 <= MaxAttempts THEN tries' = tries + 1 /\ UNCHANGED <<queue, dead>> ELSE DeadLettered

RetryOrDeadLetter ==
  IF tries + 1 < MaxAttempts THEN tries' = tries + 1 /\ UNCHANGED <<queue, dead>> ELSE DeadLettered

DrainFails ==
  /\ At(Drainer, "drain") /\ Confirmable(Draining) /\ DrainPatch # {}
  /\ Fails(Draining.live, DrainPatch)
  /\ RetryOrDeadLetter
  /\ Finish(Drainer)
  /\ UNCHANGED <<task, history, marked>>

(* confirm_synced_fields and save, also when there was nothing to send.     *)
DrainSave ==
  /\ \/ At(Drainer, "sent")
     \/ At(Drainer, "drain") /\ Confirmable(Draining) /\ DrainPatch = {}
  /\ Save(ConfirmSyncedFields(Draining, DrainPatch), "push")
  /\ Stamped /\ Finish(Drainer)
  /\ UNCHANGED <<issue, spent, held, marked>>

(* The daemon dies and comes back: the row it held is requeued, and a dirty *)
(* task without any row gets one.                                           *)
Restart ==
  /\ Spend({"faults"})
  /\ proc' = [p \in Procs |-> IF p \in Clis THEN proc[p] ELSE Rest]
  /\ queue' = IF task.sync = "dirty_local" /\ queue = 0 /\ dead = 0 THEN 1 ELSE queue
  /\ UNCHANGED <<task, issue, tries, dead, history, held, marked>>

-----------------------------------------------------------------------------
(* The poller: the board is fetched, later the task is read and compared,   *)
(* and the row is marked if it is still Synced.                             *)

PollFetch ==
  /\ MayBegin(Poller)
  /\ Fetch(Poller, "poll", task)
  /\ UNCHANGED <<task, issue, queue, tries, dead, history, spent, held, marked>>

PollCompare ==
  /\ At(Poller, "poll")
  /\ LET i == proc[Poller].page
         drifted == task.sync = "synced"
                    /\ ~InboundMirrorsBaseline(i.text, i.state, task.base.assignees, task.base)
     IN  IF drifted THEN Hold(Poller, "mark", task) ELSE Finish(Poller)
  /\ UNCHANGED <<task, issue, queue, tries, dead, history, spent, held, marked>>

MarkRemoteDirty ==
  /\ At(Poller, "mark")
  /\ IF task.sync = "synced"
       THEN /\ task' = [task EXCEPT !.sync = "dirty_remote"]
            /\ marked' = IF queue = 0 THEN "yes" ELSE marked
       ELSE UNCHANGED <<task, marked>>
  /\ Finish(Poller)
  /\ UNCHANGED <<issue, queue, tries, dead, history, spent, held>>

(* Somebody edits the issue on GitHub.                                      *)
RemoteEdit ==
  /\ Spend({"remote"})
  /\ \E i \in Issues : i # issue /\ issue' = i /\ Hear(i)
  /\ UNCHANGED <<task, queue, tries, dead, proc, history, marked>>

-----------------------------------------------------------------------------
(* A freshly imported or promoted task.                                     *)
Init ==
  \E i \in Issues :
    LET live == [text |-> i.text, assignees |-> i.assignees,
                 status |-> IF i.state = "closed" THEN "completed" ELSE "open"]
        t == [sync |-> "synced", live |-> live, base |-> live]
    IN  /\ issue = i /\ task = t
        /\ proc = [p \in Procs |-> Rest]
        /\ history = Snapshots({t})
        /\ held = [text |-> {i.text}, state |-> {i.state}, assignees |-> {i.assignees}]
        /\ queue = 0 /\ tries = 0 /\ dead = 0 /\ marked = "no"
        /\ spent = [b \in {"commands", "remote", "rebaselines", "rollbacks", "faults"} |-> 0]

CliStep(c) == \/ Update(c) \/ TransitionMirror(c) \/ Rollback(c) \/ Repair(c)
              \/ PushSend(c) \/ PushFails(c) \/ PushSave(c)
              \/ PullFetch(c) \/ PullApply(c) \/ PullDone(c) \/ PullRelations(c)

DrainStep == DrainSkip \/ DrainSend \/ DrainFails \/ DrainSave

Next ==
  \/ \E c \in Clis : \/ EditBegin(c) \/ RollbackBegin(c) \/ RepairBegin(c)
                     \/ PushBegin(c) \/ ForcePushBegin(c) \/ PullBegin(c)
                     \/ CliStep(c)
  \/ DrainBegin \/ DrainStep \/ Restart
  \/ PollFetch \/ PollCompare \/ MarkRemoteDirty
  \/ RemoteEdit

Spec == Init /\ [][Next]_vars

(* A command that was started finishes; the daemon runs: its drainer takes  *)
(* the head of the outbox and resolves it, its poller finishes a pass.      *)
(* DrainBegin needs strong fairness only because, without Overlap, the      *)
(* model makes it wait for a gap between the other operations.              *)
Fairness ==
  /\ \A c \in Clis : WF_vars(CliStep(c))
  /\ SF_vars(DrainBegin) /\ WF_vars(DrainStep)
  /\ WF_vars(PollCompare \/ MarkRemoteDirty)

FairSpec == Spec /\ Fairness

-----------------------------------------------------------------------------
(* Properties.                                                              *)

(* Every variable has its type; a retried row is below the attempt cap.     *)
TypeOK ==
  /\ task \in Tasks /\ issue \in Issues
  /\ queue \in Nat /\ dead \in Nat /\ tries \in 0 .. MaxAttempts - 1
  /\ proc \in [Procs -> Process]
  /\ history \subseteq [sync : SyncStates, live : Content]
  /\ spent \in [{"commands", "remote", "rebaselines", "rollbacks", "faults"} -> Nat]
  /\ held \in [text : SUBSET Texts, state : SUBSET {"open", "closed"}, assignees : SUBSET Assignees]
  /\ marked \in {"yes", "no"}

Idle == \A p \in Procs : At(p, "idle")

(* "Idempotent edits stay Synced, reverts unwind": a task that claims to be *)
(* Synced, or dirty on the remote side only, has exactly the content of its *)
(* baseline, whatever edits, pushes, pulls and rollbacks preceded.          *)
CleanMeansAligned ==
  task.sync \in {"synced", "dirty_remote"} => task.live = task.base

(* The converse for DirtyLocal: the diff that the next push sends is never  *)
(* empty, so a dirty task is never confirmed without a PATCH.               *)
DirtyMeansDiffers ==
  task.sync = "dirty_local" => DiffAgainstBaseline(task) # {}

WasRemote(c) ==
  /\ c.text \in held.text
  /\ RemoteState(c.status) \in held.state
  /\ c.assignees \in held.assignees

(* The baseline is "the last known remote state": each of its fields is a   *)
(* value that the issue really had at some time.  Otherwise a local edit    *)
(* counts as aligned and the field-level diff never sends it.               *)
BaselineWasRemote == WasRemote(task.base)

(* Between operations, a task with unpushed edits has an open UpdateRemote  *)
(* row, or a dead letter that shows the user why it has none: coalescing,   *)
(* retries, skipped rows and restarts lose no push.  Rollbacks excepted.    *)
OwedPush ==
  task.sync = "dirty_local" /\ Idle /\ spent.rollbacks = 0 => queue > 0 \/ dead > 0

(* What the Task aggregate says of local edits: "the daemon picks up        *)
(* DirtyLocal tasks on its next tick".  The daemon only sees open rows.     *)
DirtyIsPickedUp == task.sync = "dirty_local" /\ Idle => queue > 0 \/ dead > 0

(* Conflict means that both sides diverged: it takes an edit on GitHub or a *)
(* failed call to get there.                                                *)
ConflictNeedsRemote == task.sync = "conflict" => spent.remote > 0 \/ spent.faults > 0

Mirrored ==
  issue = [text |-> task.live.text, state |-> RemoteState(task.live.status), assignees |-> task.live.assignees]

(* As long as nobody edits the issue and no call fails, a task that is at   *)
(* rest and Synced has the content of its issue.                            *)
SyncedIsMirrored ==
  task.sync = "synced" /\ Idle /\ spent.remote = 0 /\ spent.faults = 0 => Mirrored

(* Drift that the poller marked on a task without open rows stays visible   *)
(* to rl query drift, as DirtyRemote or as a conflict, until a pull applies *)
(* it or a forced push overrules it.  Rollbacks excepted.                   *)
DriftSurfaced ==
  marked = "yes" /\ spent.rollbacks = 0 => task.sync \in {"dirty_remote", "conflict"}

(* The daemon only pushes: neither drainer nor poller changes the content   *)
(* of the task, so no edit saved by a command is undone behind its back.    *)
DaemonKeepsContent ==
  [][(\A c \in Clis : proc'[c] = proc[c]) => task'.live = task.live]_vars

(* It does, when an edit lands while the drainer awaits GitHub.  Then it is *)
(* the drainer's confirmation of a copy that the edit has outdated, and the *)
(* content it replaces is still a snapshot that rl task rollback can name   *)
(* (drainer.rs UpdateRemote, write_task_in_tx).                             *)
OverwrittenEditIsKept ==
  [][(\A c \in Clis : proc'[c] = proc[c]) /\ task'.live # task.live =>
       /\ DrainSave /\ Draining.live # task.live /\ task'.live = Draining.live
       /\ \E s \in history' : s.live = task.live]_vars

(* An edit is pushed, or reverted, overtaken by a conflict, or its failure  *)
(* is kept as a dead letter.                                                *)
EventuallyPushed == task.sync = "dirty_local" ~> task.sync # "dirty_local" \/ dead > 0

(* The sync state and the baseline tell the truth: a dirty task differs, a  *)
(* conflict has a cause on GitHub, a synced task equals its issue, and      *)
(* marked drift stays visible (reconcile_dirty_against_baseline,            *)
(* confirm_synced_fields, the guards of the drainer's UpdateRemote arm).    *)
StateIsTrue == DirtyMeansDiffers /\ ConflictNeedsRemote /\ SyncedIsMirrored /\ DriftSurfaced
=============================================================================
