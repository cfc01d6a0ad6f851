--------------------------- MODULE TaskSyncProofs ---------------------------
(***************************************************************************)
(* Theorems about TaskSync, for any number of rl processes, texts,         *)
(* assignees, commands, faults and edits on GitHub.                        *)
(***************************************************************************)
EXTENDS TaskSync, TLAPS

Snaps == [sync : SyncStates, live : Content]
Busy  == [pc : Working, copy : Tasks] \cup [pc : Fetching, copy : Tasks, page : Issues]

-----------------------------------------------------------------------------
(* Facts about the rules of the aggregate.                                  *)

(* The reconciler answers with a sync state.                                *)
LEMMA ReconcileType ==
  ASSUME NEW sync \in SyncStates, NEW live, NEW base
  PROVE  ReconcileDirtyAgainstBaseline(sync, live, base) \in SyncStates
BY DEF ReconcileDirtyAgainstBaseline, SyncStates

(* A state it leaves clean, or dirty on the remote side only, is aligned.   *)
LEMMA ReconcileAligns ==
  ASSUME NEW sync \in SyncStates, NEW live, NEW base,
         ReconcileDirtyAgainstBaseline(sync, live, base) \in {"synced", "dirty_remote"}
  PROVE  live = base
BY DEF ReconcileDirtyAgainstBaseline, SyncStates

(* Bringing the remote state in keeps the lifecycle's view of that state.   *)
LEMMA RemoteStateRoundTrip ==
  ASSUME NEW state \in {"open", "closed"}, NEW current \in Lifecycle
  PROVE  /\ RemoteStateToLifecycle(state, current) \in Lifecycle
         /\ RemoteState(RemoteStateToLifecycle(state, current)) = state
BY DEF RemoteStateToLifecycle, RemoteState, Lifecycle

(* Content copied from an issue is content.                                 *)
LEMMA CopyInboundType ==
  ASSUME NEW live \in Content, NEW i \in Issues
  PROVE  CopyInbound(live, i) \in Content
<1>1. i.state \in {"open", "closed"} /\ i.text \in Texts /\ i.assignees \in Assignees
  BY DEF Issues
<1>2. live.status \in Lifecycle
  BY DEF Content
<1> QED BY <1>1, <1>2, RemoteStateRoundTrip DEF CopyInbound, Content

(* A patched issue is an issue.                                             *)
LEMMA PatchedType ==
  ASSUME NEW i \in Issues, NEW live \in Content, NEW patch
  PROVE  Patched(i, live, patch) \in Issues
BY DEF Patched, Issues, Content, RemoteState

(* A confirmed task is a task.                                              *)
LEMMA ConfirmType ==
  ASSUME NEW t \in Tasks, NEW patch
  PROVE  /\ ConfirmSyncedFields(t, patch) \in Tasks
         /\ ConfirmSyncedFields(t, patch).live = t.live
<1> DEFINE merged == [f \in Fields |-> IF f \in patch THEN t.live[f] ELSE t.base[f]]
           base == [text |-> merged["text"], status |-> merged["status"], assignees |-> merged["assignees"]]
<1>1. t.live \in Content /\ t.base \in Content
  BY DEF Tasks
<1>2. base \in Content
  BY <1>1 DEF Content, Fields
<1>3. ReconcileDirtyAgainstBaseline("synced", t.live, base) \in SyncStates
  BY ReconcileType DEF SyncStates
<1>4. ConfirmSyncedFields(t, patch)
        = [t EXCEPT !.base = base, !.sync = ReconcileDirtyAgainstBaseline("synced", t.live, base)]
  BY DEF ConfirmSyncedFields
<1> HIDE DEF base
<1> QED BY <1>2, <1>3, <1>4 DEF Tasks

-----------------------------------------------------------------------------
(* Facts about the building blocks of the actions.                          *)

(* A process at work holds a task.                                          *)
LEMMA CopyType ==
  ASSUME TypeOK, NEW p \in Procs, proc[p].pc # "idle"
  PROVE  proc[p] \in Busy /\ proc[p].copy \in Tasks
<1>1. proc[p] \in Process
  BY DEF TypeOK
<1>2. proc[p] # Rest
  BY DEF Rest
<1>3. proc[p] \in Busy
  BY <1>1, <1>2 DEF Process, Busy
<1> QED BY <1>3 DEF Busy

(* A process that fetched holds an issue.                                   *)
LEMMA PageType ==
  ASSUME TypeOK, NEW p \in Procs, proc[p].pc \in Fetching
  PROVE  proc[p].page \in Issues
<1>1. proc[p].pc # "idle" /\ proc[p].pc \notin Working
  BY DEF Fetching, Working
<1>2. proc[p] \in [pc : Fetching, copy : Tasks, page : Issues]
  BY <1>1, CopyType DEF Busy
<1> QED BY <1>2

(* Moving one process keeps the type of proc.                               *)
LEMMA MoveType ==
  ASSUME TypeOK, NEW p \in Procs, NEW r \in Process, proc' = [proc EXCEPT ![p] = r]
  PROVE  proc' \in [Procs -> Process]
BY DEF TypeOK

(* So does finishing it,                                                    *)
LEMMA FinishType ==
  ASSUME TypeOK, NEW p \in Procs, Finish(p)
  PROVE  proc' \in [Procs -> Process]
BY MoveType DEF Finish, Process

(* starting to work on a copy,                                              *)
LEMMA HoldType ==
  ASSUME TypeOK, NEW p \in Procs, NEW pc \in Working, NEW t \in Tasks, Hold(p, pc, t)
  PROVE  proc' \in [Procs -> Process]
<1>1. [pc |-> pc, copy |-> t] \in Process
  BY DEF Process
<1> QED BY <1>1, MoveType DEF Hold

(* and fetching.                                                            *)
LEMMA FetchType ==
  ASSUME TypeOK, NEW p \in Procs, NEW pc \in Fetching, NEW t \in Tasks, Fetch(p, pc, t)
  PROVE  proc' \in [Procs -> Process]
<1>1. issue \in Issues
  BY DEF TypeOK
<1>2. [pc |-> pc, copy |-> t, page |-> issue] \in Process
  BY <1>1 DEF Process
<1> QED BY <1>2, MoveType DEF Fetch

(* Spending keeps the counters natural.                                     *)
LEMMA SpendType ==
  ASSUME TypeOK, NEW bs, Spend(bs)
  PROVE  spent' \in [{"commands", "remote", "rebaselines", "rollbacks", "faults"} -> Nat]
BY DEF TypeOK, Spend

(* Snapshots of tasks are snapshots.                                        *)
LEMMA SnapshotsType ==
  ASSUME TypeOK, NEW ts \in SUBSET Tasks
  PROVE  history \cup Snapshots(ts) \subseteq Snaps
BY DEF TypeOK, Snapshots, Snaps, Tasks

(* A saved task is a task.                                                  *)
LEMMA SaveType ==
  ASSUME TypeOK, NEW t \in Tasks, NEW source, Save(t, source)
  PROVE  task' \in Tasks /\ history' \subseteq Snaps
<1>1. {t} \subseteq Tasks
  OBVIOUS
<1>2. history' \subseteq Snaps
  BY <1>1, SnapshotsType DEF Save
<1>3. t.live \in Content /\ t.sync \in SyncStates /\ task.base \in Content
  BY DEF TypeOK, Tasks
<1>4. task' \in Tasks
  BY <1>3 DEF Save, Tasks
<1> QED BY <1>2, <1>4

(* What the issue has had keeps its type.                                   *)
LEMMA HearType ==
  ASSUME TypeOK, NEW i \in Issues, Hear(i)
  PROVE  held' \in [text : SUBSET Texts, state : SUBSET {"open", "closed"}, assignees : SUBSET Assignees]
<1>1. held \in [text : SUBSET Texts, state : SUBSET {"open", "closed"}, assignees : SUBSET Assignees]
  BY DEF TypeOK
<1>2. i.text \in Texts /\ i.state \in {"open", "closed"} /\ i.assignees \in Assignees
  BY DEF Issues
<1>3. /\ held.text \cup {i.text} \in SUBSET Texts
      /\ held.state \cup {i.state} \in SUBSET {"open", "closed"}
      /\ held.assignees \cup {i.assignees} \in SUBSET Assignees
  BY <1>1, <1>2
<1> QED BY <1>3 DEF Hear

(* A PATCH that lands leaves an issue.                                      *)
LEMMA LandsType ==
  ASSUME TypeOK, NEW live \in Content, NEW patch, Lands(live, patch)
  PROVE  /\ issue' \in Issues
         /\ held' \in [text : SUBSET Texts, state : SUBSET {"open", "closed"}, assignees : SUBSET Assignees]
<1>1. issue \in Issues
  BY DEF TypeOK
<1>2. Patched(issue, live, patch) \in Issues
  BY <1>1, PatchedType
<1>3. [Patched(issue, live, patch) EXCEPT !.assignees = issue.assignees] \in Issues
  BY <1>1, <1>2 DEF Issues
<1>4. issue' \in Issues
  BY <1>2, <1>3 DEF Lands
<1>5. Hear(issue')
  BY DEF Lands
<1> QED BY <1>4, <1>5, HearType

-----------------------------------------------------------------------------
(* The type invariant, action by action.                                    *)

(* Starting a command.                                                      *)
LEMMA CommandTypeStep ==
  ASSUME TypeOK, NEW c \in Clis, NEW pc \in Working, NEW budget, Command(c, pc, budget)
  PROVE  TypeOK'
<1>1. proc' \in [Procs -> Process]
  BY HoldType DEF Command, TypeOK, Procs
<1>2. spent' \in [{"commands", "remote", "rebaselines", "rollbacks", "faults"} -> Nat]
  BY SpendType DEF Command
<1> QED BY <1>1, <1>2 DEF Command, TypeOK

(* A step of an rl command that saves t and is done.                        *)
LEMMA SaveTypeStep ==
  ASSUME TypeOK, NEW p \in Procs, NEW t \in Tasks, NEW source, Save(t, source), Finish(p),
         queue' \in Nat, dead' \in Nat, tries' \in 0 .. MaxAttempts - 1, issue' = issue,
         spent' \in [{"commands", "remote", "rebaselines", "rollbacks", "faults"} -> Nat],
         held' = held, marked' \in {"yes", "no"}
  PROVE  TypeOK'
<1>1. proc' \in [Procs -> Process]
  BY FinishType
<1>2. task' \in Tasks /\ history' \subseteq Snaps
  BY SaveType
<1> QED BY <1>1, <1>2 DEF TypeOK, Snaps

(* Edits and lifecycle verbs.                                               *)
LEMMA EditTypeStep ==
  ASSUME TypeOK, NEW c \in Clis, Update(c) \/ TransitionMirror(c)
  PROVE  TypeOK'
<1> DEFINE t == proc[c].copy
<1>1. c \in Procs /\ t \in Tasks /\ t.live \in Content /\ t.sync \in SyncStates
  BY CopyType DEF Update, TransitionMirror, At, Procs, Tasks
<1> HIDE DEF t
<1>2. ASSUME NEW live \in Content, NEW sync \in SyncStates, NEW rows \in Nat,
             SaveEdit(c, [t EXCEPT !.live = live, !.sync = sync], rows)
      PROVE  TypeOK'
  <2>1. [t EXCEPT !.live = live, !.sync = sync] \in Tasks
    BY <1>1, <1>2 DEF Tasks
  <2>2. queue' \in Nat
    BY <1>2 DEF SaveEdit, TypeOK
  <2> QED BY <1>1, <1>2, <2>1, <2>2, SaveTypeStep DEF SaveEdit, TypeOK
<1>3. CASE Update(c)
  <2>1. PICK text \in Texts, assignees \in Assignees :
          LET half == [t.live EXCEPT !.text = text]
              live == [half EXCEPT !.assignees = assignees]
              sync == ReconcileDirtyAgainstBaseline(
                        ReconcileDirtyAgainstBaseline(t.sync, half, t.base), live, t.base)
          IN  SaveEdit(c, [t EXCEPT !.live = live, !.sync = sync], IF sync # t.sync THEN 1 ELSE 0)
    BY <1>3 DEF Update, t
  <2> DEFINE half == [t.live EXCEPT !.text = text]
             live == [half EXCEPT !.assignees = assignees]
             sync == ReconcileDirtyAgainstBaseline(
                       ReconcileDirtyAgainstBaseline(t.sync, half, t.base), live, t.base)
  <2>2. live \in Content
    BY <1>1 DEF Content
  <2>3. sync \in SyncStates
    BY <1>1, ReconcileType
  <2> HIDE DEF live, sync
  <2>4. (IF sync # t.sync THEN 1 ELSE 0) \in Nat
    OBVIOUS
  <2> QED BY <1>2, <2>1, <2>2, <2>3, <2>4 DEF live, sync
<1>4. CASE TransitionMirror(c)
  <2>1. PICK s \in {"completed", "not_planned", "reopened"} :
          LET live == [t.live EXCEPT !.status = s]
          IN  IF s = t.live.status
                THEN Finish(c) /\ UNCHANGED <<task, issue, queue, tries, dead, history, spent, held, marked>>
                ELSE SaveEdit(c, [t EXCEPT !.live = live,
                                           !.sync = ReconcileDirtyAgainstBaseline(t.sync, live, t.base)], 1)
    BY <1>4 DEF TransitionMirror, t
  <2>2. CASE s = t.live.status
    BY <1>1, <2>1, <2>2, FinishType DEF TypeOK
  <2>3. CASE s # t.live.status
    <3>1. [t.live EXCEPT !.status = s] \in Content
      BY <1>1 DEF Content, Lifecycle
    <3>2. ReconcileDirtyAgainstBaseline(t.sync, [t.live EXCEPT !.status = s], t.base) \in SyncStates
      BY <1>1, ReconcileType
    <3> QED BY <1>2, <2>1, <2>3, <3>1, <3>2
  <2> QED BY <2>2, <2>3
<1> QED BY <1>3, <1>4

(* Rollback.                                                                *)
LEMMA RollbackTypeStep ==
  ASSUME TypeOK, NEW c \in Clis, Rollback(c)
  PROVE  TypeOK'
<1> DEFINE t == proc[c].copy
<1>1. c \in Procs /\ t \in Tasks
  BY CopyType DEF Rollback, At, Procs
<1> HIDE DEF t
<1>2. PICK s \in history :
        Save([t EXCEPT !.live = s.live,
                       !.sync = ReconcileDirtyAgainstBaseline(s.sync, s.live, t.base)], "rollback")
  BY DEF Rollback, t
<1>3. s.live \in Content /\ s.sync \in SyncStates
  BY <1>2 DEF TypeOK
<1>4. ReconcileDirtyAgainstBaseline(s.sync, s.live, t.base) \in SyncStates
  BY <1>3, ReconcileType
<1>5. [t EXCEPT !.live = s.live,
                !.sync = ReconcileDirtyAgainstBaseline(s.sync, s.live, t.base)] \in Tasks
  BY <1>1, <1>3, <1>4 DEF Tasks
<1> QED BY <1>1, <1>2, <1>5, SaveTypeStep DEF Rollback, TypeOK

(* The steps of a push.                                                     *)
LEMMA PushTypeStep ==
  ASSUME TypeOK, NEW c \in Clis, PushSend(c) \/ PushFails(c) \/ PushSave(c)
  PROVE  TypeOK'
<1> DEFINE t == proc[c].copy
<1>1. c \in Procs /\ t \in Tasks /\ t.live \in Content
  BY CopyType DEF PushSend, PushFails, PushSave, At, Procs, Tasks
<1> HIDE DEF t
<1>2. CASE PushSend(c)
  <2>1. /\ issue' \in Issues
        /\ held' \in [text : SUBSET Texts, state : SUBSET {"open", "closed"}, assignees : SUBSET Assignees]
    BY <1>1, <1>2, LandsType DEF PushSend, TypeOK, t
  <2>2. proc' \in [Procs -> Process]
    <3>1. (IF At(c, "push") THEN "sent" ELSE "sent_all") \in Working
      BY DEF Working
    <3> QED BY <1>1, <1>2, <3>1, HoldType DEF PushSend, t
  <2> QED BY <1>2, <2>1, <2>2 DEF PushSend, TypeOK
<1>3. CASE PushFails(c)
  <2>1. /\ issue' \in Issues
        /\ held' \in [text : SUBSET Texts, state : SUBSET {"open", "closed"}, assignees : SUBSET Assignees]
    BY <1>1, <1>3, LandsType DEF PushFails, Fails, TypeOK, t
  <2>2. proc' \in [Procs -> Process]
    BY <1>1, <1>3, FinishType DEF PushFails
  <2>3. spent' \in [{"commands", "remote", "rebaselines", "rollbacks", "faults"} -> Nat]
    BY <1>3, SpendType DEF PushFails, Fails
  <2> QED BY <1>3, <2>1, <2>2, <2>3 DEF PushFails, TypeOK
<1>4. CASE PushSave(c)
  <2>1. ConfirmSyncedFields(t, PatchOf(c)) \in Tasks
    BY <1>1, ConfirmType
  <2>2. marked' \in {"yes", "no"}
    BY <1>4 DEF PushSave, TypeOK
  <2> QED BY <1>1, <1>4, <2>1, <2>2, SaveTypeStep DEF PushSave, TypeOK, t
<1> QED BY <1>2, <1>3, <1>4

(* The steps of a pull.                                                     *)
LEMMA PullTypeStep ==
  ASSUME TypeOK, NEW c \in Clis, PullFetch(c) \/ PullApply(c) \/ PullDone(c) \/ PullRelations(c)
  PROVE  TypeOK'
<1> DEFINE t == proc[c].copy
<1>1. c \in Procs /\ t \in Tasks /\ t.live \in Content
  BY CopyType DEF PullFetch, PullApply, PullDone, PullRelations, At, Procs, Tasks
<1> HIDE DEF t
<1>2. CASE PullFetch(c)
  <2>1. (IF At(c, "pull") THEN "fetched" ELSE "force_fetched") \in Fetching
    BY DEF Fetching
  <2>2. proc' \in [Procs -> Process]
    BY <1>1, <1>2, <2>1, FetchType DEF PullFetch, t
  <2> QED BY <1>2, <2>2 DEF PullFetch, TypeOK
<1>3. CASE PullApply(c)
  <2> DEFINE new == Adopted(t, proc[c].page)
  <2>1. proc[c].page \in Issues
    BY <1>1, <1>3, PageType DEF PullApply, At, Fetching
  <2>2. new \in Tasks
    BY <1>1, <2>1, CopyInboundType DEF Adopted, Tasks, SyncStates
  <2>3. {t, new} \subseteq Tasks
    BY <1>1, <2>2
  <2> HIDE DEF new
  <2>4. task' \in Tasks /\ history' \subseteq Snaps /\ marked' \in {"yes", "no"}
    <3>1. CASE Decision(c) = "pull"
      BY <1>3, <2>2, <2>3, <3>1, SnapshotsType DEF PullApply, t, new
    <3>2. CASE Decision(c) # "pull"
      BY <1>3, <3>2 DEF PullApply, TypeOK, Snaps
    <3> QED BY <3>1, <3>2
  <2>5. proc' \in [Procs -> Process]
    <3>1. Hold(c, "relations", new) \/ Hold(c, "relations", t)
      BY <1>3 DEF PullApply, t, new
    <3> QED BY <1>1, <2>2, <3>1, HoldType DEF Working
  <2> QED BY <1>3, <2>4, <2>5 DEF PullApply, TypeOK, Snaps
<1>4. CASE PullDone(c)
  BY <1>1, <1>4, FinishType DEF PullDone, TypeOK
<1>5. CASE PullRelations(c)
  BY <1>1, <1>5, SaveTypeStep, SpendType DEF PullRelations, TypeOK, t
<1> QED BY <1>2, <1>3, <1>4, <1>5

(* A drainer at work holds a row, so that resolving it never underflows.    *)
HoldsRow == proc[Drainer].pc # "idle" => queue > 0
TInv == TypeOK /\ HoldsRow

(* Resolving a row keeps the counters in range.                             *)
LEMMA ResolveType ==
  ASSUME TypeOK, queue > 0, Stamped \/ DeadLettered \/ RetryOrDeadLetter
  PROVE  queue' \in Nat /\ dead' \in Nat /\ tries' \in 0 .. MaxAttempts - 1
<1>1. MaxAttempts \in Nat \ {0} /\ queue \in Nat /\ dead \in Nat /\ tries \in 0 .. MaxAttempts - 1
  BY TaskSyncAssumption DEF TypeOK
<1> QED BY <1>1 DEF Stamped, DeadLettered, RetryOrDeadLetter

(* The steps of the drainer.                                                *)
LEMMA DrainTypeStep ==
  ASSUME TInv, DrainBegin \/ DrainStep
  PROVE  TypeOK'
<1>1. TypeOK /\ Drainer \in Procs /\ task \in Tasks
  BY DEF TInv, Procs, TypeOK
<1>2. CASE DrainBegin
  <2>1. proc' \in [Procs -> Process]
    BY <1>1, <1>2, HoldType DEF DrainBegin, Working
  <2> QED BY <1>1, <1>2, <2>1 DEF DrainBegin, TypeOK
<1>3. CASE DrainStep
  <2>1. proc[Drainer].pc # "idle" /\ queue > 0
    BY <1>3 DEF DrainStep, DrainSkip, DrainSend, DrainFails, DrainSave, At, TInv, HoldsRow
  <2>2. Draining \in Tasks /\ Draining.live \in Content
    BY <1>1, <2>1, CopyType DEF Draining, Tasks
  <2>3. CASE DrainSkip
    BY <1>1, <2>1, <2>3, ResolveType, FinishType DEF DrainSkip, TypeOK
  <2>4. CASE DrainSend
    <3>1. /\ issue' \in Issues
          /\ held' \in [text : SUBSET Texts, state : SUBSET {"open", "closed"}, assignees : SUBSET Assignees]
      BY <1>1, <2>2, <2>4, LandsType DEF DrainSend
    <3>2. queue' \in Nat /\ dead' \in Nat /\ tries' \in 0 .. MaxAttempts - 1
      BY <1>1, <2>1, <2>4, ResolveType DEF DrainSend, TypeOK
    <3>3. proc' \in [Procs -> Process]
      BY <1>1, <2>2, <2>4, FinishType, HoldType DEF DrainSend, Working
    <3>4. [task EXCEPT !.sync = "conflict"] \in Tasks
      BY <1>1 DEF Tasks, SyncStates
    <3>5. task' \in Tasks /\ history' \subseteq Snaps
      BY <1>1, <2>4, <3>4, SaveType DEF DrainSend, TypeOK, Snaps
    <3> QED BY <1>1, <2>4, <3>1, <3>2, <3>3, <3>5 DEF DrainSend, TypeOK, Snaps
  <2>5. CASE DrainFails
    <3>1. /\ issue' \in Issues
          /\ held' \in [text : SUBSET Texts, state : SUBSET {"open", "closed"}, assignees : SUBSET Assignees]
      BY <1>1, <2>2, <2>5, LandsType DEF DrainFails, Fails, TypeOK
    <3>2. queue' \in Nat /\ dead' \in Nat /\ tries' \in 0 .. MaxAttempts - 1
      BY <1>1, <2>1, <2>5, ResolveType DEF DrainFails
    <3>3. proc' \in [Procs -> Process]
      BY <1>1, <2>5, FinishType DEF DrainFails
    <3>4. spent' \in [{"commands", "remote", "rebaselines", "rollbacks", "faults"} -> Nat]
      BY <1>1, <2>5, SpendType DEF DrainFails, Fails
    <3> QED BY <1>1, <2>5, <3>1, <3>2, <3>3, <3>4 DEF DrainFails, TypeOK
  <2>6. CASE DrainSave
    <3>1. ConfirmSyncedFields(Draining, DrainPatch) \in Tasks
      BY <2>2, ConfirmType
    <3>2. queue' \in Nat /\ dead' \in Nat /\ tries' \in 0 .. MaxAttempts - 1
      BY <1>1, <2>1, <2>6, ResolveType DEF DrainSave
    <3> QED BY <1>1, <2>6, <3>1, <3>2, SaveTypeStep DEF DrainSave, TypeOK
  <2> QED BY <1>3, <2>3, <2>4, <2>5, <2>6 DEF DrainStep
<1> QED BY <1>2, <1>3

(* Restart, poller and remote edits.                                        *)
LEMMA DaemonTypeStep ==
  ASSUME TypeOK, Restart \/ PollFetch \/ PollCompare \/ MarkRemoteDirty \/ RemoteEdit
  PROVE  TypeOK'
<1>1. Poller \in Procs /\ task \in Tasks
  BY DEF Procs, TypeOK
<1>2. CASE Restart
  <2>1. proc' \in [Procs -> Process]
    BY <1>2 DEF Restart, TypeOK, Process
  <2>2. queue' \in Nat
    BY <1>2 DEF Restart, TypeOK
  <2> QED BY <1>2, <2>1, <2>2, SpendType DEF Restart, TypeOK
<1>3. CASE PollFetch
  <2>1. proc' \in [Procs -> Process]
    BY <1>1, <1>3, FetchType DEF PollFetch, Fetching
  <2> QED BY <1>3, <2>1 DEF PollFetch, TypeOK
<1>4. CASE PollCompare
  <2>1. proc' \in [Procs -> Process]
    BY <1>1, <1>4, FinishType, HoldType DEF PollCompare, Working
  <2> QED BY <1>4, <2>1 DEF PollCompare, TypeOK
<1>5. CASE MarkRemoteDirty
  <2>1. [task EXCEPT !.sync = "dirty_remote"] \in Tasks
    BY <1>1 DEF Tasks, SyncStates
  <2> QED BY <1>1, <1>5, <2>1, FinishType DEF MarkRemoteDirty, TypeOK
<1>6. CASE RemoteEdit
  <2>1. issue' \in Issues /\ Hear(issue')
    BY <1>6 DEF RemoteEdit
  <2>2. held' \in [text : SUBSET Texts, state : SUBSET {"open", "closed"}, assignees : SUBSET Assignees]
    BY <2>1, HearType
  <2> QED BY <1>6, <2>1, <2>2, SpendType DEF RemoteEdit, TypeOK
<1> QED BY <1>2, <1>3, <1>4, <1>5, <1>6

(* A command starts.                                                        *)
Begins(c) == \/ EditBegin(c) \/ RollbackBegin(c) \/ RepairBegin(c)
             \/ PushBegin(c) \/ ForcePushBegin(c) \/ PullBegin(c)

(* Each of them is an instance of Command.                                  *)
LEMMA BeginsIsCommand ==
  ASSUME NEW c \in Clis, Begins(c)
  PROVE  \E pc \in Working, budget \in SUBSET {"rollbacks", "rebaselines"} : Command(c, pc, budget)
BY DEF Begins, EditBegin, RollbackBegin, RepairBegin, PushBegin, ForcePushBegin, PullBegin, Working

(* All steps of a command.                                                  *)
LEMMA CliTypeStep ==
  ASSUME TypeOK, NEW c \in Clis, Begins(c) \/ CliStep(c)
  PROVE  TypeOK'
<1>1. CASE Begins(c)
  BY <1>1, BeginsIsCommand, CommandTypeStep
<1>2. CASE Repair(c)
  <2>1. c \in Procs /\ proc[c].copy \in Tasks
    BY <1>2, CopyType DEF Repair, At, Procs
  <2> QED BY <1>2, <2>1, SaveTypeStep DEF Repair, TypeOK
<1> QED BY <1>1, <1>2, EditTypeStep, RollbackTypeStep, PushTypeStep, PullTypeStep DEF CliStep

(* An rl command leaves the other processes where they are.                 *)
LEMMA CliMovesItself ==
  ASSUME TypeOK, NEW c \in Clis, Begins(c) \/ CliStep(c), NEW q \in Procs, q # c
  PROVE  proc'[q] = proc[q]
<1>1. proc \in [Procs -> Process] /\ c \in Procs
  BY DEF TypeOK, Procs
<1>2. ASSUME NEW r, proc' = [proc EXCEPT ![c] = r]
      PROVE  proc'[q] = proc[q]
  BY <1>1, <1>2
<1>3. ASSUME NEW pc, NEW t, Finish(c) \/ Hold(c, pc, t) \/ Fetch(c, pc, t)
      PROVE  proc'[q] = proc[q]
  BY <1>2, <1>3 DEF Finish, Hold, Fetch
<1>4. CASE Begins(c)
  BY <1>3, <1>4, BeginsIsCommand DEF Command
<1>5. CASE CliStep(c)
  <2>1. CASE Update(c) \/ TransitionMirror(c) \/ Rollback(c) \/ Repair(c) \/ PushFails(c) \/ PushSave(c)
             \/ PullDone(c) \/ PullRelations(c)
    <3>1. Finish(c)
      BY <2>1 DEF Update, TransitionMirror, SaveEdit, Rollback, Repair, PushFails, PushSave, PullDone, PullRelations
    <3> QED BY <1>2, <3>1 DEF Finish
  <2>2. CASE PushSend(c) \/ PullFetch(c) \/ PullApply(c)
    BY <1>3, <2>2 DEF PushSend, PullFetch, PullApply
  <2> QED BY <1>5, <2>1, <2>2 DEF CliStep
<1> QED BY <1>4, <1>5

(* No other process takes the drainer's row.                                *)
LEMMA HoldsRowStep ==
  ASSUME TInv, TypeOK', [Next]_vars
  PROVE  HoldsRow'
<1>0. TypeOK /\ Drainer \in Procs /\ queue \in Nat /\ proc \in [Procs -> Process]
  BY DEF TInv, TypeOK, Procs
<1>2. ASSUME NEW c \in Clis, Begins(c) \/ CliStep(c)
      PROVE  HoldsRow'
  <2>1. proc'[Drainer] = proc[Drainer]
    BY <1>0, <1>2, TaskSyncAssumption, CliMovesItself
  <2>2. queue' = queue \/ queue' = queue + 1
    <3>1. CASE Begins(c)
      <4>1. PICK pc \in Working, budget \in SUBSET {"rollbacks", "rebaselines"} : Command(c, pc, budget)
        BY <3>1, BeginsIsCommand
      <4> QED BY <4>1 DEF Command
    <3>2. ASSUME NEW t, NEW rows \in {0, 1}, SaveEdit(c, t, rows)
          PROVE  queue' = queue \/ queue' = queue + 1
      BY <1>0, <3>2 DEF SaveEdit
    <3>3. CASE Update(c)
      BY <3>2, <3>3 DEF Update
    <3>4. CASE TransitionMirror(c)
      BY <3>2, <3>4 DEF TransitionMirror
    <3>5. CASE Rollback(c) \/ Repair(c) \/ PushSend(c) \/ PushFails(c) \/ PushSave(c)
               \/ PullFetch(c) \/ PullApply(c) \/ PullDone(c) \/ PullRelations(c)
      BY <3>5 DEF Rollback, Repair, PushSend, PushFails, PushSave, PullFetch, PullApply, PullDone, PullRelations
    <3> QED BY <1>2, <3>1, <3>3, <3>4, <3>5 DEF CliStep
  <2> QED BY <1>0, <2>1, <2>2 DEF TInv, HoldsRow
<1>3. CASE DrainBegin
  BY <1>0, <1>3 DEF DrainBegin, HoldsRow
<1>4. CASE DrainStep
  <2>1. Finish(Drainer) \/ (Hold(Drainer, "sent", Draining) /\ queue' = queue)
    BY <1>4 DEF DrainStep, DrainSkip, DrainSend, DrainFails, DrainSave
  <2>2. queue > 0
    BY <1>4 DEF DrainStep, DrainSkip, DrainSend, DrainFails, DrainSave, At, TInv, HoldsRow
  <2> QED BY <1>0, <2>1, <2>2 DEF Finish, Hold, Rest, HoldsRow
<1>5. CASE Restart
  BY <1>0, <1>5, TaskSyncAssumption DEF Restart, Rest, HoldsRow
<1>6. CASE PollFetch \/ PollCompare \/ MarkRemoteDirty \/ RemoteEdit \/ UNCHANGED vars
  <2>1. proc'[Drainer] = proc[Drainer] /\ queue' = queue
    BY <1>0, <1>6 DEF PollFetch, PollCompare, MarkRemoteDirty, RemoteEdit, vars, Fetch, Hold, Finish,
                      Drainer, Poller
  <2> QED BY <2>1 DEF TInv, HoldsRow
<1> QED BY <1>2, <1>3, <1>4, <1>5, <1>6 DEF Next, Begins

(* Types hold initially                                                     *)
LEMMA TInvInit == Init => TInv
<1> SUFFICES ASSUME Init PROVE TInv
  OBVIOUS
<1>1. PICK i \in Issues :
        LET live == [text |-> i.text, assignees |-> i.assignees,
                     status |-> IF i.state = "closed" THEN "completed" ELSE "open"]
            t == [sync |-> "synced", live |-> live, base |-> live]
        IN  /\ issue = i /\ task = t
            /\ proc = [p \in Procs |-> Rest]
            /\ history = Snapshots({t})
            /\ held = [text |-> {i.text}, state |-> {i.state}, assignees |-> {i.assignees}]
            /\ queue = 0 /\ tries = 0 /\ dead = 0 /\ marked = "no"
            /\ spent = [b \in {"commands", "remote", "rebaselines", "rollbacks", "faults"} |-> 0]
  BY DEF Init
<1>2. i.text \in Texts /\ i.state \in {"open", "closed"} /\ i.assignees \in Assignees
  BY DEF Issues
<1>3. task \in Tasks
  BY <1>1, <1>2 DEF Tasks, Content, SyncStates, Lifecycle
<1>4. history \subseteq Snaps
  BY <1>1, <1>3 DEF Snapshots, Snaps, Tasks
<1>5. held \in [text : SUBSET Texts, state : SUBSET {"open", "closed"}, assignees : SUBSET Assignees]
  BY <1>1, <1>2
<1>6. tries \in 0 .. MaxAttempts - 1
  BY <1>1, TaskSyncAssumption
<1>7. proc \in [Procs -> Process] /\ HoldsRow
  BY <1>1 DEF Process, Rest, HoldsRow, Procs
<1> QED BY <1>1, <1>3, <1>4, <1>5, <1>6, <1>7 DEF TInv, TypeOK, Snaps

(* and are kept by every step.                                              *)
LEMMA TInvStep == TInv /\ [Next]_vars => TInv'
<1> SUFFICES ASSUME TInv, [Next]_vars PROVE TInv'
  OBVIOUS
<1>1. CASE UNCHANGED vars
  BY <1>1 DEF vars, TInv, TypeOK, HoldsRow
<1>2. CASE Next
  <2>1. TypeOK'
    BY <1>2, CliTypeStep, DrainTypeStep, DaemonTypeStep DEF Next, Begins, TInv
  <2> QED BY <2>1, HoldsRowStep DEF TInv
<1> QED BY <1>1, <1>2

(* Every variable of a mirrored task keeps its type, and a retried row its  *)
(* bound, whatever commands, faults, restarts and remote edits happen.      *)
THEOREM TaskSyncTypeOK == Spec => []TypeOK
<1>1. TInv => TypeOK
  BY DEF TInv
<1> QED BY <1>1, TInvInit, TInvStep, PTL DEF Spec

-----------------------------------------------------------------------------
(* The baseline is remote content.  Copies outlive the state they were read *)
(* from, so the induction needs the same of every copy's baseline, and that *)
(* a process between PATCH and save holds content that the issue has had.   *)

RemoteIn(h, c) == c.text \in h.text /\ RemoteState(c.status) \in h.state /\ c.assignees \in h.assignees
HeardIn(h, i)  == i.text \in h.text /\ i.state \in h.state /\ i.assignees \in h.assignees

Backed(h, r) ==
  r.pc # "idle" => /\ r.pc # "repair"
                   /\ RemoteIn(h, r.copy.base)
                   /\ r.pc \in {"sent", "sent_all"} => RemoteIn(h, r.copy.live)
                   /\ r.pc \in Fetching => HeardIn(h, r.page)

BInv ==
  /\ TInv
  /\ HeardIn(held, issue)
  /\ RemoteIn(held, task.base)
  /\ \A p \in Procs : Backed(held, proc[p])

Grows(h, k) == h.text \subseteq k.text /\ h.state \subseteq k.state /\ h.assignees \subseteq k.assignees

(* Having been remote is monotone in what the issue has had.                *)
LEMMA RemoteInGrows ==
  ASSUME NEW h, NEW k, Grows(h, k), NEW c, NEW i, NEW r
  PROVE  /\ RemoteIn(h, c) => RemoteIn(k, c)
         /\ HeardIn(h, i) => HeardIn(k, i)
         /\ Backed(h, r) => Backed(k, r)
<1>1. ASSUME NEW x PROVE RemoteIn(h, x) => RemoteIn(k, x)
  BY DEF RemoteIn, Grows
<1>2. ASSUME NEW x PROVE HeardIn(h, x) => HeardIn(k, x)
  BY DEF HeardIn, Grows
<1> QED BY <1>1, <1>2 DEF Backed

(* Hearing an issue extends it.                                             *)
LEMMA HearGrows ==
  ASSUME TypeOK, NEW i \in Issues, Hear(i)
  PROVE  Grows(held, held') /\ HeardIn(held', i)
<1>1. held \in [text : SUBSET Texts, state : SUBSET {"open", "closed"}, assignees : SUBSET Assignees]
  BY DEF TypeOK
<1> QED BY <1>1 DEF Hear, Grows, HeardIn

(* So does, trivially, leaving it alone.                                    *)
LEMMA SameHeld ==
  ASSUME held' = held
  PROVE  Grows(held, held')
BY DEF Grows

(* A PATCH with every field in which live differs from base puts all of     *)
(* live on the issue, or leaves what base had been before.                  *)
LEMMA LandsBacks ==
  ASSUME TypeOK, DropsAssignees = FALSE, NEW live \in Content, NEW base \in Content, NEW patch,
         RemoteIn(held, base), \A f \in Fields : f \notin patch => live[f] = base[f],
         Lands(live, patch)
  PROVE  Grows(held, held') /\ HeardIn(held', issue') /\ RemoteIn(held', live)
<1>1. issue' = Patched(issue, live, patch)
  BY DEF Lands
<1>2. issue' \in Issues /\ Hear(issue')
  BY LandsType DEF Lands
<1>3. Grows(held, held') /\ HeardIn(held', issue')
  BY <1>2, HearGrows
<1>4. RemoteIn(held', base)
  BY <1>3, RemoteInGrows
<1>5. live.text \in held'.text
  BY <1>1, <1>3, <1>4 DEF Patched, HeardIn, RemoteIn, Fields
<1>6. RemoteState(live.status) \in held'.state
  BY <1>1, <1>3, <1>4 DEF Patched, HeardIn, RemoteIn, Fields
<1>7. live.assignees \in held'.assignees
  BY <1>1, <1>3, <1>4 DEF Patched, HeardIn, RemoteIn, Fields
<1> QED BY <1>3, <1>5, <1>6, <1>7 DEF RemoteIn

(* Fields outside the diff equal the baseline.                              *)
LEMMA DiffCovers ==
  ASSUME NEW t \in Tasks, NEW f \in Fields, f \notin DiffAgainstBaseline(t)
  PROVE  t.live[f] = t.base[f]
BY DEF DiffAgainstBaseline

(* The processes after a step of p that leaves it at r.                     *)
LEMMA BackedMove ==
  ASSUME TypeOK, \A q \in Procs : Backed(held, proc[q]), Grows(held, held'),
         NEW p \in Procs, NEW r, proc' = [proc EXCEPT ![p] = r], Backed(held', r)
  PROVE  \A q \in Procs : Backed(held', proc'[q])
<1> SUFFICES ASSUME NEW q \in Procs PROVE Backed(held', proc'[q])
  OBVIOUS
<1>1. proc \in [Procs -> Process]
  BY DEF TypeOK
<1>2. CASE q = p
  BY <1>1, <1>2
<1>3. CASE q # p
  <2>1. proc'[q] = proc[q]
    BY <1>1, <1>3
  <2> QED BY <2>1, RemoteInGrows
<1> QED BY <1>2, <1>3

(* A finished process claims nothing.                                       *)
LEMMA BackedFinish ==
  ASSUME BInv, Grows(held, held'), NEW p \in Procs, Finish(p)
  PROVE  \A q \in Procs : Backed(held', proc'[q])
<1>1. Backed(held', Rest)
  BY DEF Backed, Rest
<1> QED BY <1>1, BackedMove DEF Finish, BInv, TInv

(* A process that starts on a backed copy is backed.                        *)
LEMMA BackedHold ==
  ASSUME BInv, Grows(held, held'), NEW p \in Procs, NEW pc \in Working \ {"repair"}, NEW t,
         Hold(p, pc, t), RemoteIn(held', t.base),
         pc \in {"sent", "sent_all"} => RemoteIn(held', t.live)
  PROVE  \A q \in Procs : Backed(held', proc'[q])
<1>1. Backed(held', [pc |-> pc, copy |-> t])
  BY DEF Backed, Working, Fetching
<1> QED BY <1>1, BackedMove DEF Hold, BInv, TInv

(* So is one that fetched a page the issue had.                             *)
LEMMA BackedFetch ==
  ASSUME BInv, held' = held, NEW p \in Procs, NEW pc \in Fetching, NEW t,
         Fetch(p, pc, t), RemoteIn(held, t.base)
  PROVE  \A q \in Procs : Backed(held', proc'[q])
<1>1. Backed(held', [pc |-> pc, copy |-> t, page |-> issue])
  BY DEF Backed, Fetching, BInv
<1> QED BY <1>1, SameHeld, BackedMove DEF Fetch, BInv, TInv

(* A save that does not align keeps the baseline; one that does takes the   *)
(* content of the copy.                                                     *)
LEMMA SaveBase ==
  ASSUME NEW t, NEW source, Save(t, source)
  PROVE  task'.base = IF source \in Baseline THEN t.live ELSE task.base
BY DEF Save

(* The excepted saves cannot happen when their bound is 0.                  *)
LEMMA NoRebaseline ==
  ASSUME TypeOK, MaxRebaselines = 0, NEW bs, "rebaselines" \in bs
  PROVE  ~Spend(bs)
<1>1. spent["rebaselines"] \in Nat
  BY DEF TypeOK
<1>2. ~Within("rebaselines")
  BY <1>1 DEF Within
<1> QED BY <1>2 DEF Spend

(* Starting a command.                                                      *)
LEMMA BackedBegin ==
  ASSUME BInv, MaxRebaselines = 0, NEW c \in Clis, Begins(c)
  PROVE  BInv' \/ ~TInv'
<1>1. c \in Procs /\ TypeOK
  BY DEF Procs, BInv, TInv
<1>2. ~RepairBegin(c)
  BY <1>1, NoRebaseline DEF RepairBegin, Command
<1>3. PICK pc \in Working \ {"repair", "sent", "sent_all"}, budget \in SUBSET {"rollbacks", "rebaselines"} : Command(c, pc, budget)
  BY <1>2 DEF Begins, EditBegin, RollbackBegin, PushBegin, ForcePushBegin, PullBegin, Working
<1>4. held' = held /\ task' = task /\ issue' = issue /\ Hold(c, pc, task)
  BY <1>3 DEF Command
<1>5. \A q \in Procs : Backed(held', proc'[q])
  BY <1>1, <1>3, <1>4, SameHeld, BackedHold DEF BInv
<1> QED BY <1>4, <1>5 DEF BInv

(* The steps of a push.                                                     *)
LEMMA BackedPush ==
  ASSUME BInv, DropsAssignees = FALSE, NEW c \in Clis, PushSend(c) \/ PushFails(c) \/ PushSave(c)
  PROVE  BInv' \/ ~TInv'
<1> DEFINE t == proc[c].copy
<1>1. c \in Procs /\ TypeOK /\ Backed(held, proc[c]) /\ proc[c].pc # "idle"
  BY DEF Procs, BInv, TInv, PushSend, PushFails, PushSave, At
<1>2. t \in Tasks /\ t.live \in Content /\ t.base \in Content /\ RemoteIn(held, t.base)
  BY <1>1, CopyType DEF Tasks, Backed
<1>3. \A f \in Fields : f \notin PatchOf(c) => t.live[f] = t.base[f]
  BY <1>2, DiffCovers DEF PatchOf
<1> HIDE DEF t
<1>4. ASSUME Lands(t.live, PatchOf(c))
      PROVE  Grows(held, held') /\ HeardIn(held', issue') /\ RemoteIn(held', t.live)
  BY <1>1, <1>2, <1>3, <1>4, LandsBacks
<1>5. CASE PushSend(c)
  <2>1. Grows(held, held') /\ HeardIn(held', issue') /\ RemoteIn(held', t.live)
    <3>1. CASE PatchOf(c) = {}
      <4>1. held' = held /\ issue' = issue
        BY <1>5, <3>1 DEF PushSend
      <4>2. RemoteIn(held, t.live)
        BY <1>2, <1>3, <3>1 DEF RemoteIn, Fields
      <4> QED BY <4>1, <4>2, SameHeld DEF BInv
    <3>2. CASE PatchOf(c) # {}
      BY <1>4, <1>5, <3>2 DEF PushSend, t
    <3> QED BY <3>1, <3>2
  <2>2. RemoteIn(held', t.base) /\ RemoteIn(held', task.base)
    BY <1>2, <2>1, RemoteInGrows DEF BInv
  <2>3. (IF At(c, "push") THEN "sent" ELSE "sent_all") \in Working \ {"repair"}
    BY DEF Working
  <2>4. Hold(c, IF At(c, "push") THEN "sent" ELSE "sent_all", t)
    BY <1>5 DEF PushSend, t
  <2>5. \A q \in Procs : Backed(held', proc'[q])
    BY <1>1, <2>1, <2>2, <2>3, <2>4, BackedHold
  <2> QED BY <1>5, <2>1, <2>2, <2>5 DEF BInv, PushSend
<1>6. CASE PushFails(c)
  <2>1. Grows(held, held') /\ HeardIn(held', issue')
    BY <1>4, <1>6, SameHeld DEF PushFails, Fails, BInv, t
  <2>2. RemoteIn(held', task.base)
    BY <2>1, RemoteInGrows DEF BInv
  <2>3. \A q \in Procs : Backed(held', proc'[q])
    BY <1>1, <1>6, <2>1, BackedFinish DEF PushFails
  <2> QED BY <1>6, <2>1, <2>2, <2>3 DEF BInv, PushFails
<1>7. CASE PushSave(c)
  <2>1. RemoteIn(held, t.live)
    BY <1>1, <1>7 DEF PushSave, At, Backed, t
  <2>2. task'.base = t.live
    <3>1. Save(ConfirmSyncedFields(t, PatchOf(c)), "push")
      BY <1>7 DEF PushSave, t
    <3>2. ConfirmSyncedFields(t, PatchOf(c)).live = t.live
      BY <1>2, ConfirmType
    <3> QED BY <3>1, <3>2, SaveBase DEF Baseline
  <2>3. held' = held /\ issue' = issue /\ Finish(c)
    BY <1>7 DEF PushSave
  <2>4. \A q \in Procs : Backed(held', proc'[q])
    BY <1>1, <2>3, SameHeld, BackedFinish
  <2> QED BY <2>1, <2>2, <2>3, <2>4 DEF BInv
<1> QED BY <1>5, <1>6, <1>7

(* Edits, rollbacks and lifecycle verbs keep the baseline.                  *)
LEMMA BackedEdit ==
  ASSUME BInv, MaxRebaselines = 0, NEW c \in Clis,
         Update(c) \/ TransitionMirror(c) \/ Rollback(c) \/ Repair(c) \/ PullDone(c) \/ PullRelations(c)
  PROVE  BInv' \/ ~TInv'
<1>1. c \in Procs /\ TypeOK /\ Backed(held, proc[c])
  BY DEF Procs, BInv, TInv
<1>2. ~Repair(c)
  BY <1>1 DEF Repair, At, Backed
<1>3. ~PullRelations(c)
  BY <1>1, NoRebaseline DEF PullRelations
<1>4. ASSUME NEW t, NEW rows, SaveEdit(c, t, rows)
      PROVE  task'.base = task.base /\ held' = held /\ issue' = issue /\ Finish(c)
  BY <1>4, SaveBase DEF SaveEdit, Baseline
<1>5. task'.base = task.base /\ held' = held /\ issue' = issue /\ Finish(c)
  <2>1. CASE Update(c)
    BY <1>4, <2>1 DEF Update
  <2>2. CASE TransitionMirror(c)
    BY <1>4, <2>2 DEF TransitionMirror
  <2>3. CASE Rollback(c)
    <3>1. ASSUME NEW t, Save(t, "rollback")
          PROVE  task'.base = task.base
      BY <3>1, SaveBase DEF Baseline
    <3>2. task'.base = task.base
      BY <2>3, <3>1 DEF Rollback
    <3> QED BY <2>3, <3>2 DEF Rollback
  <2>4. CASE PullDone(c)
    BY <2>4 DEF PullDone
  <2> QED BY <1>2, <1>3, <2>1, <2>2, <2>3, <2>4
<1>6. \A q \in Procs : Backed(held', proc'[q])
  BY <1>1, <1>5, SameHeld, BackedFinish
<1> QED BY <1>5, <1>6 DEF BInv

(* The steps of a pull.                                                     *)
LEMMA BackedPull ==
  ASSUME BInv, NEW c \in Clis, PullFetch(c) \/ PullApply(c)
  PROVE  BInv' \/ ~TInv'
<1> DEFINE t == proc[c].copy
<1>1. c \in Procs /\ TypeOK /\ Backed(held, proc[c]) /\ proc[c].pc # "idle"
  BY DEF Procs, BInv, TInv, PullFetch, PullApply, At
<1>2. t \in Tasks /\ t.live \in Content /\ RemoteIn(held, t.base)
  BY <1>1, CopyType DEF Tasks, Backed
<1> HIDE DEF t
<1>3. held' = held /\ issue' = issue /\ Grows(held, held')
  BY SameHeld DEF PullFetch, PullApply
<1>4. CASE PullFetch(c)
  <2>1. (IF At(c, "pull") THEN "fetched" ELSE "force_fetched") \in Fetching
    BY DEF Fetching
  <2>2. \A q \in Procs : Backed(held', proc'[q])
    BY <1>1, <1>2, <1>3, <1>4, <2>1, BackedFetch DEF PullFetch, t
  <2> QED BY <1>3, <1>4, <2>2 DEF BInv, PullFetch
<1>5. CASE PullApply(c)
  <2> DEFINE i == proc[c].page
             live == CopyInbound(t.live, i)
  <2>1. i \in Issues /\ HeardIn(held, i)
    BY <1>1, <1>5, PageType DEF PullApply, At, Fetching, Backed
  <2>2. RemoteIn(held, live)
    <3>1. i.state \in {"open", "closed"} /\ t.live.status \in Lifecycle
      BY <1>2, <2>1 DEF Issues, Content
    <3> QED BY <2>1, <3>1, RemoteStateRoundTrip DEF HeardIn, RemoteIn, CopyInbound
  <2>3. Adopted(t, i).base = live
    BY DEF Adopted
  <2> HIDE DEF live
  <2>4. CASE Decision(c) = "pull"
    <3>1. task' = Adopted(t, i) /\ Hold(c, "relations", Adopted(t, i))
      BY <1>5, <2>4 DEF PullApply, t
    <3>2. \A q \in Procs : Backed(held', proc'[q])
      BY <1>1, <1>3, <2>2, <2>3, <3>1, BackedHold DEF Working
    <3> QED BY <1>3, <2>2, <2>3, <3>1, <3>2 DEF BInv
  <2>5. CASE Decision(c) # "pull"
    <3>1. task' = task /\ Hold(c, "relations", t)
      BY <1>5, <2>5 DEF PullApply, t
    <3>2. \A q \in Procs : Backed(held', proc'[q])
      BY <1>1, <1>2, <1>3, <3>1, BackedHold DEF Working
    <3> QED BY <1>3, <3>1, <3>2 DEF BInv
  <2> QED BY <2>4, <2>5
<1> QED BY <1>4, <1>5

(* The steps of the drainer.                                                *)
LEMMA BackedDrain ==
  ASSUME BInv, DropsAssignees = FALSE, DrainBegin \/ DrainStep
  PROVE  BInv' \/ ~TInv'
<1>1. Drainer \in Procs /\ TypeOK /\ Backed(held, proc[Drainer])
  BY DEF Procs, BInv, TInv
<1>2. CASE DrainBegin
  <2>1. held' = held /\ issue' = issue /\ task' = task /\ Hold(Drainer, "drain", task)
    BY <1>2 DEF DrainBegin
  <2>2. \A q \in Procs : Backed(held', proc'[q])
    BY <1>1, <2>1, SameHeld, BackedHold DEF Working, BInv
  <2> QED BY <2>1, <2>2 DEF BInv
<1>3. CASE DrainStep
  <2>1. proc[Drainer].pc # "idle"
    BY <1>3 DEF DrainStep, DrainSkip, DrainSend, DrainFails, DrainSave, At
  <2>2. /\ Draining \in Tasks /\ Draining.live \in Content /\ Draining.base \in Content
        /\ RemoteIn(held, Draining.base)
    BY <1>1, <2>1, CopyType DEF Draining, Tasks, Backed
  <2>3. \A f \in Fields : f \notin DrainPatch => Draining.live[f] = Draining.base[f]
    BY <2>2, DiffCovers DEF DrainPatch
  <2>4. ASSUME Lands(Draining.live, DrainPatch)
        PROVE  Grows(held, held') /\ HeardIn(held', issue') /\ RemoteIn(held', Draining.live)
    BY <1>1, <2>2, <2>3, <2>4, LandsBacks
  <2>5. CASE DrainSkip
    <3>1. held' = held /\ issue' = issue /\ task' = task /\ Finish(Drainer)
      BY <2>5 DEF DrainSkip
    <3>2. \A q \in Procs : Backed(held', proc'[q])
      BY <1>1, <3>1, SameHeld, BackedFinish
    <3> QED BY <3>1, <3>2 DEF BInv
  <2>6. CASE DrainSend
    <3>1. Grows(held, held') /\ HeardIn(held', issue') /\ RemoteIn(held', Draining.live)
      BY <2>4, <2>6 DEF DrainSend
    <3>2. RemoteIn(held', Draining.base) /\ RemoteIn(held', task.base)
      BY <2>2, <3>1, RemoteInGrows DEF BInv
    <3>3. task'.base = task.base
      BY <2>6, SaveBase DEF DrainSend, Baseline
    <3>4. Finish(Drainer) \/ Hold(Drainer, "sent", Draining)
      BY <2>6 DEF DrainSend
    <3>5. \A q \in Procs : Backed(held', proc'[q])
      BY <1>1, <3>1, <3>2, <3>4, BackedFinish, BackedHold DEF Working
    <3> QED BY <3>1, <3>2, <3>3, <3>5 DEF BInv
  <2>7. CASE DrainFails
    <3>1. Grows(held, held') /\ HeardIn(held', issue')
      BY <2>4, <2>7, SameHeld DEF DrainFails, Fails, BInv
    <3>2. RemoteIn(held', task.base) /\ task' = task
      BY <2>7, <3>1, RemoteInGrows DEF BInv, DrainFails
    <3>3. \A q \in Procs : Backed(held', proc'[q])
      BY <1>1, <2>7, <3>1, BackedFinish DEF DrainFails
    <3> QED BY <3>1, <3>2, <3>3 DEF BInv
  <2>8. CASE DrainSave
    <3>1. RemoteIn(held, Draining.live)
      <4>1. CASE At(Drainer, "sent")
        BY <1>1, <4>1 DEF At, Backed, Draining
      <4>2. CASE DrainPatch = {}
        BY <2>2, <2>3, <4>2 DEF RemoteIn, Fields
      <4> QED BY <2>8, <4>1, <4>2 DEF DrainSave
    <3>2. task'.base = Draining.live
      <4>1. Save(ConfirmSyncedFields(Draining, DrainPatch), "push")
        BY <2>8 DEF DrainSave
      <4>2. ConfirmSyncedFields(Draining, DrainPatch).live = Draining.live
        BY <2>2, ConfirmType
      <4> QED BY <4>1, <4>2, SaveBase DEF Baseline
    <3>3. held' = held /\ issue' = issue /\ Finish(Drainer)
      BY <2>8 DEF DrainSave
    <3>4. \A q \in Procs : Backed(held', proc'[q])
      BY <1>1, <3>3, SameHeld, BackedFinish
    <3> QED BY <3>1, <3>2, <3>3, <3>4 DEF BInv
  <2> QED BY <1>3, <2>5, <2>6, <2>7, <2>8 DEF DrainStep
<1> QED BY <1>2, <1>3

(* Restart, poller and remote edits.                                        *)
LEMMA BackedDaemon ==
  ASSUME BInv, Restart \/ PollFetch \/ PollCompare \/ MarkRemoteDirty \/ RemoteEdit
  PROVE  BInv' \/ ~TInv'
<1>1. Poller \in Procs /\ TypeOK /\ proc \in [Procs -> Process]
  BY DEF Procs, BInv, TInv, TypeOK
<1>2. CASE Restart
  <2>1. held' = held /\ issue' = issue /\ task' = task
    BY <1>2 DEF Restart
  <2>2. \A q \in Procs : Backed(held', proc'[q])
    BY <1>2, <2>1 DEF Restart, BInv, Backed, Rest
  <2> QED BY <2>1, <2>2 DEF BInv
<1>3. CASE PollFetch
  <2>1. held' = held /\ issue' = issue /\ task' = task /\ Fetch(Poller, "poll", task)
    BY <1>3 DEF PollFetch
  <2>2. \A q \in Procs : Backed(held', proc'[q])
    BY <1>1, <2>1, BackedFetch DEF BInv, Fetching
  <2> QED BY <2>1, <2>2 DEF BInv
<1>4. CASE PollCompare \/ MarkRemoteDirty
  <2>1. held' = held /\ issue' = issue /\ task'.base = task.base
    BY <1>4 DEF PollCompare, MarkRemoteDirty, BInv, TInv, TypeOK, Tasks
  <2>2. Finish(Poller) \/ Hold(Poller, "mark", task)
    BY <1>4 DEF PollCompare, MarkRemoteDirty
  <2>3. \A q \in Procs : Backed(held', proc'[q])
    BY <1>1, <2>1, <2>2, SameHeld, BackedFinish, BackedHold DEF BInv, Working
  <2> QED BY <2>1, <2>3 DEF BInv
<1>5. CASE RemoteEdit
  <2>1. issue' \in Issues /\ Hear(issue') /\ task' = task /\ proc' = proc
    BY <1>5 DEF RemoteEdit
  <2>2. Grows(held, held') /\ HeardIn(held', issue')
    BY <1>1, <2>1, HearGrows
  <2>3. RemoteIn(held', task.base) /\ \A q \in Procs : Backed(held', proc[q])
    BY <2>2, RemoteInGrows DEF BInv
  <2> QED BY <2>1, <2>2, <2>3 DEF BInv
<1> QED BY <1>2, <1>3, <1>4, <1>5

(* Every step keeps the baseline remote                                     *)
LEMMA BInvStep ==
  ASSUME MaxRebaselines = 0, DropsAssignees = FALSE, BInv, [Next]_vars
  PROVE  BInv'
<1>1. TInv'
  BY TInvStep DEF BInv
<1>2. CASE UNCHANGED vars
  BY <1>1, <1>2 DEF vars, BInv
<1>3. ASSUME NEW c \in Clis, Begins(c) \/ CliStep(c)
      PROVE  BInv'
  BY <1>1, <1>3, BackedBegin, BackedEdit, BackedPush, BackedPull DEF CliStep
<1>4. CASE DrainBegin \/ DrainStep
  BY <1>1, <1>4, BackedDrain
<1>5. CASE Restart \/ PollFetch \/ PollCompare \/ MarkRemoteDirty \/ RemoteEdit
  BY <1>1, <1>5, BackedDaemon
<1> QED BY <1>2, <1>3, <1>4, <1>5 DEF Next, Begins

(* and so does the imported task.                                           *)
LEMMA BInvInit == Init => BInv
<1> SUFFICES ASSUME Init PROVE BInv
  OBVIOUS
<1>1. TInv
  BY TInvInit
<1>2. HeardIn(held, issue) /\ RemoteIn(held, task.base)
  BY DEF Init, HeardIn, RemoteIn, RemoteState, Issues
<1>3. \A p \in Procs : Backed(held, proc[p])
  BY DEF Init, Backed, Rest
<1> QED BY <1>1, <1>2, <1>3 DEF BInv

(* With overlapping commands, drainer, poller, lost answers and restarts:   *)
(* if GitHub honours a PATCH and no save marks as aligned what was not      *)
(* aligned, every field of the baseline is a value the issue has had.       *)
THEOREM TaskSyncBaseline ==
  ASSUME MaxRebaselines = 0, DropsAssignees = FALSE
  PROVE  Spec => []BaselineWasRemote
<1>1. BInv => BaselineWasRemote
  BY DEF BInv, BaselineWasRemote, WasRemote, RemoteIn
<1>2. BInv /\ [Next]_vars => BInv'
  BY BInvStep
<1> QED BY <1>1, <1>2, BInvInit, PTL DEF Spec

-----------------------------------------------------------------------------
(* Clean means aligned, when operations do not overlap.  A save that is not *)
(* an alignment keeps the stored baseline but decides the sync state by the *)
(* copy's; the two agree because nobody else is at work.                    *)

Alone == \A p, q \in Procs : p # q => proc[p].pc = "idle" \/ proc[q].pc = "idle"
Fresh == \A c \in Clis : proc[c].pc \in {"edit", "rollback"} => proc[c].copy.base = task.base

AInv == TInv /\ CleanMeansAligned /\ Alone /\ Fresh

(* The process p has taken a step in which the others were at rest.         *)
LEMMA AloneStep ==
  ASSUME TypeOK, NEW p \in Procs, \A q \in Procs : q # p => proc[q].pc = "idle" /\ proc'[q] = proc[q],
         p \in Clis => (proc'[p].pc \in {"edit", "rollback"} => proc'[p].copy.base = task'.base)
  PROVE  Alone' /\ Fresh'
<1>1. \A q \in Procs : q # p => proc'[q].pc = "idle"
  OBVIOUS
<1>2. Alone'
  BY <1>1 DEF Alone
<1>3. ASSUME NEW c \in Clis, proc'[c].pc \in {"edit", "rollback"}
      PROVE  proc'[c].copy.base = task'.base
  <2>1. c \in Procs /\ c = p
    BY <1>1, <1>3 DEF Procs
  <2> QED BY <1>3, <2>1
<1> QED BY <1>2, <1>3 DEF Fresh

(* Whoever begins or is at work finds the others at rest.                   *)
LEMMA OthersRest ==
  ASSUME Overlap = FALSE, Alone, NEW p \in Procs, MayBegin(p) \/ proc[p].pc # "idle"
  PROVE  \A q \in Procs : q # p => proc[q].pc = "idle"
BY DEF Alone, MayBegin

(* A step moves one process.                                                *)
LEMMA MovesItself ==
  ASSUME TypeOK, NEW p \in Procs, NEW r, proc' = [proc EXCEPT ![p] = r]
  PROVE  proc'[p] = r /\ \A q \in Procs : q # p => proc'[q] = proc[q]
BY DEF TypeOK

(* An aligning save is aligned; any other one is if the verdict was reached *)
(* against the stored baseline.                                             *)
LEMMA SaveAligned ==
  ASSUME NEW t, NEW source, Save(t, source),
         source \in Baseline \/ (t.sync \in {"synced", "dirty_remote"} => t.live = task.base)
  PROVE  CleanMeansAligned'
BY DEF Save, CleanMeansAligned

(* Starting a command.                                                      *)
LEMMA AlignedBegin ==
  ASSUME Overlap = FALSE, AInv, NEW c \in Clis, Begins(c)
  PROVE  CleanMeansAligned' /\ Alone' /\ Fresh'
<1>1. c \in Procs /\ TypeOK
  BY DEF Procs, AInv, TInv
<1>2. PICK pc \in Working, budget \in SUBSET {"rollbacks", "rebaselines"} : Command(c, pc, budget)
  BY BeginsIsCommand
<1> DEFINE r == [pc |-> pc, copy |-> task]
<1>3. MayBegin(c) /\ task' = task /\ proc' = [proc EXCEPT ![c] = r]
  BY <1>2 DEF Command, Hold
<1>4. proc'[c].copy.base = task'.base
  <2>1. r.copy = task
    OBVIOUS
  <2> HIDE DEF r
  <2>2. proc'[c] = r
    BY <1>1, <1>3, MovesItself
  <2> QED BY <1>3, <2>1, <2>2
<1>5. \A q \in Procs : q # c => proc[q].pc = "idle" /\ proc'[q] = proc[q]
  BY <1>1, <1>3, OthersRest, CliMovesItself DEF AInv
<1>6. Alone' /\ Fresh'
  BY <1>1, <1>4, <1>5, AloneStep
<1> QED BY <1>3, <1>6 DEF AInv, CleanMeansAligned

(* A step of a command ends elsewhere than where an edit or rollback is.    *)
LEMMA CliStepLeaves ==
  ASSUME TypeOK, NEW c \in Clis, CliStep(c)
  PROVE  proc[c].pc # "idle" /\ proc'[c].pc \notin {"edit", "rollback"}
<1>1. c \in Procs
  BY DEF Procs
<1>2. ASSUME NEW pc \in {"sent", "sent_all", "fetched", "force_fetched", "relations"}, NEW t,
             Finish(c) \/ Hold(c, pc, t) \/ Fetch(c, pc, t)
      PROVE  proc'[c].pc \notin {"edit", "rollback"}
  BY <1>1, <1>2, MovesItself DEF Finish, Hold, Fetch, Rest
<1>3. proc[c].pc # "idle"
  BY DEF CliStep, Update, TransitionMirror, Rollback, Repair, PushSend, PushFails, PushSave,
         PullFetch, PullApply, PullDone, PullRelations, At
<1>4. CASE Update(c) \/ TransitionMirror(c) \/ Rollback(c) \/ Repair(c) \/ PushFails(c) \/ PushSave(c)
           \/ PullDone(c) \/ PullRelations(c)
  <2>1. Finish(c)
    BY <1>4 DEF Update, TransitionMirror, SaveEdit, Rollback, Repair, PushFails, PushSave, PullDone, PullRelations
  <2> QED BY <1>2, <1>3, <2>1
<1>5. CASE PushSend(c)
  <2>1. (IF At(c, "push") THEN "sent" ELSE "sent_all") \in {"sent", "sent_all"}
    OBVIOUS
  <2> QED BY <1>2, <1>3, <1>5, <2>1 DEF PushSend
<1>6. CASE PullFetch(c)
  <2>1. (IF At(c, "pull") THEN "fetched" ELSE "force_fetched") \in {"fetched", "force_fetched"}
    OBVIOUS
  <2> QED BY <1>2, <1>3, <1>6, <2>1 DEF PullFetch
<1>7. CASE PullApply(c)
  BY <1>2, <1>3, <1>7 DEF PullApply
<1> QED BY <1>4, <1>5, <1>6, <1>7 DEF CliStep

(* Edits and rollbacks reconcile what they save.                            *)
LEMMA AlignedEdit ==
  ASSUME AInv, NEW c \in Clis, Update(c) \/ TransitionMirror(c) \/ Rollback(c)
  PROVE  CleanMeansAligned'
<1> DEFINE t == proc[c].copy
<1>1. t \in Tasks /\ t.sync \in SyncStates /\ t.base = task.base /\ TypeOK
  BY CopyType DEF Update, TransitionMirror, Rollback, At, Procs, Tasks, AInv, TInv, Fresh
<1> HIDE DEF t
<1>2. ASSUME NEW sync \in SyncStates, NEW live, NEW source,
             Save([t EXCEPT !.live = live,
                            !.sync = ReconcileDirtyAgainstBaseline(sync, live, t.base)], source)
      PROVE  CleanMeansAligned'
  <2> DEFINE verdict == ReconcileDirtyAgainstBaseline(sync, live, t.base)
             new == [t EXCEPT !.live = live, !.sync = verdict]
  <2>1. verdict \in {"synced", "dirty_remote"} => live = task.base
    BY <1>1, <1>2, ReconcileAligns
  <2> HIDE DEF verdict
  <2>2. new.sync = verdict /\ new.live = live
    BY <1>1 DEF Tasks
  <2> QED BY <1>2, <2>1, <2>2, SaveAligned DEF verdict
<1>3. CASE Update(c)
  <2>1. PICK text \in Texts, assignees \in Assignees :
          LET half == [t.live EXCEPT !.text = text]
              live == [half EXCEPT !.assignees = assignees]
              sync == ReconcileDirtyAgainstBaseline(
                        ReconcileDirtyAgainstBaseline(t.sync, half, t.base), live, t.base)
          IN  SaveEdit(c, [t EXCEPT !.live = live, !.sync = sync], IF sync # t.sync THEN 1 ELSE 0)
    BY <1>3 DEF Update, t
  <2>2. ReconcileDirtyAgainstBaseline(t.sync, [t.live EXCEPT !.text = text], t.base) \in SyncStates
    BY <1>1, ReconcileType
  <2> QED BY <1>2, <2>1, <2>2 DEF SaveEdit
<1>4. CASE TransitionMirror(c)
  <2>1. PICK s \in {"completed", "not_planned", "reopened"} :
          LET live == [t.live EXCEPT !.status = s]
          IN  IF s = t.live.status
                THEN Finish(c) /\ UNCHANGED <<task, issue, queue, tries, dead, history, spent, held, marked>>
                ELSE SaveEdit(c, [t EXCEPT !.live = live,
                                           !.sync = ReconcileDirtyAgainstBaseline(t.sync, live, t.base)], 1)
    BY <1>4 DEF TransitionMirror, t
  <2>2. CASE s = t.live.status
    BY <2>1, <2>2 DEF AInv, CleanMeansAligned
  <2>3. CASE s # t.live.status
    BY <1>1, <1>2, <2>1, <2>3 DEF SaveEdit
  <2> QED BY <2>2, <2>3
<1>5. CASE Rollback(c)
  <2>1. PICK s \in history :
          Save([t EXCEPT !.live = s.live,
                         !.sync = ReconcileDirtyAgainstBaseline(s.sync, s.live, t.base)], "rollback")
    BY <1>5 DEF Rollback, t
  <2>2. s.sync \in SyncStates
    BY <1>1, <2>1 DEF TypeOK
  <2> QED BY <1>2, <2>1, <2>2
<1> QED BY <1>3, <1>4, <1>5

(* The steps of a command.                                                  *)
LEMMA AlignedCli ==
  ASSUME Overlap = FALSE, AInv, NEW c \in Clis, CliStep(c)
  PROVE  CleanMeansAligned' /\ Alone' /\ Fresh'
<1>1. c \in Procs /\ TypeOK
  BY DEF Procs, AInv, TInv
<1>2. proc[c].pc # "idle" /\ proc'[c].pc \notin {"edit", "rollback"}
  BY <1>1, CliStepLeaves
<1>3. \A q \in Procs : q # c => proc[q].pc = "idle" /\ proc'[q] = proc[q]
  BY <1>1, <1>2, OthersRest, CliMovesItself DEF AInv
<1>4. Alone' /\ Fresh'
  BY <1>1, <1>2, <1>3, AloneStep
<1>5. CleanMeansAligned'
  <2>1. CASE Update(c) \/ TransitionMirror(c) \/ Rollback(c)
    BY <2>1, AlignedEdit
  <2>2. CASE Repair(c)
    BY <2>2, SaveAligned DEF Repair, Baseline
  <2>3. CASE PushSave(c)
    BY <2>3, SaveAligned DEF PushSave, Baseline
  <2>4. CASE PullRelations(c)
    BY <2>4, SaveAligned DEF PullRelations, Baseline
  <2>5. CASE PullApply(c)
    BY <2>5 DEF PullApply, Adopted, AInv, CleanMeansAligned
  <2>6. CASE PushSend(c) \/ PushFails(c) \/ PullFetch(c) \/ PullDone(c)
    BY <2>6 DEF PushSend, PushFails, PullFetch, PullDone, AInv, CleanMeansAligned
  <2> QED BY <2>1, <2>2, <2>3, <2>4, <2>5, <2>6 DEF CliStep
<1> QED BY <1>4, <1>5

(* The steps of drainer and poller.                                         *)
LEMMA AlignedDaemon ==
  ASSUME Overlap = FALSE, AInv, NEW p \in {Drainer, Poller},
         p = Drainer => DrainBegin \/ DrainStep,
         p = Poller => PollFetch \/ PollCompare \/ MarkRemoteDirty
  PROVE  CleanMeansAligned' /\ Alone' /\ Fresh'
<1>1. p \in Procs /\ TypeOK /\ p \notin Clis /\ Drainer # Poller
  BY TaskSyncAssumption DEF Procs, AInv, TInv, Drainer, Poller
<1>2. MayBegin(p) \/ proc[p].pc # "idle"
  BY <1>1 DEF DrainBegin, DrainStep, DrainSkip, DrainSend, DrainFails, DrainSave,
              PollFetch, PollCompare, MarkRemoteDirty, At
<1>3. \A q \in Procs : q # p => proc'[q] = proc[q]
  <2>1. ASSUME NEW pc, NEW t, Finish(p) \/ Hold(p, pc, t) \/ Fetch(p, pc, t)
        PROVE  \A q \in Procs : q # p => proc'[q] = proc[q]
    BY <1>1, <2>1, MovesItself DEF Finish, Hold, Fetch
  <2> QED BY <2>1 DEF DrainBegin, DrainStep, DrainSkip, DrainSend, DrainFails, DrainSave,
                      PollFetch, PollCompare, MarkRemoteDirty
<1>4. Alone' /\ Fresh'
  BY <1>1, <1>2, <1>3, OthersRest, AloneStep DEF AInv
<1>5. CleanMeansAligned'
  <2>1. task \in Tasks
    BY <1>1 DEF TypeOK
  <2>2. CASE DrainSave
    BY <2>2, SaveAligned DEF DrainSave, Baseline
  <2>3. CASE DrainSend
    <3>1. CASE Save([task EXCEPT !.sync = "conflict"], "local_edit")
      <4>1. [task EXCEPT !.sync = "conflict"].sync = "conflict"
        BY <2>1 DEF Tasks
      <4> QED BY <3>1, <4>1, SaveAligned
    <3>2. CASE task' = task
      BY <3>2 DEF AInv, CleanMeansAligned
    <3> QED BY <2>3, <3>1, <3>2 DEF DrainSend
  <2>4. CASE MarkRemoteDirty
    BY <2>1, <2>4 DEF MarkRemoteDirty, AInv, CleanMeansAligned, Tasks
  <2>5. CASE DrainBegin \/ DrainSkip \/ DrainFails \/ PollFetch \/ PollCompare
    BY <2>5 DEF DrainBegin, DrainSkip, DrainFails, PollFetch, PollCompare, AInv, CleanMeansAligned
  <2> QED BY <1>1, <2>2, <2>3, <2>4, <2>5 DEF DrainStep
<1> QED BY <1>4, <1>5

(* Every step keeps clean tasks aligned                                     *)
LEMMA AInvStep ==
  ASSUME Overlap = FALSE, AInv, [Next]_vars
  PROVE  AInv'
<1>1. TInv' /\ TypeOK
  BY TInvStep DEF AInv, TInv
<1>2. CASE UNCHANGED vars
  BY <1>1, <1>2 DEF vars, AInv, CleanMeansAligned, Alone, Fresh
<1>3. ASSUME NEW c \in Clis, Begins(c) \/ CliStep(c)
      PROVE  AInv'
  BY <1>1, <1>3, AlignedBegin, AlignedCli DEF AInv
<1>4. CASE DrainBegin \/ DrainStep
  BY <1>1, <1>4, AlignedDaemon DEF AInv, Drainer, Poller
<1>5. CASE PollFetch \/ PollCompare \/ MarkRemoteDirty
  BY <1>1, <1>5, AlignedDaemon DEF AInv, Drainer, Poller
<1>6. CASE RemoteEdit
  BY <1>1, <1>6 DEF RemoteEdit, AInv, CleanMeansAligned, Alone, Fresh
<1>7. CASE Restart
  <2>1. task' = task /\ \A p \in Procs : proc'[p] = IF p \in Clis THEN proc[p] ELSE Rest
    BY <1>7 DEF Restart
  <2>2. Alone' /\ Fresh'
    BY <2>1 DEF AInv, Alone, Fresh, Rest, Procs
  <2> QED BY <1>1, <2>1, <2>2 DEF AInv, CleanMeansAligned
<1> QED BY <1>2, <1>3, <1>4, <1>5, <1>6, <1>7 DEF Next, Begins

(* and the imported task is.                                                *)
LEMMA AInvInit == Init => AInv
<1> SUFFICES ASSUME Init PROVE AInv
  OBVIOUS
<1>1. Alone /\ Fresh
  BY DEF Init, Alone, Fresh, Rest, Procs
<1>2. CleanMeansAligned
  BY DEF Init, CleanMeansAligned
<1> QED BY <1>1, <1>2, TInvInit DEF AInv

(* When operations on a task do not overlap, a Synced or DirtyRemote task   *)
(* has exactly its baseline's content, after any sequence of edits, pushes, *)
(* pulls, repairs, rollbacks, failures and restarts.                        *)
THEOREM TaskSyncCleanMeansAligned ==
  ASSUME Overlap = FALSE
  PROVE  Spec => []CleanMeansAligned
<1>1. AInv => CleanMeansAligned
  BY DEF AInv
<1>2. AInv /\ [Next]_vars => AInv'
  BY AInvStep
<1> QED BY <1>1, <1>2, AInvInit, PTL DEF Spec

-----------------------------------------------------------------------------
(* Without overlap a process works on the row as it is stored, so that what *)
(* it decides from its copy is true of the task.                            *)

(* A process p at r when the row is t.                                      *)
Works(p, r, t, used) ==
  r.pc # "idle" =>
    /\ r.copy = t
    /\ r.pc = "rollback" => used.rollbacks > 0
    /\ r.pc \in {"push", "sent"} => IF p = Drainer THEN Confirmable(t) ELSE t.sync = "dirty_local"

Current == \A p \in Procs : Works(p, proc[p], task, spent)

(* OwedPush during an operation too.                                        *)
Owed == task.sync = "dirty_local" /\ spent.rollbacks = 0 => queue > 0 \/ dead > 0

(* Marked drift is not pushed: it has no row before it is a conflict.       *)
Surfaced ==
  marked = "yes" /\ spent.rollbacks = 0 =>
    /\ task.sync \in {"dirty_remote", "conflict"}
    /\ task.sync = "dirty_remote" => queue = 0

CInv == AInv /\ Current /\ Owed /\ Surfaced

(* Nobody edited the issue and no call failed.                              *)
Quiet(used) == used.remote = 0 /\ used.faults = 0

OneSided(sync) == sync \in {"synced", "dirty_local"}


(* Differing content and a diff that is not empty are the same.             *)
LEMMA DiffIsDifference ==
  ASSUME NEW t \in Tasks
  PROVE  DiffAgainstBaseline(t) = {} <=> t.live = t.base
<1>1. /\ t.live \in [text : Texts, status : Lifecycle, assignees : Assignees]
      /\ t.base \in [text : Texts, status : Lifecycle, assignees : Assignees]
  BY DEF Tasks, Content
<1>2. ASSUME DiffAgainstBaseline(t) = {} PROVE t.live = t.base
  <2>1. t.live.text = t.base.text /\ t.live.status = t.base.status /\ t.live.assignees = t.base.assignees
    BY <1>2 DEF DiffAgainstBaseline, Fields
  <2>2. QED
    BY <1>1, <2>1
<1>3. QED
  BY <1>2 DEF DiffAgainstBaseline

(* A push confirms all of the content when it sent whatever differed.       *)
LEMMA ConfirmAll ==
  ASSUME NEW t \in Tasks, NEW patch, DiffAgainstBaseline(t) \subseteq patch
  PROVE  ConfirmSyncedFields(t, patch) = [sync |-> "synced", live |-> t.live, base |-> t.live]
<1> DEFINE merged == [f \in Fields |-> IF f \in patch THEN t.live[f] ELSE t.base[f]]
           base == [text |-> merged["text"], status |-> merged["status"], assignees |-> merged["assignees"]]
<1>1. t.live \in [text : Texts, status : Lifecycle, assignees : Assignees]
  BY DEF Tasks, Content
<1>2. \A f \in Fields : merged[f] = t.live[f]
  BY DiffCovers
<1>3. base = [text |-> t.live["text"], status |-> t.live["status"], assignees |-> t.live["assignees"]]
  BY <1>2 DEF Fields
<1>4. base = t.live
  BY <1>1, <1>3
<1>5. ConfirmSyncedFields(t, patch)
        = [t EXCEPT !.base = base, !.sync = ReconcileDirtyAgainstBaseline("synced", t.live, base)]
  BY DEF ConfirmSyncedFields
<1> HIDE DEF base
<1>6. ReconcileDirtyAgainstBaseline("synced", t.live, base) = "synced"
  BY <1>4 DEF ReconcileDirtyAgainstBaseline
<1>7. QED
  BY <1>4, <1>5, <1>6 DEF Tasks

(* What the reconciler makes of a sync state.                               *)
LEMMA ReconcileTells ==
  ASSUME NEW sync \in SyncStates, NEW live, NEW base, NEW new,
         new = ReconcileDirtyAgainstBaseline(sync, live, base)
  PROVE  /\ new \in SyncStates
         /\ OneSided(sync) <=> OneSided(new)
         /\ new = "dirty_remote" => sync = "dirty_remote" /\ live = base
         /\ new = "dirty_local" => live # base
BY DEF ReconcileDirtyAgainstBaseline, SyncStates, OneSided

(* A process at work has the stored row in hand.                            *)
LEMMA InHand ==
  ASSUME CInv, NEW p \in Procs, proc[p].pc # "idle"
  PROVE  proc[p].copy = task /\ task \in Tasks /\ Works(p, proc[p], task, spent)
BY DEF CInv, AInv, TInv, TypeOK, Current, Works

(* A step that leaves p at r, while the others rest.                        *)
LEMMA CurrentStep ==
  ASSUME CInv, NEW p \in Procs, NEW r, proc' = [proc EXCEPT ![p] = r],
         \A q \in Procs : q # p => proc[q].pc = "idle", Works(p, r, task', spent')
  PROVE  Current'
<1>1. proc'[p] = r /\ \A q \in Procs : q # p => proc'[q] = proc[q]
  BY MovesItself DEF CInv, AInv, TInv
<1>2. ASSUME NEW q \in Procs PROVE Works(q, proc'[q], task', spent')
  BY <1>1 DEF Works
<1>3. QED
  BY <1>2 DEF Current

(* A process that is done claims nothing,                                   *)
LEMMA CurrentFinish ==
  ASSUME CInv, NEW p \in Procs, \A q \in Procs : q # p => proc[q].pc = "idle", Finish(p)
  PROVE  Current'
<1>1. Works(p, Rest, task', spent')
  BY DEF Works, Rest
<1>2. QED
  BY <1>1, CurrentStep DEF Finish

(* and one that goes on with the row as it is, almost nothing.              *)
LEMMA CurrentHold ==
  ASSUME CInv, NEW p \in Procs, \A q \in Procs : q # p => proc[q].pc = "idle", NEW pc,
         Hold(p, pc, task') \/ Fetch(p, pc, task'),
         pc = "rollback" => spent'.rollbacks > 0,
         pc \in {"push", "sent"} => IF p = Drainer THEN Confirmable(task') ELSE task'.sync = "dirty_local"
  PROVE  Current'
<1>1. CASE Hold(p, pc, task')
  <2>1. Works(p, [pc |-> pc, copy |-> task'], task', spent')
    BY DEF Works
  <2>2. QED
    BY <1>1, <2>1, CurrentStep DEF Hold
<1>2. CASE Fetch(p, pc, task')
  <2>1. Works(p, [pc |-> pc, copy |-> task', page |-> issue], task', spent')
    BY DEF Works
  <2>2. QED
    BY <1>2, <2>1, CurrentStep DEF Fetch
<1>3. QED
  BY <1>1, <1>2

(* Rollbacks are only counted up.                                           *)
LEMMA SpendGrows ==
  ASSUME TypeOK, NEW bs, Spend(bs)
  PROVE  /\ \A b \in {"commands", "remote", "rebaselines", "rollbacks", "faults"} :
              spent'[b] = IF b \in bs THEN spent[b] + 1 ELSE spent[b]
         /\ \A b \in {"commands", "remote", "rebaselines", "rollbacks", "faults"} : spent[b] \in Nat
BY DEF TypeOK, Spend

(* What an edit or a lifecycle verb does to the row: an UpdateRemote is     *)
(* owed whenever the sync state moves, a conflict is reached from the       *)
(* remote side only, and what is saved as dirty differs.                    *)
LEMMA EditOutcome ==
  ASSUME CInv, NEW c \in Clis, Update(c) \/ TransitionMirror(c)
  PROVE  /\ Finish(c) /\ UNCHANGED <<issue, dead, spent, marked>>
         /\ queue' \in {queue, queue + 1}
         /\ queue' = queue => task'.sync = task.sync
         /\ task'.base = task.base
         /\ OneSided(task.sync) <=> OneSided(task'.sync)
         /\ task'.sync = "dirty_remote" => queue' = queue /\ task.sync = "dirty_remote"
         /\ task' = task \/ (task'.sync = "dirty_local" => task'.live # task'.base)
         /\ history' \subseteq history \cup {[sync |-> task'.sync, live |-> task'.live]}
<1>1. /\ c \in Procs /\ task \in Tasks /\ proc[c].copy = task /\ task.sync \in SyncStates
      /\ queue \in Nat /\ task.live \in Content
  BY InHand DEF Update, TransitionMirror, At, Procs, CInv, AInv, TInv, TypeOK, Tasks
<1>2. ASSUME NEW live, NEW sync, NEW rows \in {0, 1},
             SaveEdit(c, [task EXCEPT !.live = live, !.sync = sync], rows)
      PROVE  /\ Finish(c) /\ UNCHANGED <<issue, dead, spent, marked>>
             /\ queue' = queue + rows /\ task'.base = task.base
             /\ task'.sync = sync /\ task'.live = live
             /\ history' \subseteq history \cup {[sync |-> task'.sync, live |-> task'.live]}
  <2> DEFINE t == [task EXCEPT !.live = live, !.sync = sync]
  <2>1. t.sync = sync /\ t.live = live
    BY <1>1 DEF Tasks
  <2> HIDE DEF t
  <2>2. Save(t, "local_edit")
    BY <1>2 DEF SaveEdit, t
  <2>3. task' = [sync |-> t.sync, live |-> t.live, base |-> task.base]
    BY <2>2 DEF Save, Baseline
  <2>4. history' \subseteq history \cup {[sync |-> t.sync, live |-> t.live]}
    BY <2>2 DEF Save, Snapshots
  <2>5. QED
    BY <1>2, <2>1, <2>3, <2>4 DEF SaveEdit
<1>3. CASE Update(c)
  <2>1. PICK text \in Texts, assignees \in Assignees :
          LET half == [task.live EXCEPT !.text = text]
              live == [half EXCEPT !.assignees = assignees]
              sync == ReconcileDirtyAgainstBaseline(
                        ReconcileDirtyAgainstBaseline(task.sync, half, task.base), live, task.base)
          IN  SaveEdit(c, [task EXCEPT !.live = live, !.sync = sync], IF sync # task.sync THEN 1 ELSE 0)
    BY <1>1, <1>3 DEF Update
  <2> DEFINE half == [task.live EXCEPT !.text = text]
             live == [half EXCEPT !.assignees = assignees]
             mid  == ReconcileDirtyAgainstBaseline(task.sync, half, task.base)
             sync == ReconcileDirtyAgainstBaseline(mid, live, task.base)
             rows == IF sync # task.sync THEN 1 ELSE 0
  <2>2. SaveEdit(c, [task EXCEPT !.live = live, !.sync = sync], rows)
    BY <2>1
  <2>3. /\ mid \in SyncStates
        /\ OneSided(task.sync) <=> OneSided(mid)
        /\ mid = "dirty_remote" => task.sync = "dirty_remote"
    <3> HIDE DEF half
    <3>1. QED
      BY <1>1, ReconcileTells DEF mid
  <2>4. /\ OneSided(mid) <=> OneSided(sync)
        /\ sync = "dirty_remote" => mid = "dirty_remote"
        /\ sync = "dirty_local" => live # task.base
    <3> HIDE DEF live, mid
    <3>1. QED
      BY <2>3, ReconcileTells DEF sync
  <2>5. rows \in {0, 1}
    OBVIOUS
  <2> HIDE DEF live, sync
  <2>6. /\ Finish(c) /\ UNCHANGED <<issue, dead, spent, marked>>
        /\ queue' = queue + rows /\ task'.base = task.base
        /\ task'.sync = sync /\ task'.live = live
        /\ history' \subseteq history \cup {[sync |-> task'.sync, live |-> task'.live]}
    <3> HIDE DEF rows
    <3>1. QED
      BY <1>2, <2>2, <2>5
  <2>7. rows = 0 <=> sync = task.sync
    OBVIOUS
  <2> HIDE DEF rows, mid
  <2>8. QED
    BY <1>1, <2>3, <2>4, <2>5, <2>6, <2>7
<1>4. CASE TransitionMirror(c)
  <2>1. PICK s \in {"completed", "not_planned", "reopened"} :
          LET live == [task.live EXCEPT !.status = s]
          IN  IF s = task.live.status
                THEN Finish(c) /\ UNCHANGED <<task, issue, queue, tries, dead, history, spent, held, marked>>
                ELSE SaveEdit(c, [task EXCEPT !.live = live,
                                              !.sync = ReconcileDirtyAgainstBaseline(task.sync, live, task.base)], 1)
    BY <1>1, <1>4 DEF TransitionMirror
  <2>2. CASE s = task.live.status
    <3>1. Finish(c) /\ UNCHANGED <<task, issue, queue, dead, history, spent, marked>>
      BY <2>1, <2>2
    <3>2. QED
      BY <3>1
  <2>3. CASE s # task.live.status
    <3> DEFINE live == [task.live EXCEPT !.status = s]
               sync == ReconcileDirtyAgainstBaseline(task.sync, live, task.base)
    <3>1. SaveEdit(c, [task EXCEPT !.live = live, !.sync = sync], 1)
      BY <2>1, <2>3
    <3>2. live # task.live
      BY <1>1, <2>3 DEF Content
    <3>3. /\ OneSided(task.sync) <=> OneSided(sync)
          /\ sync = "dirty_remote" => task.sync = "dirty_remote" /\ live = task.base
          /\ sync = "dirty_local" => live # task.base
      <4> HIDE DEF live
      <4>1. QED
        BY <1>1, ReconcileTells DEF sync
    <3>4. sync # "dirty_remote"
      BY <3>2, <3>3 DEF CInv, AInv, CleanMeansAligned
    <3> HIDE DEF live, sync
    <3>5. /\ Finish(c) /\ UNCHANGED <<issue, dead, spent, marked>>
          /\ queue' = queue + 1 /\ task'.base = task.base
          /\ task'.sync = sync /\ task'.live = live
          /\ history' \subseteq history \cup {[sync |-> task'.sync, live |-> task'.live]}
      BY <1>2, <3>1
    <3>6. QED
      BY <1>1, <3>3, <3>4, <3>5
  <2>4. QED
    BY <2>2, <2>3
<1>5. QED
  BY <1>3, <1>4

(* Rollbacks are counted, never forgotten.                                  *)
LEMMA RollbacksStay ==
  ASSUME TypeOK, (\E bs : Spend(bs)) \/ UNCHANGED spent
  PROVE  /\ spent.rollbacks \in Nat /\ spent'.rollbacks \in Nat
         /\ spent'.rollbacks = 0 => spent.rollbacks = 0
         /\ Quiet(spent') => Quiet(spent)
<1>1. /\ spent["rollbacks"] \in Nat /\ spent["remote"] \in Nat /\ spent["faults"] \in Nat
  BY DEF TypeOK
<1>2. CASE \E bs : Spend(bs)
  BY <1>1, <1>2, SpendGrows DEF Quiet
<1>3. QED
  BY <1>1, <1>2 DEF Quiet

(* A step that lets the sync state, the mark and the rows alone.            *)
LEMMA SameSync ==
  ASSUME CInv, task'.sync = task.sync, UNCHANGED <<queue, marked>>, dead' = dead \/ dead' = dead + 1,
         (\E bs : Spend(bs)) \/ UNCHANGED spent
  PROVE  Owed' /\ Surfaced'
<1>1. TypeOK /\ dead \in Nat
  BY DEF CInv, AInv, TInv, TypeOK
<1>2. spent'.rollbacks = 0 => spent.rollbacks = 0
  BY <1>1, RollbacksStay
<1>3. QED
  BY <1>1, <1>2 DEF CInv, Owed, Surfaced

(* A row that is synced owes nothing, and is not marked: its drift was      *)
(* resolved, or it never drifted.                                           *)
LEMMA NowSynced ==
  ASSUME CInv, task'.sync = "synced",
         \/ marked' = "no"
         \/ marked' = marked /\ spent' = spent /\ (marked = "yes" /\ spent.rollbacks = 0 => FALSE)
  PROVE  Owed' /\ Surfaced'
BY DEF Owed, Surfaced

(* Starting a command.                                                      *)
LEMMA CurrentBegin ==
  ASSUME Overlap = FALSE, CInv, NEW c \in Clis, Begins(c)
  PROVE  Current' /\ Owed' /\ Surfaced'
<1>1. c \in Procs /\ TypeOK /\ c # Drainer
  BY TaskSyncAssumption DEF Procs, CInv, AInv, TInv
<1>2. PICK pc \in Working, budget \in SUBSET {"rollbacks", "rebaselines"} :
        /\ Command(c, pc, budget)
        /\ pc = "rollback" => "rollbacks" \in budget
        /\ pc = "push" => task.sync = "dirty_local"
        /\ pc # "sent"
  BY DEF Begins, EditBegin, RollbackBegin, RepairBegin, PushBegin, ForcePushBegin, PullBegin, Working
<1>3. /\ Hold(c, pc, task') /\ MayBegin(c) /\ Spend({"commands"} \cup budget)
      /\ UNCHANGED <<task, queue, dead, marked>>
  BY <1>2 DEF Command
<1>4. \A q \in Procs : q # c => proc[q].pc = "idle"
  BY <1>1, <1>3, OthersRest DEF CInv, AInv
<1>5. pc = "rollback" => spent'.rollbacks > 0
  <2>1. ASSUME pc = "rollback" PROVE spent'["rollbacks"] = spent["rollbacks"] + 1 /\ spent["rollbacks"] \in Nat
    BY <1>1, <1>2, <1>3, <2>1, SpendGrows
  <2>2. QED
    BY <2>1
<1>6. Current'
  BY <1>1, <1>2, <1>3, <1>4, <1>5, CurrentHold
<1>7. QED
  BY <1>3, <1>6, SameSync

(* A command at work finds the others at rest.                              *)
LEMMA AtWork ==
  ASSUME Overlap = FALSE, CInv, NEW p \in Procs, proc[p].pc # "idle"
  PROVE  \A q \in Procs : q # p => proc[q].pc = "idle"
BY OthersRest DEF CInv, AInv

(* Edits, lifecycle verbs, rollbacks and repairs.                           *)
LEMMA CurrentEdit ==
  ASSUME Overlap = FALSE, CInv, NEW c \in Clis,
         Update(c) \/ TransitionMirror(c) \/ Rollback(c) \/ Repair(c)
  PROVE  Current' /\ Owed' /\ Surfaced'
<1>1. /\ c \in Procs /\ TypeOK /\ proc[c].pc # "idle" /\ queue \in Nat /\ dead \in Nat
      /\ task \in Tasks /\ task.sync \in SyncStates
  BY DEF Procs, CInv, AInv, TInv, TypeOK, Tasks, Update, TransitionMirror, Rollback, Repair, At
<1>2. Finish(c)
  BY EditOutcome DEF Rollback, Repair
<1>3. Current'
  BY <1>1, <1>2, AtWork, CurrentFinish
<1>4. CASE Update(c) \/ TransitionMirror(c)
  <2>1. /\ UNCHANGED <<dead, spent, marked>>
        /\ queue' \in {queue, queue + 1}
        /\ queue' = queue => task'.sync = task.sync
        /\ OneSided(task.sync) <=> OneSided(task'.sync)
        /\ task'.sync = "dirty_remote" => queue' = queue /\ task.sync = "dirty_remote"
    BY <1>4, EditOutcome
  <2>2. task'.sync \in SyncStates
    <3>1. TInv'
      BY <1>4, TInvStep DEF Next, CliStep, CInv, AInv
    <3>2. QED
      BY <3>1 DEF TInv, TypeOK, Tasks
  <2>3. Owed'
    BY <1>1, <2>1 DEF CInv, Owed
  <2>4. Surfaced'
    BY <1>1, <2>1, <2>2 DEF CInv, Surfaced, OneSided, SyncStates
  <2>5. QED
    BY <1>3, <2>3, <2>4
<1>5. CASE Rollback(c)
  <2>1. spent.rollbacks > 0 /\ spent' = spent
    BY <1>1, <1>5, InHand DEF Works, Rollback, At
  <2>2. QED
    BY <1>3, <2>1, RollbacksStay DEF Owed, Surfaced
<1>6. CASE Repair(c)
  <2>1. task'.sync = task.sync /\ UNCHANGED <<queue, dead, marked, spent>>
    BY <1>1, <1>6, InHand DEF Repair, Save
  <2>2. QED
    BY <1>3, <2>1, SameSync
<1>7. QED
  BY <1>4, <1>5, <1>6

(* The steps of a push: it confirms a row that was dirty_local, or resolves *)
(* a conflict and with it the mark.                                         *)
LEMMA CurrentPush ==
  ASSUME Overlap = FALSE, CInv, NEW c \in Clis, PushSend(c) \/ PushFails(c) \/ PushSave(c)
  PROVE  Current' /\ Owed' /\ Surfaced'
<1>1. /\ c \in Procs /\ c # Drainer /\ TypeOK /\ proc[c].pc # "idle"
      /\ task \in Tasks /\ proc[c].copy = task
  BY TaskSyncAssumption, InHand DEF Procs, CInv, AInv, TInv, PushSend, PushFails, PushSave, At
<1>2. \A q \in Procs : q # c => proc[q].pc = "idle"
  BY <1>1, AtWork
<1>3. At(c, "push") \/ At(c, "sent") => task.sync = "dirty_local"
  BY <1>1, InHand DEF Works, At
<1>4. CASE PushSend(c)
  <2> DEFINE pc == IF At(c, "push") THEN "sent" ELSE "sent_all"
  <2>1. Hold(c, pc, task') /\ UNCHANGED <<task, queue, dead, spent, marked>>
    BY <1>1, <1>4 DEF PushSend
  <2>2. pc = "sent" => task'.sync = "dirty_local"
    BY <1>3, <2>1
  <2>3. pc \notin {"rollback", "push"}
    OBVIOUS
  <2> HIDE DEF pc
  <2>4. Current'
    BY <1>1, <1>2, <2>1, <2>2, <2>3, CurrentHold
  <2>5. QED
    BY <2>1, <2>4, SameSync
<1>5. CASE PushFails(c)
  <2>1. Finish(c) /\ UNCHANGED <<task, queue, dead, marked>> /\ Spend({"faults"})
    BY <1>5 DEF PushFails, Fails
  <2>2. QED
    BY <1>1, <1>2, <2>1, CurrentFinish, SameSync
<1>6. CASE PushSave(c)
  <2>1. DiffAgainstBaseline(task) \subseteq PatchOf(c)
    BY <1>1 DEF PatchOf, DiffAgainstBaseline
  <2>2. task'.sync = "synced" /\ Finish(c) /\ spent' = spent
    BY <1>1, <1>6, <2>1, ConfirmAll DEF PushSave, Save
  <2>3. CASE At(c, "sent_all")
    BY <1>1, <1>2, <1>6, <2>2, <2>3, CurrentFinish, NowSynced DEF PushSave
  <2>4. CASE ~At(c, "sent_all")
    <3>1. marked' = marked /\ task.sync = "dirty_local"
      BY <1>3, <1>6, <2>4 DEF PushSave
    <3>2. ~(marked = "yes" /\ spent.rollbacks = 0)
      BY <3>1 DEF CInv, Surfaced
    <3>3. QED
      BY <1>1, <1>2, <2>2, <3>1, <3>2, CurrentFinish, NowSynced
  <2>5. QED
    BY <2>3, <2>4
<1>7. QED
  BY <1>4, <1>5, <1>6

(* The steps of a pull: it resolves the drift, or lets the row alone.       *)
LEMMA CurrentPull ==
  ASSUME Overlap = FALSE, CInv, NEW c \in Clis,
         PullFetch(c) \/ PullApply(c) \/ PullDone(c) \/ PullRelations(c)
  PROVE  Current' /\ Owed' /\ Surfaced'
<1>1. /\ c \in Procs /\ c # Drainer /\ TypeOK /\ proc[c].pc # "idle" /\ proc[c].copy = task
  BY TaskSyncAssumption, InHand
     DEF Procs, CInv, AInv, TInv, PullFetch, PullApply, PullDone, PullRelations, At
<1>2. \A q \in Procs : q # c => proc[q].pc = "idle"
  BY <1>1, AtWork
<1>3. CASE PullFetch(c)
  <2> DEFINE pc == IF At(c, "pull") THEN "fetched" ELSE "force_fetched"
  <2>1. Fetch(c, pc, task') /\ UNCHANGED <<task, queue, dead, spent, marked>>
    BY <1>1, <1>3 DEF PullFetch
  <2>2. pc \notin {"rollback", "push", "sent"}
    OBVIOUS
  <2> HIDE DEF pc
  <2>3. QED
    BY <1>1, <1>2, <2>1, <2>2, CurrentHold, SameSync
<1>4. CASE PullApply(c)
  <2>1. Hold(c, "relations", task') /\ UNCHANGED <<queue, dead, spent>>
    BY <1>1, <1>4 DEF PullApply
  <2>2. Current'
    BY <1>1, <1>2, <2>1, CurrentHold
  <2>3. CASE Decision(c) = "pull"
    <3>1. marked' = "no" /\ task'.sync = "synced"
      BY <1>4, <2>3 DEF PullApply, Adopted
    <3>2. QED
      BY <2>2, <3>1, NowSynced
  <2>4. CASE Decision(c) # "pull"
    BY <1>4, <2>1, <2>2, <2>4, SameSync DEF PullApply
  <2>5. QED
    BY <2>3, <2>4
<1>5. CASE PullDone(c)
  BY <1>1, <1>2, <1>5, CurrentFinish, SameSync DEF PullDone
<1>6. CASE PullRelations(c)
  <2>1. task'.sync = task.sync /\ Finish(c) /\ UNCHANGED <<queue, dead, marked>> /\ Spend({"rebaselines"})
    BY <1>1, <1>6 DEF PullRelations, Save
  <2>2. QED
    BY <1>1, <1>2, <2>1, CurrentFinish, SameSync
<1>7. QED
  BY <1>3, <1>4, <1>5, <1>6

(* The drainer confirms only what is dirty and skips what is not, so a      *)
(* marked row, which has no UpdateRemote while it is dirty_remote, is not   *)
(* confirmed; a row that it gives up stays as a dead letter.                *)
LEMMA CurrentDrain ==
  ASSUME Overlap = FALSE, CInv, DrainBegin \/ DrainStep
  PROVE  Current' /\ Owed' /\ Surfaced'
<1>1. /\ Drainer \in Procs /\ TypeOK /\ queue \in Nat /\ dead \in Nat /\ task \in Tasks
      /\ MayBegin(Drainer) \/ proc[Drainer].pc # "idle"
  BY DEF Procs, CInv, AInv, TInv, TypeOK, DrainBegin, DrainStep, DrainSkip, DrainSend, DrainFails,
         DrainSave, At
<1>2. \A q \in Procs : q # Drainer => proc[q].pc = "idle"
  BY <1>1, OthersRest DEF CInv, AInv
<1>3. CASE DrainBegin
  <2>1. Hold(Drainer, "drain", task') /\ UNCHANGED <<task, queue, dead, spent, marked>>
    BY <1>3 DEF DrainBegin
  <2>2. QED
    BY <1>1, <1>2, <2>1, CurrentHold, SameSync
<1>4. ASSUME DrainStep PROVE Draining = task /\ queue > 0
  <2>1. proc[Drainer].pc # "idle"
    BY <1>4 DEF DrainStep, DrainSkip, DrainSend, DrainFails, DrainSave, At
  <2>2. QED
    BY <1>1, <2>1, InHand DEF Draining, CInv, AInv, TInv, HoldsRow
<1>5. CASE DrainSkip
  <2>1. /\ ~Confirmable(task) /\ Finish(Drainer) /\ queue' = queue - 1
        /\ UNCHANGED <<task, dead, spent, marked>>
    BY <1>4, <1>5 DEF DrainStep, DrainSkip, Stamped
  <2>2. task.sync \notin {"dirty_local", "dirty_remote"}
    BY <2>1 DEF Confirmable
  <2>3. Owed' /\ Surfaced'
    BY <2>1, <2>2 DEF CInv, Owed, Surfaced
  <2>4. QED
    BY <1>1, <1>2, <2>1, <2>3, CurrentFinish
<1>6. CASE DrainSend
  <2>1. Confirmable(task) /\ UNCHANGED <<spent, marked>>
    BY <1>4, <1>6 DEF DrainStep, DrainSend
  <2>2. CASE "assignees" \in DrainPatch /\ issue'.assignees # Draining.live.assignees
    <3>1. /\ Finish(Drainer) /\ queue' = queue - 1 /\ dead' = dead + 1
          /\ IF task.sync # "conflict" THEN Save([task EXCEPT !.sync = "conflict"], "local_edit")
                                       ELSE UNCHANGED <<task, history>>
      BY <1>6, <2>2 DEF DrainSend, DeadLettered
    <3>2. [task EXCEPT !.sync = "conflict"].sync = "conflict"
      BY <1>1 DEF Tasks
    <3>3. task'.sync = "conflict"
      BY <3>1, <3>2 DEF Save
    <3>4. Owed' /\ Surfaced'
      BY <3>3 DEF Owed, Surfaced
    <3>5. QED
      BY <1>1, <1>2, <3>1, <3>4, CurrentFinish
  <2>3. CASE ~("assignees" \in DrainPatch /\ issue'.assignees # Draining.live.assignees)
    <3>1. Hold(Drainer, "sent", task') /\ UNCHANGED <<task, queue, dead>>
      BY <1>4, <1>6, <2>3 DEF DrainStep, DrainSend
    <3>2. Confirmable(task')
      BY <2>1, <3>1
    <3>3. QED
      BY <1>1, <1>2, <2>1, <3>1, <3>2, CurrentHold, SameSync
  <2>4. QED
    BY <2>2, <2>3
<1>7. CASE DrainFails
  <2>1. /\ Finish(Drainer) /\ UNCHANGED <<task, marked>> /\ Spend({"faults"})
        /\ \/ queue' = queue /\ dead' = dead
           \/ queue' = queue - 1 /\ dead' = dead + 1
    BY <1>7 DEF DrainFails, Fails, RetryOrDeadLetter, DeadLettered
  <2>2. spent'.rollbacks = 0 => spent.rollbacks = 0
    BY <1>1, <2>1, RollbacksStay
  <2>3. marked = "yes" /\ spent.rollbacks = 0 => task.sync = "conflict"
    BY <1>4, <1>7 DEF DrainStep, CInv, Surfaced
  <2>4. Owed' /\ Surfaced'
    BY <1>1, <2>1, <2>2, <2>3 DEF CInv, Owed, Surfaced
  <2>5. QED
    BY <1>1, <1>2, <2>1, <2>4, CurrentFinish
<1>8. CASE DrainSave
  <2>1. Confirmable(task)
    <3>1. CASE At(Drainer, "sent")
      BY <1>1, <3>1, InHand DEF Works, At
    <3>2. CASE ~At(Drainer, "sent")
      BY <1>4, <1>8, <3>2 DEF DrainStep, DrainSave
    <3>3. QED
      BY <3>1, <3>2
  <2>2. DiffAgainstBaseline(task) \subseteq DrainPatch
    BY <1>4, <1>8 DEF DrainStep, DrainPatch
  <2>3. task'.sync = "synced" /\ Finish(Drainer) /\ UNCHANGED <<spent, marked>>
    BY <1>1, <1>4, <1>8, <2>2, ConfirmAll DEF DrainStep, DrainSave, Save
  <2>4. ~(marked = "yes" /\ spent.rollbacks = 0)
    BY <1>4, <1>8, <2>1 DEF DrainStep, Confirmable, CInv, Surfaced
  <2>5. QED
    BY <1>1, <1>2, <2>3, <2>4, CurrentFinish, NowSynced
<1>9. QED
  BY <1>3, <1>5, <1>6, <1>7, <1>8 DEF DrainStep

(* The poller marks what is still Synced.                                   *)
LEMMA CurrentPoll ==
  ASSUME Overlap = FALSE, CInv, PollFetch \/ PollCompare \/ MarkRemoteDirty
  PROVE  Current' /\ Owed' /\ Surfaced'
<1>1. /\ Poller \in Procs /\ Poller # Drainer /\ TypeOK /\ task \in Tasks
      /\ MayBegin(Poller) \/ proc[Poller].pc # "idle"
  BY DEF Procs, Poller, Drainer, CInv, AInv, TInv, TypeOK, PollFetch, PollCompare, MarkRemoteDirty, At
<1>2. \A q \in Procs : q # Poller => proc[q].pc = "idle"
  BY <1>1, OthersRest DEF CInv, AInv
<1>3. CASE PollFetch
  <2>1. Fetch(Poller, "poll", task') /\ UNCHANGED <<task, queue, dead, spent, marked>>
    BY <1>3 DEF PollFetch
  <2>2. QED
    BY <1>1, <1>2, <2>1, CurrentHold, SameSync
<1>4. CASE PollCompare
  <2>1. /\ Hold(Poller, "mark", task') \/ Finish(Poller)
        /\ UNCHANGED <<task, queue, dead, spent, marked>>
    BY <1>4 DEF PollCompare
  <2>2. Current'
    <3>1. CASE Hold(Poller, "mark", task')
      BY <1>1, <1>2, <3>1, CurrentHold
    <3>2. QED
      BY <1>1, <1>2, <2>1, <3>1, CurrentFinish
  <2>3. QED
    BY <2>1, <2>2, SameSync
<1>5. CASE MarkRemoteDirty
  <2>1. Finish(Poller) /\ UNCHANGED <<queue, dead, spent>>
    BY <1>5 DEF MarkRemoteDirty
  <2>2. Current'
    BY <1>1, <1>2, <2>1, CurrentFinish
  <2>3. CASE task.sync = "synced"
    <3>1. task'.sync = "dirty_remote" /\ marked' = IF queue = 0 THEN "yes" ELSE marked
      BY <1>1, <1>5, <2>3 DEF MarkRemoteDirty, Tasks
    <3>2. QED
      BY <2>1, <2>2, <2>3, <3>1 DEF Owed, Surfaced, CInv
  <2>4. CASE task.sync # "synced"
    BY <1>5, <2>1, <2>2, <2>4, SameSync DEF MarkRemoteDirty
  <2>5. QED
    BY <2>3, <2>4
<1>6. QED
  BY <1>3, <1>4, <1>5

(* A restart requeues, an edit on GitHub changes nothing here.              *)
LEMMA CurrentElse ==
  ASSUME CInv, Restart \/ RemoteEdit \/ UNCHANGED vars
  PROVE  Current' /\ Owed' /\ Surfaced'
<1>1. TypeOK /\ queue \in Nat /\ dead \in Nat
  BY DEF CInv, AInv, TInv, TypeOK
<1>2. /\ UNCHANGED <<task, dead, marked>>
      /\ (\E bs : Spend(bs)) \/ UNCHANGED spent
  BY DEF Restart, RemoteEdit, vars
<1>3. spent'.rollbacks = 0 => spent.rollbacks = 0
  BY <1>1, <1>2, RollbacksStay
<1>4. ASSUME NEW p \in Procs, Works(p, proc[p], task, spent) PROVE Works(p, proc[p], task', spent')
  BY <1>1, <1>2, <1>3, <1>4, RollbacksStay DEF Works
<1>5. CASE RemoteEdit \/ UNCHANGED vars
  <2>1. proc' = proc /\ queue' = queue
    BY <1>5 DEF RemoteEdit, vars
  <2>2. QED
    BY <1>2, <1>4, <2>1, SameSync DEF Current, CInv
<1>6. CASE Restart
  <2>1. \A p \in Procs : proc'[p] = proc[p] \/ proc'[p] = Rest
    BY <1>6 DEF Restart
  <2>2. Current'
    BY <1>4, <2>1 DEF Current, CInv, Works, Rest
  <2>3. queue' = IF task.sync = "dirty_local" /\ queue = 0 /\ dead = 0 THEN 1 ELSE queue
    BY <1>6 DEF Restart
  <2>4. QED
    BY <1>2, <1>3, <2>2, <2>3 DEF CInv, Owed, Surfaced
<1>7. QED
  BY <1>5, <1>6

(* Every step keeps processes on the row as it is.                          *)
LEMMA CInvStep ==
  ASSUME Overlap = FALSE, CInv, [Next]_vars
  PROVE  CInv'
<1>1. AInv'
  BY AInvStep DEF CInv
<1>2. ASSUME NEW c \in Clis, Begins(c) \/ CliStep(c)
      PROVE  Current' /\ Owed' /\ Surfaced'
  BY <1>2, CurrentBegin, CurrentEdit, CurrentPush, CurrentPull DEF CliStep
<1>3. Current' /\ Owed' /\ Surfaced'
  BY <1>2, CurrentDrain, CurrentPoll, CurrentElse DEF Next, Begins
<1>4. QED
  BY <1>1, <1>3 DEF CInv

(* Nothing is owed or marked at first.                                      *)
LEMMA CInvInit == Init => CInv
<1>1. ASSUME Init PROVE Current /\ Owed /\ Surfaced
  BY <1>1 DEF Init, Current, Works, Rest, Owed, Surfaced
<1>2. QED
  BY <1>1, AInvInit DEF CInv

(* Without overlap, a task with unpushed edits that was never rolled back   *)
(* has an open UpdateRemote row or a dead letter, through coalesced edits,  *)
(* reverts, skipped rows, retries, lost answers and restarts.               *)
THEOREM TaskSyncOwedPush ==
  ASSUME Overlap = FALSE
  PROVE  Spec => []OwedPush
<1>1. CInv => OwedPush
  BY DEF CInv, Owed, OwedPush
<1>2. CInv /\ [Next]_vars => CInv'
  BY CInvStep
<1>3. QED
  BY <1>1, <1>2, CInvInit, PTL DEF Spec

(* Without overlap, marked drift stays DirtyRemote or a conflict until a    *)
(* pull or a forced push, also when GitHub drops assignees and repairs or   *)
(* relation saves move the baseline.                                        *)
THEOREM TaskSyncDriftSurfaced ==
  ASSUME Overlap = FALSE
  PROVE  Spec => []DriftSurfaced
<1>1. CInv => DriftSurfaced
  BY DEF CInv, Surfaced, DriftSurfaced
<1>2. CInv /\ [Next]_vars => CInv'
  BY CInvStep
<1>3. QED
  BY <1>1, <1>2, CInvInit, PTL DEF Spec

-----------------------------------------------------------------------------
(* What the sync state tells of the issue.  As long as nobody edits it and  *)
(* no call fails, the issue is the baseline, or what a process has sent and *)
(* is about to save.                                                        *)

Matches(i, c) == i = [text |-> c.text, state |-> RemoteState(c.status), assignees |-> c.assignees]

(* The issue is the baseline, or what has just been sent.                   *)
Told(r, t, i) ==
  /\ r.pc # "mark"
  /\ r.pc \in {"sent", "sent_all"} => Matches(i, t.live)
  /\ r.pc \notin {"sent", "sent_all"} => Matches(i, t.base)
  /\ r.pc \in Fetching => r.page = i

Calm ==
  Quiet(spent) =>
    /\ OneSided(task.sync) /\ \A s \in history : OneSided(s.sync)
    /\ \A p \in Procs : (\A q \in Procs : q # p => proc[q].pc = "idle") => Told(proc[p], task, issue)

QInv == BInv /\ CInv /\ DirtyMeansDiffers /\ Calm

(* A PATCH of whatever differs leaves the issue with all of the content.    *)
LEMMA LandsTells ==
  ASSUME DropsAssignees = FALSE, NEW t \in Tasks, NEW patch, DiffAgainstBaseline(t) \subseteq patch,
         issue \in Issues, Matches(issue, t.base), Lands(t.live, patch)
  PROVE  Matches(issue', t.live)
<1>1. issue' = Patched(issue, t.live, patch)
  BY DEF Lands
<1>2. /\ "text" \notin patch => t.live.text = t.base.text
      /\ "status" \notin patch => t.live.status = t.base.status
      /\ "assignees" \notin patch => t.live.assignees = t.base.assignees
  BY DEF DiffAgainstBaseline, Fields
<1>3. /\ issue.text = t.base.text /\ issue.state = RemoteState(t.base.status)
      /\ issue.assignees = t.base.assignees
  BY DEF Matches
<1>4. QED
  BY <1>1, <1>2, <1>3 DEF Patched, Matches

(* What is fetched and adopted is the issue.                                *)
LEMMA AdoptedMatches ==
  ASSUME NEW t \in Tasks, NEW i \in Issues
  PROVE  Matches(i, Adopted(t, i).base) /\ Adopted(t, i).sync = "synced"
<1>1. t.live.status \in Lifecycle /\ i.state \in {"open", "closed"}
  BY DEF Tasks, Content, Issues
<1>2. RemoteState(RemoteStateToLifecycle(i.state, t.live.status)) = i.state
  BY <1>1, RemoteStateRoundTrip
<1>3. /\ Adopted(t, i).base.text = i.text /\ Adopted(t, i).base.assignees = i.assignees
      /\ RemoteState(Adopted(t, i).base.status) = i.state
  BY <1>2 DEF Adopted, CopyInbound
<1>4. i = [text |-> i.text, state |-> i.state, assignees |-> i.assignees]
  BY DEF Issues
<1>5. QED
  BY <1>3, <1>4 DEF Matches, Adopted

(* The types of the parts.                                                  *)
LEMMA QuietTypes ==
  ASSUME QInv
  PROVE  /\ TypeOK /\ CInv /\ task \in Tasks /\ task.sync \in SyncStates /\ issue \in Issues
         /\ \A p \in Procs : proc[p].pc # "repair"
BY DEF QInv, BInv, Backed, TInv, TypeOK, Tasks

(* What the only process that may be at work says of the issue.             *)
LEMMA NowTold ==
  ASSUME QInv, Quiet(spent), NEW p \in Procs, \A q \in Procs : q # p => proc[q].pc = "idle"
  PROVE  /\ Told(proc[p], task, issue)
         /\ OneSided(task.sync) /\ \A s \in history : OneSided(s.sync)
BY DEF QInv, Calm

(* A step of p that leaves it at r.                                         *)
LEMMA CalmStep ==
  ASSUME QInv, NEW p \in Procs, NEW r, proc' = [proc EXCEPT ![p] = r],
         \A q \in Procs : q # p => proc[q].pc = "idle",
         Quiet(spent') => /\ Told(r, task', issue')
                          /\ OneSided(task'.sync) /\ \A s \in history' : OneSided(s.sync)
  PROVE  Calm'
<1>1. proc'[p] = r /\ \A q \in Procs : q # p => proc'[q].pc = "idle"
  BY MovesItself, QuietTypes
<1>2. ASSUME Quiet(spent'), NEW x \in Procs, \A q \in Procs : q # x => proc'[q].pc = "idle"
      PROVE  Told(proc'[x], task', issue')
  <2>1. CASE x = p
    BY <1>1, <1>2, <2>1
  <2>2. CASE x # p
    <3>1. proc'[x].pc = "idle" /\ r.pc = "idle"
      BY <1>1, <1>2, <2>2
    <3>2. Matches(issue', task'.base)
      BY <1>2, <3>1 DEF Told
    <3>3. QED
      BY <3>1, <3>2 DEF Told, Fetching
  <2>3. QED
    BY <2>1, <2>2
<1>3. QED
  BY <1>2 DEF Calm

(* The step that ends an operation,                                         *)
LEMMA CalmFinish ==
  ASSUME QInv, NEW p \in Procs, \A q \in Procs : q # p => proc[q].pc = "idle", Finish(p),
         Quiet(spent') => /\ Matches(issue', task'.base)
                          /\ OneSided(task'.sync) /\ \A s \in history' : OneSided(s.sync)
  PROVE  Calm'
<1>1. Matches(issue', task'.base) => Told(Rest, task', issue')
  BY DEF Told, Rest, Fetching
<1>2. QED
  BY <1>1, CalmStep DEF Finish

(* one that goes on,                                                        *)
LEMMA CalmHold ==
  ASSUME QInv, NEW p \in Procs, \A q \in Procs : q # p => proc[q].pc = "idle",
         NEW pc \in Working \ {"mark"}, NEW t, Hold(p, pc, t),
         Quiet(spent') => /\ Matches(issue', IF pc \in {"sent", "sent_all"} THEN task'.live ELSE task'.base)
                          /\ OneSided(task'.sync) /\ \A s \in history' : OneSided(s.sync)
  PROVE  Calm'
<1>1. Matches(issue', IF pc \in {"sent", "sent_all"} THEN task'.live ELSE task'.base)
        => Told([pc |-> pc, copy |-> t], task', issue')
  BY DEF Told, Working, Fetching
<1>2. QED
  BY <1>1, CalmStep DEF Hold

(* and one that fetches.                                                    *)
LEMMA CalmFetch ==
  ASSUME QInv, NEW p \in Procs, \A q \in Procs : q # p => proc[q].pc = "idle",
         NEW pc \in Fetching, NEW t, Fetch(p, pc, t), issue' = issue,
         Quiet(spent') => /\ Matches(issue', task'.base)
                          /\ OneSided(task'.sync) /\ \A s \in history' : OneSided(s.sync)
  PROVE  Calm'
<1>1. Matches(issue', task'.base) => Told([pc |-> pc, copy |-> t, page |-> issue], task', issue')
  BY DEF Told, Fetching
<1>2. QED
  BY <1>1, CalmStep DEF Fetch

(* A snapshot of a one-sided row is one-sided.                              *)
LEMMA SnapshotsOneSided ==
  ASSUME NEW ts, \A t \in ts : OneSided(t.sync)
  PROVE  \A s \in Snapshots(ts) : OneSided(s.sync)
BY DEF Snapshots

(* A saved row that is one-sided.                                           *)
LEMMA SavedOneSided ==
  ASSUME NEW t, NEW source, Save(t, source), OneSided(t.sync), \A s \in history : OneSided(s.sync)
  PROVE  OneSided(task'.sync) /\ \A s \in history' : OneSided(s.sync)
BY SnapshotsOneSided DEF Save

(* Starting a command.                                                      *)
LEMMA CalmBegin ==
  ASSUME Overlap = FALSE, QInv, NEW c \in Clis, Begins(c)
  PROVE  DirtyMeansDiffers' /\ Calm'
<1>1. c \in Procs /\ TypeOK /\ CInv
  BY QuietTypes DEF Procs
<1>2. PICK pc \in Working \ {"mark", "sent", "sent_all"}, budget \in SUBSET {"rollbacks", "rebaselines"} : Command(c, pc, budget)
  BY DEF Begins, EditBegin, RollbackBegin, RepairBegin, PushBegin, ForcePushBegin, PullBegin, Working
<1>3. /\ MayBegin(c) /\ Hold(c, pc, task) /\ Spend({"commands"} \cup budget)
      /\ UNCHANGED <<task, issue, history>>
  BY <1>2 DEF Command
<1>4. \A q \in Procs : q # c => proc[q].pc = "idle"
  BY <1>1, <1>3, OthersRest DEF CInv, AInv
<1>5. Quiet(spent') => Quiet(spent)
  BY <1>1, <1>3, RollbacksStay
<1>6. Quiet(spent) => Matches(issue, task.base)
  BY <1>1, <1>3, <1>4, NowTold DEF Told, MayBegin
<1>7. Calm'
  BY <1>1, <1>2, <1>3, <1>4, <1>5, <1>6, CalmHold, NowTold
<1>8. QED
  BY <1>3, <1>7 DEF QInv, DirtyMeansDiffers, DiffAgainstBaseline

(* What is saved as dirty differs.                                          *)
LEMMA DirtyDiffers ==
  ASSUME task' \in Tasks, task'.sync = "dirty_local" => task'.live # task'.base
  PROVE  DirtyMeansDiffers'
<1>1. DiffAgainstBaseline(task') = {} <=> task'.live = task'.base
  BY DiffIsDifference
<1>2. (DiffAgainstBaseline(task) # {})' <=> DiffAgainstBaseline(task') # {}
  BY DEF DiffAgainstBaseline
<1>3. QED
  BY <1>1, <1>2 DEF DirtyMeansDiffers

(* Edits, lifecycle verbs and rollbacks: the baseline stays, and no state   *)
(* of the remote side is reached from the local one.                        *)
LEMMA CalmEdit ==
  ASSUME Overlap = FALSE, QInv, TypeOK', NEW c \in Clis,
         Update(c) \/ TransitionMirror(c) \/ Rollback(c)
  PROVE  DirtyMeansDiffers' /\ Calm'
<1>1. /\ c \in Procs /\ TypeOK /\ CInv /\ task \in Tasks /\ proc[c].copy = task
      /\ proc[c].pc \in {"edit", "rollback"} /\ task' \in Tasks
  BY QuietTypes, InHand DEF Procs, Update, TransitionMirror, Rollback, At, TypeOK
<1>2. \A q \in Procs : q # c => proc[q].pc = "idle"
  BY <1>1, AtWork
<1>3. Quiet(spent) => /\ Matches(issue, task.base)
                      /\ OneSided(task.sync) /\ \A s \in history : OneSided(s.sync)
  BY <1>1, <1>2, NowTold DEF Told
<1>4. CASE Update(c) \/ TransitionMirror(c)
  <2>1. /\ Finish(c) /\ UNCHANGED <<issue, spent>> /\ task'.base = task.base
        /\ OneSided(task.sync) <=> OneSided(task'.sync)
        /\ task' = task \/ (task'.sync = "dirty_local" => task'.live # task'.base)
        /\ history' \subseteq history \cup {[sync |-> task'.sync, live |-> task'.live]}
    BY <1>1, <1>4, EditOutcome
  <2>2. Calm'
    BY <1>1, <1>2, <1>3, <2>1, CalmFinish
  <2>3. DirtyMeansDiffers'
    BY <1>1, <2>1, DirtyDiffers DEF QInv, DirtyMeansDiffers, DiffAgainstBaseline
  <2>4. QED
    BY <2>2, <2>3
<1>5. CASE Rollback(c)
  <2>1. PICK s \in history :
          Save([task EXCEPT !.live = s.live,
                            !.sync = ReconcileDirtyAgainstBaseline(s.sync, s.live, task.base)], "rollback")
    BY <1>1, <1>5 DEF Rollback
  <2> DEFINE sync == ReconcileDirtyAgainstBaseline(s.sync, s.live, task.base)
             t == [task EXCEPT !.live = s.live, !.sync = sync]
  <2>2. s.sync \in SyncStates
    BY <1>1, <2>1 DEF TypeOK
  <2>3. /\ OneSided(s.sync) <=> OneSided(sync)
        /\ sync = "dirty_local" => s.live # task.base
    BY <2>2, ReconcileTells
  <2>4. Save(t, "rollback")
    BY <2>1
  <2> HIDE DEF sync
  <2>5. t.sync = sync /\ t.live = s.live
    BY <1>1 DEF Tasks
  <2> HIDE DEF t
  <2>6. task'.sync = sync /\ task'.live = s.live /\ task'.base = task.base
    BY <2>4, <2>5 DEF Save, Baseline
  <2>7. Finish(c) /\ UNCHANGED <<issue, spent>>
    BY <1>5 DEF Rollback
  <2>8. Calm'
    BY <1>1, <1>2, <1>3, <2>1, <2>3, <2>4, <2>5, <2>6, <2>7, SavedOneSided, CalmFinish
  <2>9. QED
    BY <1>1, <2>3, <2>6, <2>8, DirtyDiffers
<1>6. QED
  BY <1>4, <1>5

(* A synced row is not dirty.                                               *)
LEMMA NotDirty ==
  ASSUME task'.sync # "dirty_local"
  PROVE  DirtyMeansDiffers'
BY DEF DirtyMeansDiffers

(* Nor does a row change by which nothing is written.                       *)
LEMMA SameRow ==
  ASSUME QInv, task' = task
  PROVE  DirtyMeansDiffers'
BY DEF QInv, DirtyMeansDiffers, DiffAgainstBaseline

(* The confirmed row is synced, and its baseline is what was sent.          *)
LEMMA ConfirmedRow ==
  ASSUME QInv, NEW patch, DiffAgainstBaseline(task) \subseteq patch,
         Save(ConfirmSyncedFields(task, patch), "push")
  PROVE  /\ task'.sync = "synced" /\ task'.base = task.live
         /\ (\A s \in history : OneSided(s.sync)) => \A s \in history' : OneSided(s.sync)
<1> DEFINE t == [sync |-> "synced", live |-> task.live, base |-> task.live]
<1>1. Save(t, "push")
  BY ConfirmAll, QuietTypes
<1>2. t.sync = "synced" /\ t.live = task.live
  OBVIOUS
<1> HIDE DEF t
<1>3. task'.sync = "synced" /\ task'.base = task.live
  BY <1>1, <1>2 DEF Save, Baseline
<1>4. QED
  BY <1>1, <1>2, <1>3, SavedOneSided DEF OneSided

(* The steps of a push.                                                     *)
LEMMA CalmPush ==
  ASSUME Overlap = FALSE, DropsAssignees = FALSE, QInv, NEW c \in Clis,
         PushSend(c) \/ PushFails(c) \/ PushSave(c)
  PROVE  DirtyMeansDiffers' /\ Calm'
<1>1. /\ c \in Procs /\ TypeOK /\ CInv /\ task \in Tasks /\ issue \in Issues /\ proc[c].copy = task
      /\ proc[c].pc # "idle"
  BY QuietTypes, InHand DEF Procs, PushSend, PushFails, PushSave, At
<1>2. \A q \in Procs : q # c => proc[q].pc = "idle"
  BY <1>1, AtWork
<1>3. DiffAgainstBaseline(task) \subseteq PatchOf(c)
  BY <1>1 DEF PatchOf, DiffAgainstBaseline
<1>4. Quiet(spent) => /\ OneSided(task.sync) /\ \A s \in history : OneSided(s.sync)
                      /\ ~At(c, "sent") /\ ~At(c, "sent_all") => Matches(issue, task.base)
                      /\ At(c, "sent") \/ At(c, "sent_all") => Matches(issue, task.live)
  BY <1>1, <1>2, NowTold DEF Told, At
<1>5. CASE PushSend(c)
  <2> DEFINE pc == IF At(c, "push") THEN "sent" ELSE "sent_all"
  <2>1. /\ Hold(c, pc, task) /\ UNCHANGED <<task, history, spent>>
        /\ IF PatchOf(c) = {} THEN UNCHANGED <<issue, held>> ELSE Lands(task.live, PatchOf(c))
    BY <1>1, <1>5 DEF PushSend
  <2>2. Matches(issue, task.base) => Matches(issue', task.live)
    <3>1. CASE PatchOf(c) = {}
      <4>1. task.live = task.base
        BY <1>1, <1>3, <3>1, DiffIsDifference
      <4>2. QED
        BY <2>1, <3>1, <4>1
    <3>2. CASE PatchOf(c) # {}
      BY <1>1, <1>3, <2>1, <3>2, LandsTells
    <3>3. QED
      BY <3>1, <3>2
  <2>3. ~At(c, "sent") /\ ~At(c, "sent_all")
    BY <1>5 DEF PushSend, At
  <2>4. pc \in {"sent", "sent_all"} /\ pc \in Working \ {"mark"}
    BY DEF Working
  <2> HIDE DEF pc
  <2>5. Quiet(spent') => /\ Matches(issue', task'.live)
                         /\ OneSided(task'.sync) /\ \A s \in history' : OneSided(s.sync)
    BY <1>4, <2>1, <2>2, <2>3
  <2>6. Calm'
    BY <1>1, <1>2, <2>1, <2>4, <2>5, CalmHold
  <2>7. QED
    BY <2>1, <2>6, SameRow
<1>6. CASE PushFails(c)
  <2>1. task' = task /\ Finish(c) /\ Spend({"faults"})
    BY <1>6 DEF PushFails, Fails
  <2>2. spent'["faults"] = spent["faults"] + 1 /\ spent["faults"] \in Nat
    BY <1>1, <2>1, SpendGrows
  <2>3. ~Quiet(spent')
    BY <2>2 DEF Quiet
  <2>4. QED
    BY <1>1, <1>2, <2>1, <2>3, CalmFinish, SameRow
<1>7. CASE PushSave(c)
  <2>1. Save(ConfirmSyncedFields(task, PatchOf(c)), "push") /\ Finish(c) /\ UNCHANGED <<issue, spent>>
    BY <1>1, <1>7 DEF PushSave
  <2>2. /\ task'.sync = "synced" /\ task'.base = task.live
        /\ (\A s \in history : OneSided(s.sync)) => \A s \in history' : OneSided(s.sync)
    BY <1>3, <2>1, ConfirmedRow
  <2>3. Calm'
    BY <1>1, <1>2, <1>4, <1>7, <2>1, <2>2, CalmFinish DEF PushSave, OneSided
  <2>4. QED
    BY <2>2, <2>3, NotDirty
<1>8. QED
  BY <1>5, <1>6, <1>7

(* The steps of a pull: what it adopts is the issue.                        *)
LEMMA CalmPull ==
  ASSUME Overlap = FALSE, MaxRebaselines = 0, QInv, NEW c \in Clis,
         PullFetch(c) \/ PullApply(c) \/ PullDone(c) \/ PullRelations(c)
  PROVE  DirtyMeansDiffers' /\ Calm'
<1>1. /\ c \in Procs /\ TypeOK /\ CInv /\ task \in Tasks /\ issue \in Issues /\ proc[c].copy = task
      /\ proc[c].pc \in {"pull", "force_pull", "fetched", "force_fetched", "relations"}
  BY QuietTypes, InHand DEF Procs, PullFetch, PullApply, PullDone, PullRelations, At
<1>2. \A q \in Procs : q # c => proc[q].pc = "idle"
  BY <1>1, AtWork
<1>3. Quiet(spent) => /\ OneSided(task.sync) /\ \A s \in history : OneSided(s.sync)
                      /\ Matches(issue, task.base)
                      /\ proc[c].pc \in Fetching => proc[c].page = issue
  BY <1>1, <1>2, NowTold DEF Told
<1>4. CASE PullFetch(c)
  <2> DEFINE pc == IF At(c, "pull") THEN "fetched" ELSE "force_fetched"
  <2>1. Fetch(c, pc, task) /\ UNCHANGED <<task, issue, history, spent>>
    BY <1>1, <1>4 DEF PullFetch
  <2>2. pc \in Fetching
    BY DEF Fetching
  <2> HIDE DEF pc
  <2>3. Calm'
    BY <1>1, <1>2, <1>3, <2>1, <2>2, CalmFetch
  <2>4. QED
    BY <2>1, <2>3, SameRow
<1>5. CASE PullApply(c)
  <2>1. Hold(c, "relations", task') /\ UNCHANGED <<issue, spent>> /\ "relations" \in Working \ {"mark"}
    BY <1>1, <1>5 DEF PullApply, Working
  <2>2. CASE Decision(c) = "pull"
    <3> DEFINE new == Adopted(task, proc[c].page)
    <3>1. task' = new /\ history' = history \cup Snapshots({task, new})
      BY <1>1, <1>5, <2>2 DEF PullApply
    <3>2. proc[c].page \in Issues
      BY <1>1, <1>5, PageType DEF PullApply, At, Fetching
    <3>3. Matches(proc[c].page, new.base) /\ new.sync = "synced"
      BY <1>1, <3>2, AdoptedMatches
    <3> HIDE DEF new
    <3>4. ASSUME Quiet(spent)
          PROVE  Matches(issue', task'.base) /\ OneSided(task'.sync) /\ \A s \in history' : OneSided(s.sync)
      <4>1. proc[c].page = issue
        BY <1>3, <1>5, <3>4 DEF PullApply, At, Fetching
      <4>2. \A t \in {task, new} : OneSided(t.sync)
        BY <1>3, <3>3, <3>4 DEF OneSided
      <4>3. \A s \in Snapshots({task, new}) : OneSided(s.sync)
        BY <4>2, SnapshotsOneSided
      <4>4. QED
        BY <1>3, <2>1, <3>1, <3>3, <3>4, <4>1, <4>2, <4>3
    <3>5. Calm'
      BY <1>1, <1>2, <2>1, <3>4, CalmHold
    <3>6. QED
      BY <3>1, <3>3, <3>5, NotDirty
  <2>3. CASE Decision(c) # "pull"
    <3>1. UNCHANGED <<task, history>>
      BY <1>5, <2>3 DEF PullApply
    <3>2. Calm'
      BY <1>1, <1>2, <1>3, <2>1, <3>1, CalmHold
    <3>3. QED
      BY <3>1, <3>2, SameRow
  <2>4. QED
    BY <2>2, <2>3
<1>6. CASE PullDone(c)
  <2>1. UNCHANGED <<task, issue, history, spent>> /\ Finish(c)
    BY <1>6 DEF PullDone
  <2>2. QED
    BY <1>1, <1>2, <1>3, <2>1, CalmFinish, SameRow
<1>7. ~PullRelations(c)
  BY <1>1, NoRebaseline DEF PullRelations
<1>8. QED
  BY <1>4, <1>5, <1>6, <1>7

(* The drainer sends and confirms as a push does.                           *)
LEMMA CalmDrain ==
  ASSUME Overlap = FALSE, DropsAssignees = FALSE, QInv, DrainBegin \/ DrainStep
  PROVE  DirtyMeansDiffers' /\ Calm'
<1>1. /\ Drainer \in Procs /\ TypeOK /\ CInv /\ task \in Tasks /\ issue \in Issues
      /\ MayBegin(Drainer) \/ proc[Drainer].pc # "idle"
  BY QuietTypes
     DEF Procs, DrainBegin, DrainStep, DrainSkip, DrainSend, DrainFails, DrainSave, At
<1>2. \A q \in Procs : q # Drainer => proc[q].pc = "idle"
  BY <1>1, OthersRest DEF CInv, AInv
<1>3. Quiet(spent) => /\ OneSided(task.sync) /\ \A s \in history : OneSided(s.sync)
                      /\ proc[Drainer].pc \in {"idle", "drain"} => Matches(issue, task.base)
                      /\ At(Drainer, "sent") => Matches(issue, task.live)
  BY <1>1, <1>2, NowTold DEF Told, At
<1>4. CASE DrainBegin
  <2>1. /\ Hold(Drainer, "drain", task) /\ UNCHANGED <<task, issue, history, spent>>
        /\ "drain" \in Working \ {"mark"} /\ proc[Drainer].pc = "idle"
    BY <1>4 DEF DrainBegin, Working, MayBegin
  <2>2. QED
    BY <1>1, <1>2, <1>3, <2>1, CalmHold, SameRow
<1>5. ASSUME DrainStep PROVE Draining = task
  <2>1. proc[Drainer].pc # "idle"
    BY <1>5 DEF DrainStep, DrainSkip, DrainSend, DrainFails, DrainSave, At
  <2>2. QED
    BY <1>1, <2>1, InHand DEF Draining
<1>6. CASE DrainSkip
  <2>1. Finish(Drainer) /\ UNCHANGED <<task, issue, history, spent>> /\ proc[Drainer].pc = "drain"
    BY <1>6 DEF DrainSkip, At
  <2>2. QED
    BY <1>1, <1>2, <1>3, <2>1, CalmFinish, SameRow
<1>7. CASE DrainSend
  <2>1. Lands(task.live, DiffAgainstBaseline(task)) /\ spent' = spent /\ proc[Drainer].pc = "drain"
    BY <1>5, <1>7 DEF DrainStep, DrainSend, DrainPatch, At
  <2>2. issue' = Patched(issue, task.live, DiffAgainstBaseline(task))
    BY <2>1 DEF Lands
  <2>3. "assignees" \in DrainPatch => issue'.assignees = Draining.live.assignees
    BY <1>5, <1>7, <2>2 DEF DrainStep, DrainPatch, Patched
  <2>4. Hold(Drainer, "sent", task) /\ UNCHANGED <<task, history>> /\ "sent" \in Working \ {"mark"}
    BY <1>5, <1>7, <2>3 DEF DrainStep, DrainSend, Working
  <2>5. Matches(issue, task.base) => Matches(issue', task.live)
    BY <1>1, <2>1, LandsTells
  <2>6. Calm'
    BY <1>1, <1>2, <1>3, <2>1, <2>4, <2>5, CalmHold
  <2>7. QED
    BY <2>4, <2>6, SameRow
<1>8. CASE DrainFails
  <2>1. task' = task /\ Finish(Drainer) /\ Spend({"faults"})
    BY <1>8 DEF DrainFails, Fails
  <2>2. spent'["faults"] = spent["faults"] + 1 /\ spent["faults"] \in Nat
    BY <1>1, <2>1, SpendGrows
  <2>3. ~Quiet(spent')
    BY <2>2 DEF Quiet
  <2>4. QED
    BY <1>1, <1>2, <2>1, <2>3, CalmFinish, SameRow
<1>9. CASE DrainSave
  <2>1. /\ Save(ConfirmSyncedFields(task, DiffAgainstBaseline(task)), "push")
        /\ Finish(Drainer) /\ UNCHANGED <<issue, spent>>
    BY <1>5, <1>9 DEF DrainStep, DrainSave, DrainPatch
  <2>2. /\ task'.sync = "synced" /\ task'.base = task.live
        /\ (\A s \in history : OneSided(s.sync)) => \A s \in history' : OneSided(s.sync)
    BY <2>1, ConfirmedRow
  <2>3. Quiet(spent) => Matches(issue, task.live)
    <3>1. CASE At(Drainer, "sent")
      BY <1>3, <3>1
    <3>2. CASE ~At(Drainer, "sent")
      <4>1. DiffAgainstBaseline(task) = {} /\ proc[Drainer].pc = "drain"
        BY <1>5, <1>9, <3>2 DEF DrainStep, DrainSave, DrainPatch, At
      <4>2. QED
        BY <1>1, <1>3, <4>1, DiffIsDifference
    <3>3. QED
      BY <3>1, <3>2
  <2>4. Calm'
    BY <1>1, <1>2, <1>3, <2>1, <2>2, <2>3, CalmFinish DEF OneSided
  <2>5. QED
    BY <2>2, <2>4, NotDirty
<1>10. QED
  BY <1>4, <1>6, <1>7, <1>8, <1>9 DEF DrainStep

(* The poller finds no drift where there is none.                           *)
LEMMA CalmPoll ==
  ASSUME Overlap = FALSE, QInv, PollFetch \/ PollCompare \/ MarkRemoteDirty
  PROVE  DirtyMeansDiffers' /\ Calm'
<1>1. /\ Poller \in Procs /\ TypeOK /\ CInv /\ task \in Tasks
      /\ MayBegin(Poller) \/ proc[Poller].pc # "idle"
  BY QuietTypes DEF Procs, PollFetch, PollCompare, MarkRemoteDirty, At
<1>2. \A q \in Procs : q # Poller => proc[q].pc = "idle"
  BY <1>1, OthersRest DEF CInv, AInv
<1>3. Quiet(spent) => /\ OneSided(task.sync) /\ \A s \in history : OneSided(s.sync)
                      /\ proc[Poller].pc \in {"idle", "poll"} => Matches(issue, task.base)
                      /\ At(Poller, "poll") => proc[Poller].page = issue
                      /\ ~At(Poller, "mark")
  BY <1>1, <1>2, NowTold DEF Told, At, Fetching
<1>4. CASE PollFetch
  <2>1. /\ Fetch(Poller, "poll", task) /\ UNCHANGED <<task, issue, history, spent>>
        /\ "poll" \in Fetching /\ proc[Poller].pc = "idle"
    BY <1>4 DEF PollFetch, Fetching, MayBegin
  <2>2. QED
    BY <1>1, <1>2, <1>3, <2>1, CalmFetch, SameRow
<1>5. CASE PollCompare
  <2> DEFINE drifted == task.sync = "synced"
                        /\ ~InboundMirrorsBaseline(proc[Poller].page.text, proc[Poller].page.state,
                                                   task.base.assignees, task.base)
  <2>1. /\ UNCHANGED <<task, issue, history, spent>> /\ At(Poller, "poll")
        /\ IF drifted THEN Hold(Poller, "mark", task) ELSE Finish(Poller)
    BY <1>5 DEF PollCompare
  <2>2. Quiet(spent) => ~drifted
    BY <1>3, <2>1 DEF Matches, InboundMirrorsBaseline, At
  <2> HIDE DEF drifted
  <2>3. Calm'
    <3>1. CASE drifted
      <4>1. ~Quiet(spent') /\ Hold(Poller, "mark", task)
        BY <2>1, <2>2, <3>1
      <4>2. QED
        BY <1>1, <1>2, <4>1, CalmStep DEF Hold
    <3>2. CASE ~drifted
      BY <1>1, <1>2, <1>3, <2>1, <3>2, CalmFinish DEF At
    <3>3. QED
      BY <3>1, <3>2
  <2>4. QED
    BY <2>1, <2>3, SameRow
<1>6. CASE MarkRemoteDirty
  <2>1. /\ At(Poller, "mark") /\ Finish(Poller) /\ spent' = spent
        /\ task' = task \/ task' = [task EXCEPT !.sync = "dirty_remote"]
    BY <1>6 DEF MarkRemoteDirty
  <2>2. Calm'
    BY <1>1, <1>2, <1>3, <2>1, CalmFinish
  <2>3. DirtyMeansDiffers'
    <3>1. CASE task' = [task EXCEPT !.sync = "dirty_remote"]
      BY <1>1, <3>1, NotDirty DEF Tasks
    <3>2. QED
      BY <2>1, <3>1, SameRow
  <2>4. QED
    BY <2>2, <2>3
<1>7. QED
  BY <1>4, <1>5, <1>6

(* A restart counts as a fault, an edit on GitHub as what it is.            *)
LEMMA CalmElse ==
  ASSUME QInv, Restart \/ RemoteEdit
  PROVE  DirtyMeansDiffers' /\ Calm'
<1>1. TypeOK
  BY QuietTypes
<1>2. task' = task /\ (Spend({"faults"}) \/ Spend({"remote"}))
  BY DEF Restart, RemoteEdit
<1>3. \/ spent'["faults"] = spent["faults"] + 1 /\ spent["faults"] \in Nat
      \/ spent'["remote"] = spent["remote"] + 1 /\ spent["remote"] \in Nat
  BY <1>1, <1>2, SpendGrows
<1>4. ~Quiet(spent')
  BY <1>3 DEF Quiet
<1>5. QED
  BY <1>2, <1>4, SameRow DEF Calm

(* Every step keeps the sync state true                                     *)
LEMMA QInvStep ==
  ASSUME Overlap = FALSE, MaxRebaselines = 0, DropsAssignees = FALSE, QInv, [Next]_vars
  PROVE  QInv'
<1>1. BInv' /\ CInv' /\ TypeOK'
  BY BInvStep, CInvStep DEF QInv, BInv, TInv
<1>2. ASSUME NEW c \in Clis, Begins(c) \/ CliStep(c)
      PROVE  DirtyMeansDiffers' /\ Calm'
  <2>1. c \in Procs
    BY DEF Procs
  <2>2. ~Repair(c)
    BY <2>1, QuietTypes DEF Repair, At
  <2>3. QED
    BY <1>1, <1>2, <2>2, CalmBegin, CalmEdit, CalmPush, CalmPull DEF CliStep
<1>3. ASSUME UNCHANGED vars PROVE DirtyMeansDiffers' /\ Calm'
  <2>1. UNCHANGED <<task, issue, proc, history, spent>>
    BY <1>3 DEF vars
  <2>2. Calm'
    BY <2>1 DEF QInv, Calm
  <2>3. QED
    BY <2>1, <2>2, SameRow
<1>4. DirtyMeansDiffers' /\ Calm'
  <2>1. CASE DrainBegin \/ DrainStep
    BY <2>1, CalmDrain
  <2>2. CASE PollFetch \/ PollCompare \/ MarkRemoteDirty
    BY <2>2, CalmPoll
  <2>3. CASE Restart \/ RemoteEdit
    BY <2>3, CalmElse
  <2>4. QED
    BY <1>2, <1>3, <2>1, <2>2, <2>3 DEF Next, Begins
<1>5. QED
  BY <1>1, <1>4 DEF QInv

(* and the imported task starts with the issue's content.                   *)
LEMMA QInvInit == Init => QInv
<1> SUFFICES ASSUME Init PROVE QInv
  OBVIOUS
<1>1. BInv /\ CInv
  BY BInvInit, CInvInit
<1>2. PICK i \in Issues :
        LET live == [text |-> i.text, assignees |-> i.assignees,
                     status |-> IF i.state = "closed" THEN "completed" ELSE "open"]
            t == [sync |-> "synced", live |-> live, base |-> live]
        IN  /\ issue = i /\ task = t
            /\ proc = [p \in Procs |-> Rest]
            /\ history = Snapshots({t})
  BY DEF Init
<1>3. i = [text |-> i.text, state |-> i.state, assignees |-> i.assignees] /\ i.state \in {"open", "closed"}
  BY DEF Issues
<1>4. Matches(issue, task.base) /\ task.sync = "synced" /\ history = Snapshots({task})
  BY <1>2, <1>3 DEF Matches, RemoteState
<1>5. \A s \in history : OneSided(s.sync)
  BY <1>4 DEF Snapshots, OneSided
<1>6. Calm
  BY <1>2, <1>4, <1>5 DEF Calm, Told, Rest, Fetching, OneSided
<1>7. DirtyMeansDiffers
  BY <1>4 DEF DirtyMeansDiffers
<1>8. QED
  BY <1>1, <1>6, <1>7 DEF QInv

(* Without overlap, aligning saves of what is not aligned and dropped       *)
(* assignees: a DirtyLocal task differs from its baseline, a conflict takes *)
(* an edit on GitHub or a failed call, a Synced task at rest has its        *)
(* issue's content as long as there was neither, and drift stays visible.   *)
THEOREM TaskSyncStateIsTrue ==
  ASSUME Overlap = FALSE, MaxRebaselines = 0, DropsAssignees = FALSE
  PROVE  Spec => []StateIsTrue
<1>1. QInv => StateIsTrue
  <2> SUFFICES ASSUME QInv PROVE StateIsTrue
    OBVIOUS
  <2>1. DirtyMeansDiffers /\ DriftSurfaced
    BY DEF QInv, CInv, Surfaced, DriftSurfaced
  <2>2. ConflictNeedsRemote
    <3>1. spent["remote"] \in Nat /\ spent["faults"] \in Nat
      BY QuietTypes DEF TypeOK
    <3>2. QED
      BY <3>1 DEF QInv, Calm, OneSided, Quiet, ConflictNeedsRemote
  <2>3. ASSUME task.sync = "synced", Idle, spent.remote = 0, spent.faults = 0 PROVE Mirrored
    <3>1. Drainer \in Procs /\ \A q \in Procs : proc[q].pc = "idle"
      BY <2>3 DEF Idle, At, Procs
    <3>2. Matches(issue, task.base)
      BY <2>3, <3>1, NowTold DEF Told, Quiet
    <3>3. task.live = task.base
      BY <2>3 DEF QInv, CInv, AInv, CleanMeansAligned
    <3>4. QED
      BY <3>2, <3>3 DEF Matches, Mirrored
  <2>4. QED
    BY <2>1, <2>2, <2>3 DEF StateIsTrue, SyncedIsMirrored
<1>2. QInv /\ [Next]_vars => QInv'
  BY QInvStep
<1>3. QED
  BY <1>1, <1>2, QInvInit, PTL DEF Spec

(* A step of a command is a step of its process.                            *)
LEMMA CommandMoves ==
  ASSUME TypeOK, NEW c \in Clis, Begins(c) \/ CliStep(c)
  PROVE  proc'[c] # proc[c]
<1>1. c \in Procs
  BY DEF Procs
<1>2. ASSUME NEW pc, NEW t, pc # proc[c].pc, Hold(c, pc, t) \/ Fetch(c, pc, t)
      PROVE  proc'[c] # proc[c]
  <2>1. proc'[c].pc = pc
    BY <1>1, <1>2, MovesItself DEF Hold, Fetch
  <2>2. QED
    BY <1>2, <2>1
<1>3. ASSUME proc[c].pc # "idle", Finish(c) PROVE proc'[c] # proc[c]
  <2>1. proc'[c] = Rest
    BY <1>1, <1>3, MovesItself DEF Finish
  <2>2. Rest.pc = "idle"
    BY DEF Rest
  <2>3. QED
    BY <1>3, <2>1, <2>2
<1>4. CASE Begins(c)
  <2>1. PICK pc \in Working, budget \in SUBSET {"rollbacks", "rebaselines"} : Command(c, pc, budget)
    BY <1>4, BeginsIsCommand
  <2>2. Hold(c, pc, task) /\ pc # proc[c].pc
    BY <2>1 DEF Command, MayBegin, Working
  <2>3. QED
    BY <1>2, <2>2
<1>5. CASE PushSend(c)
  <2>1. (IF At(c, "push") THEN "sent" ELSE "sent_all") # proc[c].pc
    BY <1>5 DEF PushSend, At
  <2>2. QED
    BY <1>2, <1>5, <2>1 DEF PushSend
<1>6. CASE PullFetch(c)
  <2>1. (IF At(c, "pull") THEN "fetched" ELSE "force_fetched") # proc[c].pc
    BY <1>6 DEF PullFetch, At
  <2>2. QED
    BY <1>2, <1>6, <2>1 DEF PullFetch
<1>7. CASE PullApply(c)
  <2>1. "relations" # proc[c].pc
    BY <1>7 DEF PullApply, At
  <2>2. QED
    BY <1>2, <1>7, <2>1 DEF PullApply
<1>8. CASE Update(c) \/ TransitionMirror(c) \/ Rollback(c) \/ Repair(c) \/ PushFails(c) \/ PushSave(c)
           \/ PullDone(c) \/ PullRelations(c)
  BY <1>3, <1>8 DEF Update, TransitionMirror, SaveEdit, Rollback, Repair, PushFails, PushSave,
                    PullDone, PullRelations, At
<1>9. QED
  BY <1>4, <1>5, <1>6, <1>7, <1>8 DEF CliStep

(* A saved content is among the snapshots, and none is ever removed.        *)
Recorded == \E s \in history : s.live = task.live

LEMMA SnapshotsTell ==
  ASSUME MaxRollbacks # 0, NEW ts, NEW t \in ts
  PROVE  \E s \in Snapshots(ts) : s.live = t.live
<1>1. [sync |-> t.sync, live |-> t.live] \in Snapshots(ts)
  BY DEF Snapshots
<1> QED BY <1>1

LEMMA SaveRecords ==
  ASSUME MaxRollbacks # 0, NEW t, NEW source, Save(t, source)
  PROVE  history \subseteq history' /\ Recorded'
<1>1. task'.live = t.live /\ history' = history \cup Snapshots({t})
  BY DEF Save
<1>2. \E s \in Snapshots({t}) : s.live = t.live
  BY SnapshotsTell
<1> QED BY <1>1, <1>2 DEF Recorded

(* So whatever is done, the current content is a snapshot.                  *)
LEMMA RecordedStep ==
  ASSUME MaxRollbacks # 0, TypeOK, Recorded, [Next]_vars
  PROVE  history \subseteq history' /\ Recorded'
<1>1. task \in Tasks
  BY DEF TypeOK
<1>2. ASSUME UNCHANGED <<task, history>> PROVE history \subseteq history' /\ Recorded'
  BY <1>2 DEF Recorded
<1>3. ASSUME NEW t, NEW source, Save(t, source) PROVE history \subseteq history' /\ Recorded'
  BY <1>3, SaveRecords
<1>4. ASSUME NEW c \in Clis, Begins(c) PROVE history \subseteq history' /\ Recorded'
  <2>1. PICK pc \in Working, budget \in SUBSET {"rollbacks", "rebaselines"} : Command(c, pc, budget)
    BY <1>4, BeginsIsCommand
  <2>2. UNCHANGED <<task, history>>
    BY <2>1 DEF Command
  <2> QED BY <1>2, <2>2
<1>5. ASSUME NEW c \in Clis, CliStep(c) PROVE history \subseteq history' /\ Recorded'
  <2>1. CASE Update(c) \/ TransitionMirror(c) \/ Rollback(c) \/ Repair(c) \/ PushSave(c) \/ PullRelations(c)
    <3>1. CASE Update(c) \/ Rollback(c) \/ Repair(c) \/ PushSave(c) \/ PullRelations(c)
      <4>1. \E t, source : Save(t, source)
        BY <3>1, Zenon DEF Update, SaveEdit, Rollback, Repair, PushSave, PullRelations
      <4> QED BY <1>3, <4>1
    <3>2. CASE TransitionMirror(c)
      <4>1. UNCHANGED <<task, history>> \/ \E t, source : Save(t, source)
        BY <3>2 DEF TransitionMirror, SaveEdit
      <4> QED BY <1>2, <1>3, <4>1
    <3> QED BY <2>1, <3>1, <3>2
  <2>2. CASE PullApply(c)
    <3> DEFINE new == Adopted(proc[c].copy, proc[c].page)
    <3>1. CASE UNCHANGED <<task, history>>
      BY <1>2, <3>1
    <3> DEFINE pair == {proc[c].copy, new}
    <3>2. new \in pair
      OBVIOUS
    <3>3. CASE task' = new /\ history' = history \cup Snapshots(pair)
      <4>1. \E s \in Snapshots(pair) : s.live = new.live
        <5> HIDE DEF new, pair
        <5> QED BY <3>2, SnapshotsTell
      <4> HIDE DEF new, pair
      <4> QED BY <3>3, <4>1 DEF Recorded
    <3>4. \/ UNCHANGED <<task, history>>
          \/ task' = new /\ history' = history \cup Snapshots(pair)
      BY <2>2 DEF PullApply
    <3> QED BY <3>1, <3>3, <3>4
  <2>3. CASE PushSend(c) \/ PushFails(c) \/ PullFetch(c) \/ PullDone(c)
    BY <1>2, <2>3 DEF PushSend, PushFails, PullFetch, PullDone
  <2> QED BY <1>5, <2>1, <2>2, <2>3 DEF CliStep
<1>6. CASE DrainSend \/ DrainSave
  <2>1. UNCHANGED <<task, history>> \/ \E t, source : Save(t, source)
    BY <1>6 DEF DrainSend, DrainSave
  <2> QED BY <1>2, <1>3, <2>1
<1>7. CASE MarkRemoteDirty
  <2>1. task'.live = task.live /\ history' = history
    BY <1>1, <1>7 DEF MarkRemoteDirty, Tasks
  <2> QED BY <2>1 DEF Recorded
<1>8. CASE DrainBegin \/ DrainSkip \/ DrainFails \/ Restart \/ PollFetch \/ PollCompare \/ RemoteEdit
           \/ UNCHANGED vars
  BY <1>2, <1>8 DEF DrainBegin, DrainSkip, DrainFails, Restart, PollFetch, PollCompare, RemoteEdit, vars
<1> QED BY <1>4, <1>5, <1>6, <1>7, <1>8 DEF Next, Begins, DrainStep

(* Whatever overlaps: where the daemon changes the content of a task, its   *)
(* drainer confirms a copy that an edit has outdated during the PATCH, and  *)
(* the overwritten edit stays among the snapshots a rollback can name.      *)
THEOREM TaskSyncOverwrittenEditIsKept ==
  ASSUME MaxRollbacks # 0
  PROVE  Spec => OverwrittenEditIsKept
<1> DEFINE Keeps ==
      (\A c \in Clis : proc'[c] = proc[c]) /\ task'.live # task.live =>
        /\ DrainSave /\ Draining.live # task.live /\ task'.live = Draining.live
        /\ \E s \in history' : s.live = task.live
<1>1. ASSUME TInv, Recorded, [Next]_vars PROVE [Keeps]_vars
  <2> SUFFICES ASSUME Next, \A c \in Clis : proc'[c] = proc[c], task'.live # task.live PROVE Keeps
    BY <1>1
  <2>1. TypeOK /\ task \in Tasks
    BY <1>1 DEF TInv, TypeOK
  <2>2. \A c \in Clis : ~(Begins(c) \/ CliStep(c))
    BY <2>1, CommandMoves
  <2>3. ~DrainSend
    <3>1. [task EXCEPT !.sync = "conflict"].live = task.live
      BY <2>1 DEF Tasks
    <3> QED BY <3>1 DEF DrainSend, Save
  <2>4. ~MarkRemoteDirty
    BY <2>1 DEF MarkRemoteDirty, Tasks
  <2>5. ~(DrainBegin \/ DrainSkip \/ DrainFails \/ Restart \/ PollFetch \/ PollCompare \/ RemoteEdit)
    BY DEF DrainBegin, DrainSkip, DrainFails, Restart, PollFetch, PollCompare, RemoteEdit
  <2>6. DrainSave
    BY <2>2, <2>3, <2>4, <2>5 DEF Next, Begins, DrainStep
  <2>7. task'.live = Draining.live
    <3>1. Drainer \in Procs /\ proc[Drainer].pc # "idle"
      BY <2>6 DEF DrainSave, At, Procs
    <3>2. Draining \in Tasks
      BY <2>1, <3>1, CopyType DEF Draining
    <3>3. ConfirmSyncedFields(Draining, DrainPatch).live = Draining.live
      BY <3>2 DEF ConfirmSyncedFields, Tasks
    <3> QED BY <2>6, <3>3 DEF DrainSave, Save
  <2>8. \E s \in history' : s.live = task.live
    BY <1>1, <2>1, RecordedStep DEF Recorded
  <2> QED BY <2>6, <2>7, <2>8
<1>2. TInv /\ Recorded /\ [Next]_vars => TInv' /\ Recorded'
  BY TInvStep, RecordedStep DEF TInv
<1>3. Init => TInv /\ Recorded
  <2>1. ASSUME Init PROVE Recorded
    <3>1. PICK t : task = t /\ history = Snapshots({t})
      BY <2>1 DEF Init
    <3> QED BY <3>1, SnapshotsTell DEF Recorded
  <2> QED BY <2>1, TInvInit
<1> QED BY <1>1, <1>2, <1>3, PTL DEF Spec, OverwrittenEditIsKept
=============================================================================
