----------------------------- MODULE Aggregate -----------------------------
(***************************************************************************)
(* One task as the store keeps it: the row, its append-only snapshots, and  *)
(* the copies that commands read, change through the aggregate's methods    *)
(* and write back whole, while the daemon writes single columns underneath. *)
(* promote and pull write the one copy they loaded back several times, with *)
(* calls to GitHub in between; a copy stands at the step reached.           *)
(*                                                                          *)
(* TaskSync follows the same task through its conversation with GitHub;     *)
(* here the question is which column survives which write.  The baseline    *)
(* is not a column: a load finds it among the snapshots.                    *)
(***************************************************************************)
EXTENDS Integers, Sequences, Functions

CONSTANTS
  Texts,         \* titles and bodies, treated alike
  People,        \* lists of assignees
  IssueTypes,    \* issue types, without None
  Repos,         \* repo ids
  Issues,        \* issue numbers
  Options,       \* status options of the board, and polled priorities
  AggProcs,      \* rl processes and the drainer
  AggCommands,   \* bound: whole-row commands
  AggWrites      \* bound: targeted writes

None == "none"
Lifecycles == {"open", "reopened", "completed", "not_planned"}
SyncStates == {"local_only", "staged", "synced", "dirty_local", "dirty_remote", "conflict"}

AggregateConstants ==
  /\ None \notin IssueTypes \cup Repos \cup Issues
  /\ \A w \in People : w \in Seq(Range(w))
  /\ {AggCommands, AggWrites} \subseteq Nat

VARIABLES
  row,        \* the row of tasks
  history,    \* task_snapshots, by version
  copy,       \* what each process has in hand: <<>> or <<task>>
  stamped,    \* history: the last time stamped by cache_synced_at
  settled,    \* history: the type the remote was last told of
  shown,      \* history: the board columns as last polled
  stale,      \* history: has a whole row been written from an outdated copy?
  aggSpent    \* how much of each bound is used

aggVars == <<row, history, copy, stamped, settled, shown, stale, aggSpent>>

Content == {"text", "who", "status"}
-----------------------------------------------------------------------------
(* The aggregate.                                                           *)

(* Lists of assignees are compared as sets of the same length.              *)
AssigneesEqual(a, b) == Len(a) = Len(b) /\ Range(a) = Range(b)

Differs(f, t, base) == IF f = "who" THEN ~AssigneesEqual(t.who, base.who) ELSE t[f] # base[f]

(* diff_against_baseline: nothing without a baseline.                       *)
Diff(t) == {f \in Content : t.base # <<>> /\ Differs(f, t, t.base[1])}

Reconciled(t) ==
  [t EXCEPT !.sync = CASE @ = "synced" /\ Diff(t) # {}       -> "dirty_local"
                       [] @ = "dirty_local" /\ t.base # <<>> /\ Diff(t) = {} -> "synced"
                       [] @ = "dirty_remote" /\ Diff(t) # {} -> "conflict"
                       [] OTHER                              -> @]

View(t) == [f \in Content |-> t[f]]
Aligned(t) == [t EXCEPT !.sync = "synced", !.base = <<View(t)>>]

(* confirm_synced_fields: the sent fields move into the baseline.           *)
ConfirmFields(t, patch) ==
  LET base == [f \in Content |-> IF f \in patch THEN t[f] ELSE t.base[1][f]]
  IN  Reconciled([t EXCEPT !.sync = "synced", !.base = <<base>>])

CanConfirm(t, patch) ==
  /\ t.base # <<>>
  /\ t.sync \in {"staged", "dirty_local", "dirty_remote"} \/ (t.sync = "conflict" /\ patch = Content)

(* set_repo_id: the home of an issue must be recorded before the logical    *)
(* repo may move away from it.                                              *)
CanSetRepo(t, repo) == repo = t.repo \/ t.remote = None \/ t.filing # None
CanSetFiling(t, repo) == repo = t.filing \/ t.filing = None

(* copy_inbound_mirror_from_snap: an issue says only whether it is closed,  *)
(* and a lifecycle that agrees with it stays what it was.                   *)
RemoteStateToLifecycle(closed, status) ==
  IF closed = (status \in {"completed", "not_planned"}) THEN status
  ELSE IF closed THEN "completed" ELSE "reopened"

CopyInbound(t, text, who, closed) ==
  [t EXCEPT !.text = text, !.who = who, !.status = RemoteStateToLifecycle(closed, @)]

NewDraft(text, repo) ==
  [text |-> text, who |-> <<>>, status |-> "open", sync |-> "local_only", prio |-> None,
   type |-> None, pending |-> FALSE, repo |-> repo, filing |-> None, remote |-> None,
   node |-> FALSE, option |-> None, seen |-> 0]

ImportMirror(text, who, closed, repo, n) ==
  [NewDraft(text, repo) EXCEPT !.who = who, !.status = IF closed THEN "completed" ELSE "open",
                               !.sync = "synced", !.filing = repo, !.remote = n, !.node = TRUE]
-----------------------------------------------------------------------------
(* The store.                                                               *)

(* snapshot_view; a snapshot keeps no node id.                              *)
Snapshot(t, source) ==
  [text |-> t.text, who |-> t.who, status |-> t.status, sync |-> t.sync, prio |-> t.prio,
   type |-> t.type, repo |-> t.repo, filing |-> t.filing, remote |-> t.remote,
   recorded |-> TRUE, source |-> source]

IsBaseline(s) ==
  \/ s.source \in {"promote", "push", "pull", "conflict_resolve", "filing_repo_repair"}
  \/ s.source = "link" /\ s.sync = "synced"

LoadLatestBaseline(h) ==
  LET versions == {v \in DOMAIN h : IsBaseline(h[v])}
  IN  IF versions = {} THEN <<>>
      ELSE <<View(h[CHOOSE v \in versions : \A w \in versions : w <= v])>>

(* TaskSnapshotRepository::get; a version nobody saved is not found.        *)
SnapshotAt(v) == history[v]

Loaded ==
  LET beside == [base |-> LoadLatestBaseline(history), version |-> Len(history), polled |-> shown,
                 step |-> "load"]
  IN  [c \in DOMAIN row \cup DOMAIN beside |-> IF c \in DOMAIN row THEN row[c] ELSE beside[c]]

(* The upsert of write_task_in_tx: synced_at is not written, and the        *)
(* pending flag is armed by a changed type and otherwise left.              *)
Upsert(t) ==
  [c \in DOMAIN row |->
     CASE c = "seen"    -> row.seen
       [] c = "pending" -> row.pending \/ t.type # row.type
       [] OTHER         -> t[c]]

(* write_task_in_tx has no version check: an outdated copy wins.            *)
WriteTask(t, source) ==
  /\ row' = Upsert(t)
  /\ history' = Append(history, Snapshot(t, source))
  /\ stale' = (stale \/ t.version # Len(history) \/ t.polled # shown)
  /\ UNCHANGED <<stamped, settled, shown, aggSpent>>

SaveTask(p, t, source) == WriteTask(t, source) /\ copy' = [copy EXCEPT ![p] = <<>>]

(* A save in the middle of a command, which goes on with the copy it wrote. *)
SaveAndGoOn(p, t, source, step) ==
  /\ WriteTask(t, source)
  /\ copy' = [copy EXCEPT ![p] = <<[t EXCEPT !.version = Len(history) + 1, !.step = step]>>]
-----------------------------------------------------------------------------
(* The commands.                                                            *)

Held(p) == copy[p] # <<>>
Mine(p) == copy[p][1]
Holds(p, step) == Held(p) /\ Mine(p).step = step

LoadTask(p) ==
  /\ ~Held(p) /\ aggSpent.commands < AggCommands
  /\ aggSpent' = [aggSpent EXCEPT !.commands = @ + 1]
  /\ copy' = [copy EXCEPT ![p] = <<Loaded>>]
  /\ UNCHANGED <<row, history, stamped, settled, shown, stale>>

(* A command that fails, is refused, is killed or has nothing more to save. *)
GiveUp(p) ==
  /\ Held(p)
  /\ copy' = [copy EXCEPT ![p] = <<>>]
  /\ UNCHANGED <<row, history, stamped, settled, shown, stale, aggSpent>>

(* TaskService::update: each setter reconciles on its own; priority, type   *)
(* and the repos never do.                                                  *)
UpdateMirrored(p) ==
  /\ Holds(p, "load")
  /\ \E text \in Texts, who \in People :
       SaveTask(p, Reconciled([Reconciled([Mine(p) EXCEPT !.text = text]) EXCEPT !.who = who]), "local_edit")

UpdateLocal(p) ==
  /\ Holds(p, "load")
  /\ \/ \E o \in Options : SaveTask(p, [Mine(p) EXCEPT !.prio = o], "local_edit")
     \/ \E y \in IssueTypes \cup {None} : SaveTask(p, [Mine(p) EXCEPT !.type = y], "local_edit")
     \/ \E r \in Repos : /\ CanSetRepo(Mine(p), r)
                         /\ SaveTask(p, [Mine(p) EXCEPT !.repo = r], "local_edit")
     \/ \E r \in Repos : /\ CanSetFiling(Mine(p), r)
                         /\ SaveTask(p, [Mine(p) EXCEPT !.filing = r], "local_edit")

(* complete, archive, reopen: the same state again is no transition.        *)
SetLifecycle(p) ==
  /\ Holds(p, "load")
  /\ \E s \in Lifecycles \ {"open", Mine(p).status} :
       SaveTask(p, Reconciled([Mine(p) EXCEPT !.status = s]), "local_edit")

StageForSync(p) ==
  /\ Holds(p, "load") /\ Mine(p).sync \in {"local_only", "dirty_local"}
  /\ SaveTask(p, [Mine(p) EXCEPT !.sync = "staged"], "local_edit")

(* promote, before the issue is created: the task is staged in the repo     *)
(* resolved for it, and saved unless it was both already.                   *)
StageForPromote(p) ==
  /\ Holds(p, "load") /\ Mine(p).status # "not_planned"
  /\ Mine(p).sync = "local_only" \/ (Mine(p).sync = "staged" /\ Mine(p).filing = None)
  /\ \E home \in Repos :
       /\ CanSetFiling(Mine(p), home)
       /\ SaveAndGoOn(p, [Mine(p) EXCEPT !.sync = "staged", !.filing = home], "local_edit", "promote")

(* A missing type may be filled with the workspace's default, and the issue *)
(* that was created or found becomes the remote.                            *)
PromoteToRemote(p) ==
  /\ \/ Holds(p, "promote")
     \/ Holds(p, "load") /\ Mine(p).sync = "staged" /\ Mine(p).filing # None /\ Mine(p).status # "not_planned"
  /\ \E n \in Issues, type \in IssueTypes \cup {None} :
       /\ type = Mine(p).type \/ Mine(p).type = None
       /\ SaveTask(p, Aligned([Mine(p) EXCEPT !.remote = n, !.node = TRUE, !.type = type]), "promote")

(* push, or push --force out of a conflict, after GitHub has taken it.      *)
ConfirmPush(p) ==
  /\ Holds(p, "load") /\ Mine(p).remote # None
  /\ LET patch == IF Mine(p).sync = "conflict" THEN Content ELSE Diff(Mine(p))
     IN  CanConfirm(Mine(p), patch) /\ SaveTask(p, ConfirmFields(Mine(p), patch), "push")

(* pull: the state it is about to overwrite is kept as a snapshot, ...      *)
PrePull(p) ==
  /\ Holds(p, "load") /\ Mine(p).remote # None /\ Mine(p).status # "not_planned"
  /\ Mine(p).sync \in {"synced", "conflict", "dirty_local", "dirty_remote"}
  /\ \E node \in {Mine(p).node, TRUE} : SaveAndGoOn(p, [Mine(p) EXCEPT !.node = node], "pre_pull", "pull")

(* ... then the content of the issue is taken over, ...                     *)
AdoptAlignedState(p) ==
  /\ Holds(p, "pull")
  /\ \E text \in Texts, who \in People, closed \in BOOLEAN :
       SaveAndGoOn(p, Aligned(CopyInbound(Mine(p), text, who, closed)), "pull", "graph")

(* ... and then, after a pull that took nothing as well, the relations.     *)
(* The subject and its neighbours are saved as pulled with the content they *)
(* have, which nobody may have sent yet.                                    *)
ReconcileRelationsInbound(p) ==
  /\ \/ Holds(p, "graph")
     \/ Holds(p, "load") /\ Mine(p).remote # None
  /\ \E learned \in BOOLEAN :
       /\ learned => Mine(p).step = "load"
       /\ SaveTask(p, [Mine(p) EXCEPT !.node = @ \/ learned], "pull")

(* The drainer, when GitHub's answer contradicts what was sent.             *)
MarkConflicted(p) ==
  /\ Holds(p, "load") /\ Mine(p).sync \in {"dirty_local", "dirty_remote", "synced"}
  /\ SaveTask(p, [Mine(p) EXCEPT !.sync = "conflict"], "local_edit")

(* link and link --relink.                                                  *)
LinkToRemote(p) ==
  /\ Holds(p, "load")
  /\ \E r \in Repos, n \in Issues :
       LET t == [Mine(p) EXCEPT !.repo = r, !.remote = n]
       IN  \/ SaveTask(p, [t EXCEPT !.node = FALSE, !.sync = "conflict"], "link")
           \/ /\ Mine(p).sync = "synced" /\ Mine(p).remote # None
              /\ \E text \in Texts, who \in People, closed \in BOOLEAN :
                   SaveTask(p, [CopyInbound(t, text, who, closed) EXCEPT !.node = TRUE], "link")

(* transfer: the issue has moved, and its new home is recorded with it.     *)
Transfer(p) ==
  /\ Holds(p, "load") /\ Mine(p).remote # None
  /\ Mine(p).sync = "synced" /\ Mine(p).status # "not_planned"
  /\ \E n \in Issues, home \in Repos \ {Mine(p).filing} :
       SaveTask(p, [Mine(p) EXCEPT !.remote = n, !.node = TRUE, !.filing = home], "link")

(* The drainer, when a draft has become an issue, or the board an item; a   *)
(* relation edit saves the rest of the row unchanged too.                   *)
WriteBackConvertedIssue(p) ==
  /\ Holds(p, "load")
  /\ \E n \in Issues : SaveTask(p, [Mine(p) EXCEPT !.remote = n, !.node = TRUE], "local_edit")

WriteBackProjectItem(p) == Holds(p, "load") /\ SaveTask(p, Mine(p), "local_edit")

(* repo doctor --repair.                                                    *)
ForceSetFiling(p) ==
  /\ Holds(p, "load") /\ Mine(p).filing # None
  /\ \E r \in Repos \ {Mine(p).filing} : SaveTask(p, [Mine(p) EXCEPT !.filing = r], "filing_repo_repair")

(* rollback: everything a snapshot has, but the filing repo; a snapshot     *)
(* older than the columns gives neither type nor repo.                      *)
RollbackTo(p) ==
  /\ Holds(p, "load")
  /\ \E v \in DOMAIN history :
       LET s == SnapshotAt(v)
           t == [c \in DOMAIN Mine(p) |->
                   CASE c \in Content \cup {"sync", "prio", "remote"} -> s[c]
                     [] c \in {"type", "repo"} /\ s.recorded         -> s[c]
                     [] c = "node"                                   -> FALSE
                     [] OTHER                                        -> Mine(p)[c]]
       IN  SaveTask(p, Reconciled(t), "rollback")
-----------------------------------------------------------------------------
(* The targeted writes of the daemon, and of the pulls that change nothing. *)

Targeted(columns) ==
  /\ aggSpent.writes < AggWrites
  /\ aggSpent' = [aggSpent EXCEPT !.writes = @ + 1]
  /\ row' = [c \in DOMAIN row |-> IF c \in DOMAIN columns THEN columns[c] ELSE row[c]]
  /\ UNCHANGED <<history, copy, stale>>

CacheProjectStatus(o) ==
  /\ Targeted([option |-> o])
  /\ shown' = o
  /\ UNCHANGED <<stamped, settled>>

ApplyPolledPriority(o) == Targeted([prio |-> o]) /\ UNCHANGED <<stamped, settled, shown>>

MarkRemoteDirty ==
  /\ row.sync = "synced"
  /\ Targeted([sync |-> "dirty_remote"])
  /\ UNCHANGED <<stamped, settled, shown>>

CacheRemoteNodeId == row.remote # None /\ Targeted([node |-> TRUE]) /\ UNCHANGED <<stamped, settled, shown>>

(* After the remote has taken a type: only if it is still the row's.        *)
ClearIssueTypePending(y) ==
  /\ row.pending /\ row.type = y
  /\ Targeted([pending |-> FALSE])
  /\ settled' = y
  /\ UNCHANGED <<stamped, shown>>

CacheSyncedAt ==
  /\ Targeted([seen |-> stamped + 1])
  /\ stamped' = stamped + 1
  /\ UNCHANGED <<settled, shown>>
-----------------------------------------------------------------------------
AggregateInit ==
  \E text \in Texts, who \in People, closed \in BOOLEAN, r \in Repos, n \in Issues :
    /\ \/ /\ row = NewDraft(text, r)
          /\ \E known \in BOOLEAN : history = <<[Snapshot(row, "created") EXCEPT !.recorded = known]>>
       \/ /\ row = ImportMirror(text, who, closed, r, n)
          /\ history = <<Snapshot(row, "pull")>>
    /\ copy = [p \in AggProcs |-> <<>>]
    /\ stamped = 0 /\ settled = None /\ shown = None /\ stale = FALSE
    /\ aggSpent = [commands |-> 0, writes |-> 0]

AggregateNext ==
  \/ \E p \in AggProcs :
       \/ LoadTask(p) \/ GiveUp(p) \/ UpdateMirrored(p) \/ UpdateLocal(p) \/ SetLifecycle(p)
       \/ StageForSync(p) \/ StageForPromote(p) \/ PromoteToRemote(p) \/ ConfirmPush(p)
       \/ PrePull(p) \/ AdoptAlignedState(p) \/ ReconcileRelationsInbound(p) \/ MarkConflicted(p)
       \/ LinkToRemote(p) \/ Transfer(p) \/ ForceSetFiling(p) \/ RollbackTo(p)
       \/ WriteBackConvertedIssue(p) \/ WriteBackProjectItem(p)
  \/ \E o \in Options : CacheProjectStatus(o) \/ ApplyPolledPriority(o)
  \/ MarkRemoteDirty \/ CacheRemoteNodeId \/ CacheSyncedAt
  \/ \E y \in IssueTypes \cup {None} : ClearIssueTypePending(y)

AggregateSpec == AggregateInit /\ [][AggregateNext]_aggVars
-----------------------------------------------------------------------------
(* Whatever the daemon writes underneath, the newest snapshot is the row:   *)
(* a poll never undoes an edit, and the only sync state it may write over   *)
(* is a clean one (mark_remote_dirty, cache_project_status).                *)
EditsSurvivePolls ==
  LET s == history[Len(history)]
  IN  /\ \A c \in Content \cup {"type", "repo", "filing", "remote"} : row[c] = s[c]
      /\ row.sync = s.sync \/ (s.sync = "synced" /\ row.sync = "dirty_remote")

(* However old the copies that are written back, synced_at is the last time *)
(* anyone observed the issue, a type the remote was not told of is pending, *)
(* and a node id has an issue (the upsert of write_task_in_tx).             *)
ColumnsSurviveSaves ==
  /\ row.seen = stamped
  /\ ~row.pending => row.type = settled
  /\ row.node => row.remote # None
  /\ ~stale => row.option = shown

(* The baseline a load finds was saved before its content was sent: by the  *)
(* inbound reconcile of relations or by the doctor's repair.                *)
Unsent(h) ==
  \E v \in DOMAIN h :
    /\ IsBaseline(h[v]) /\ h[v].sync = "dirty_local"
    /\ \A w \in DOMAIN h : IsBaseline(h[w]) => w <= v

(* As long as no outdated copy was written back, the stored sync state is   *)
(* what the content says: a clean task has the text, the state and, in      *)
(* whatever order, the assignees of the baseline a load finds, and a dirty  *)
(* one does not, unless that baseline was itself saved unsent               *)
(* (reconcile_dirty_against_baseline, load_latest_baseline).                *)
VerdictIsTrue ==
  LET base   == LoadLatestBaseline(history)
      edited == /\ base # <<>>
                /\ \/ row.text # base[1].text \/ row.status # base[1].status
                   \/ ~AssigneesEqual(row.who, base[1].who)
  IN  ~stale =>
        /\ row.sync \in {"synced", "dirty_remote"} => ~edited
        /\ row.sync = "dirty_local" => edited \/ Unsent(history)

(* The three together, for the runs.                                        *)
AggregateIsSound == EditsSurvivePolls /\ ColumnsSurviveSaves /\ VerdictIsTrue
=============================================================================
