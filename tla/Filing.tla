------------------------------- MODULE Filing -------------------------------
(***************************************************************************)
(* Which GitHub issue a task stands for: filing it (SyncService::promote    *)
(* with its crash recovery), importing, linking, transferring and rolling   *)
(* back, over tasks that carry a logical repo, a recorded filing repo and   *)
(* an issue number, and a workspace whose filing default may change.        *)
(*                                                                          *)
(* Commands on different tasks interleave at their remote calls and may be  *)
(* killed there; commands on one task do not overlap (promote documents the *)
(* single writer).  A number addresses an issue only together with the repo *)
(* that filing_canonical_for resolves.  Every repo is bound to the one      *)
(* workspace; a refused command changes nothing and is not an action.       *)
(***************************************************************************)
EXTENDS Integers, Sequences, FiniteSets

CONSTANTS
  Tasks,        \* task ids
  Repos,        \* repo origins, all attached
  Texts,        \* title and body together
  None,         \* no repo, no redirect
  MaxNumber,    \* bound: issue numbers of a repo
  MaxCommands,  \* bound: rl commands other than rl task create and stage
  MaxIncidents  \* bound: processes killed or answers lost at a remote call,
                \*        issues opened or moved in GitHub's own interface, or as
                \*        the last one a command that marks records

ASSUME FilingAssumption ==
  /\ None \notin Repos \cup Texts \cup (Repos \X Nat) /\ Repos # {} /\ Texts # {}
  /\ {MaxNumber, MaxCommands, MaxIncidents} \subseteq Nat

Sync  == {"local_only", "staged", "synced", "dirty_local", "conflict"}
MaybeRepo == Repos \cup {None}

(* RemoteRef.  cached is its node_id, 0 while unknown; node is history: the *)
(* issue that the user or the promote meant.                                *)
NoIssue   == [number |-> 0, node |-> 0, cached |-> 0]
RemoteRef == [number : Nat, node : Nat, cached : Nat]

Absent == [sync |-> "absent"]
Row == [sync : Sync, text : Texts, base : Texts \cup {None}, logical : MaybeRepo,
        filing : MaybeRepo, remote : RemoteRef]
Version == [sync : Sync, text : Texts, logical : MaybeRepo, remote : RemoteRef]

(* An issue, or the redirect it left behind, at a place of a repo.          *)
Place == [node : Nat, text : Texts, moved : {None} \cup (Repos \X Nat)]

VARIABLES
  task,      \* the rows of tasks, each with its baseline
  versions,  \* snapshots that a rollback can restore
  default,   \* the workspace's filing_repo_id
  github,    \* [Repos -> Seq(Place)], indexed by issue number
  nodes,     \* issues created so far
  proc,      \* the command that is running on each task
  spent,     \* how much of each bound is used
  filed,     \* history: [task, repo, node] of every create_remote
  marks      \* history: what was done to a task beyond filing and syncing it

vars == <<task, versions, default, github, nodes, proc, spent, filed, marks>>

Budgets == {"commands", "incidents"}
Rest == [pc |-> "idle"]

-----------------------------------------------------------------------------
(* Addresses.                                                               *)

ResolveFilingRepo(override, wsDefault, logical) ==
  IF override # None THEN override ELSE IF wsDefault # None THEN wsDefault ELSE logical

FilingRepoFor(row) == ResolveFilingRepo(row.filing, default, row.logical)

Exists(r, n)    == r \in Repos /\ n \in 1 .. Len(github[r])
HasMoved(r, n)  == github[r][n].moved # None
NodeAt(r, n)    == github[r][n].node          \* redirects are followed

Mirrored(row) == row # Absent /\ row.remote # NoIssue

(* tracked_remote_ids and find_by_remote.                                   *)
Tracked(r, n) == \E t \in Tasks : /\ Mirrored(task[t])
                                  /\ task[t].filing = r /\ task[t].remote.number = n

KeyAlwaysFree(t, row) == TRUE   \* mutant: the key is not enforced

(* The unique key of remote_mappings; a task without filing repo has the    *)
(* empty string there.                                                      *)
KeyFree(t, row) == Mirrored(row) =>
  \A s \in Tasks \ {t} : Mirrored(task[s]) =>
    <<task[s].filing, task[s].remote.number>> # <<row.filing, row.remote.number>>

-----------------------------------------------------------------------------
(* Saving a task and running a command.                                     *)

VersionOf(row) == [sync |-> row.sync, text |-> row.text, logical |-> row.logical, remote |-> row.remote]

(* The task and its snapshot: the latest with each remote, as long as a     *)
(* rollback may follow (TaskSync has the other snapshots).                  *)
Save(t, row) ==
  /\ KeyFree(t, row)
  /\ task' = [task EXCEPT ![t] = row]
  /\ versions' = IF spent["incidents"] = MaxIncidents THEN [s \in Tasks |-> {}]
                 ELSE [versions EXCEPT ![t] = {v \in @ : v.remote # row.remote} \cup {VersionOf(row)}]

Reconciled(row) ==
  [row EXCEPT !.sync = CASE row.base = None -> row.sync
                         [] row.sync = "synced" /\ row.text # row.base -> "dirty_local"
                         [] row.sync = "dirty_local" /\ row.text = row.base -> "synced"
                         [] OTHER -> row.sync]

Aligned(row) == [row EXCEPT !.sync = "synced", !.base = row.text]

Bound(b) == IF b = "commands" THEN MaxCommands ELSE MaxIncidents
Spend(b) == spent[b] < Bound(b) /\ spent' = [spent EXCEPT ![b] = @ + 1]

Idle(t) == proc[t].pc = "idle"
Command(t) == Idle(t) /\ Spend("commands")
(* The commands that marks records: no incident follows one.                *)
Unusual(t) == /\ Idle(t) /\ spent["incidents"] < MaxIncidents
              /\ spent' = [spent EXCEPT !["incidents"] = MaxIncidents]
Mark(t, m) == marks' = [marks EXCEPT ![t] = @ \cup {m}]

(* A command without a remote call, or whose calls are taken as one step.   *)
Local(t, row) == Save(t, row) /\ UNCHANGED <<default, github, nodes, proc, filed>>

-----------------------------------------------------------------------------
(* Creating and editing.                                                    *)

Create(t) ==
  /\ task[t] = Absent /\ UNCHANGED spent
  /\ \E text \in Texts, logical \in MaybeRepo, override \in MaybeRepo :
       /\ override # None => override # logical   \* recording it adds nothing
       /\ Local(t, [sync |-> "local_only", text |-> text, base |-> None, logical |-> logical,
                    filing |-> override, remote |-> NoIssue])
  /\ UNCHANGED marks

(* rl sync import: an issue that is already tracked is left alone.          *)
Import(t) ==
  /\ task[t] = Absent /\ Command(t)
  /\ \E r \in Repos : \E n \in 1 .. Len(github[r]) :
       /\ ~Tracked(r, n) /\ ~HasMoved(r, n)
       /\ Local(t, [sync |-> "synced", text |-> github[r][n].text, base |-> github[r][n].text,
                    logical |-> r, filing |-> r,
                    remote |-> [number |-> n, node |-> NodeAt(r, n), cached |-> 0]])
  /\ UNCHANGED marks

(* TaskService::update: the text ...                                        *)
EditText(t) ==
  /\ task[t] # Absent
  /\ IF task[t].sync = "staged" THEN Unusual(t) /\ Mark(t, "reworded")
                                ELSE Command(t) /\ UNCHANGED marks
  /\ \E text \in Texts \ {task[t].text} : Local(t, Reconciled([task[t] EXCEPT !.text = text]))

(* ... the logical repo (set_repo_id) ...                                   *)
EditRepo(t) ==
  /\ task[t] # Absent /\ Command(t)
  /\ Mirrored(task[t]) => task[t].filing # None
  /\ \E r \in Repos \ {task[t].logical} : Local(t, [task[t] EXCEPT !.logical = r])
  /\ UNCHANGED marks

(* ... and the filing repo, which can only be recorded once.                *)
EditFiling(t) ==
  /\ task[t] # Absent /\ Command(t)
  /\ task[t].filing = None
  /\ \E r \in Repos : Local(t, [task[t] EXCEPT !.filing = r])
  /\ UNCHANGED marks

(* rl task stage; a dirty mirrored task can be staged too.                  *)
Stage(t) ==
  /\ task[t] # Absent
  /\ \/ task[t].sync = "local_only" /\ Idle(t) /\ UNCHANGED <<spent, marks>>
     \/ task[t].sync = "dirty_local" /\ Unusual(t) /\ Mark(t, "restaged")
  /\ Local(t, [task[t] EXCEPT !.sync = "staged"])

SetDefault ==
  /\ Spend("commands")
  /\ \E r \in MaybeRepo \ {default} : default' = r
  /\ UNCHANGED <<task, versions, github, nodes, proc, filed, marks>>

-----------------------------------------------------------------------------
(* rl sync promote.  The task is staged and its filing repo recorded before *)
(* the remote call; a task that was staged already may have been through it *)
(* and is looked for first.                                                 *)

SavedAfterCreate(t, row) == UNCHANGED <<task, versions>>   \* mutant: nothing is durable before the call

SavedBeforeCreate(t, row) ==
  IF task[t] = row THEN UNCHANGED <<task, versions>> ELSE Save(t, row)

PromoteBegin(t) ==
  /\ task[t] # Absent /\ Command(t)
  /\ task[t].sync \in {"local_only", "staged"}
  /\ FilingRepoFor(task[t]) # None
  /\ LET row == [task[t] EXCEPT !.sync = "staged", !.filing = FilingRepoFor(task[t])]
     IN  /\ SavedBeforeCreate(t, row)
         /\ proc' = [proc EXCEPT ![t] =
                       [pc |-> IF task[t].sync = "staged" THEN "scan" ELSE "create", copy |-> row]]
  /\ UNCHANGED <<default, github, nodes, filed, marks>>

(* find_promoted_orphan, within its look-back window.                       *)
UntrackedMatches(r, text) ==
  {n \in 1 .. Len(github[r]) : github[r][n].text = text /\ ~HasMoved(r, n) /\ ~Tracked(r, n)}

Holding(pc, copy, number, node) ==
  [pc |-> pc, copy |-> copy, remote |-> [number |-> number, node |-> node, cached |-> node]]

(* None found: create.  One: adopt it.  More: the command fails.            *)
PromoteScan(t) ==
  /\ proc[t].pc = "scan"
  /\ LET copy  == proc[t].copy
         found == UntrackedMatches(copy.filing, copy.text)
     IN  \/ found = {} /\ proc' = [proc EXCEPT ![t].pc = "create"]
         \/ \E n \in found :
              /\ found = {n}
              /\ proc' = [proc EXCEPT ![t] = Holding("created", copy, n, NodeAt(copy.filing, n))]
         \/ Cardinality(found) > 1 /\ proc' = [proc EXCEPT ![t] = Rest]
  /\ UNCHANGED <<task, versions, default, github, nodes, spent, filed, marks>>

Opened(r, text) ==
  /\ Len(github[r]) < MaxNumber
  /\ github' = [github EXCEPT ![r] = Append(@, [node |-> nodes + 1, text |-> text, moved |-> None])]
  /\ nodes' = nodes + 1

PromoteCreate(t) ==
  /\ proc[t].pc = "create"
  /\ LET copy == proc[t].copy
         r    == copy.filing
     IN  /\ Opened(r, copy.text)
         /\ filed' = filed \cup {[task |-> t, repo |-> r, node |-> nodes + 1]}
         /\ proc' = [proc EXCEPT ![t] = Holding("created", copy, Len(github[r]) + 1, nodes + 1)]
  /\ UNCHANGED <<task, versions, default, spent, marks>>

(* The last save of a command; the unique key may refuse it.                *)
Conclude(t, row) ==
  /\ IF KeyFree(t, row) THEN Save(t, row) ELSE UNCHANGED <<task, versions>>
  /\ proc' = [proc EXCEPT ![t] = Rest]
  /\ UNCHANGED <<default, github, nodes, spent, filed, marks>>

PromoteSave(t) ==
  /\ proc[t].pc = "created"
  /\ Conclude(t, Aligned([proc[t].copy EXCEPT !.remote = proc[t].remote]))

(* The process is killed at a remote call, or the call fails with or        *)
(* without having taken effect.                                             *)
Kill(t) ==
  /\ ~Idle(t) /\ Spend("incidents")
  /\ proc' = [proc EXCEPT ![t] = Rest]
  /\ UNCHANGED <<task, versions, default, github, nodes, filed, marks>>

-----------------------------------------------------------------------------
(* rl task transfer, of a synced task whose outbox is drained.              *)

TransferBegin(t) ==
  /\ Mirrored(task[t]) /\ task[t].sync = "synced" /\ Command(t)
  /\ \E dst \in Repos :
       LET row == task[t]
           r   == FilingRepoFor(row)
           n   == row.remote.number
       IN  /\ r # dst /\ Exists(r, n) /\ ~HasMoved(r, n)
           /\ proc' = [proc EXCEPT ![t] =
                [pc |-> "transfer", copy |-> row, dst |-> dst,
                 node |-> IF row.remote.cached # 0 THEN row.remote.cached ELSE NodeAt(r, n)]]
  /\ UNCHANGED <<task, versions, default, github, nodes, filed, marks>>

(* GitHub moves an issue: a new number in dst, a redirect where it was.     *)
Moved(r, n, dst) ==
  /\ r # dst /\ ~HasMoved(r, n) /\ Len(github[dst]) < MaxNumber
  /\ github' = [github EXCEPT ![dst] = Append(@, github[r][n]),
                              ![r][n].moved = <<dst, Len(github[dst]) + 1>>]

TransferSend(t) ==
  /\ proc[t].pc = "transfer"
  /\ \E r \in Repos : \E n \in 1 .. Len(github[r]) :
       /\ NodeAt(r, n) = proc[t].node /\ Moved(r, n, proc[t].dst)
       /\ proc' = [proc EXCEPT ![t] =
            [pc |-> "transferred", copy |-> proc[t].copy, dst |-> proc[t].dst,
             remote |-> [number |-> Len(github[proc[t].dst]) + 1, node |-> proc[t].node,
                         cached |-> proc[t].node]]]
  /\ UNCHANGED <<task, versions, default, nodes, spent, filed, marks>>

TransferredOnly(copy, remote, dst) == [copy EXCEPT !.remote = remote]   \* mutant: the filing repo is kept

Repointed(copy, remote, dst) == [copy EXCEPT !.remote = remote, !.filing = dst]

TransferSave(t) ==
  /\ proc[t].pc = "transferred"
  /\ Conclude(t, Aligned(Repointed(proc[t].copy, proc[t].remote, proc[t].dst)))

-----------------------------------------------------------------------------
(* rl sync push and pull, as far as identity goes: which issue they touch.  *)

AtIssue(row, r, n) ==
  Mirrored(row) /\ r = FilingRepoFor(row) /\ n = row.remote.number /\ Exists(r, n) /\ ~HasMoved(r, n)

Push(t) ==
  /\ Mirrored(task[t]) /\ task[t].sync \in {"dirty_local", "staged", "conflict"} /\ Command(t)
  /\ \E r \in Repos : \E n \in 1 .. Len(github[r]) :
       /\ AtIssue(task[t], r, n)
       /\ github' = [github EXCEPT ![r][n].text =
                        IF task[t].sync = "conflict" \/ task[t].text # task[t].base
                        THEN task[t].text ELSE @]
  /\ Save(t, Aligned(task[t]))
  /\ UNCHANGED <<default, nodes, proc, filed, marks>>

(* A pull that adopts the issue's text (--force drops local edits), or only *)
(* learns its node id.                                                      *)
Pull(t) ==
  /\ Mirrored(task[t]) /\ task[t].sync # "staged" /\ Command(t)
  /\ \E r \in Repos : \E n \in 1 .. Len(github[r]) :
       /\ AtIssue(task[t], r, n)
       /\ LET text == github[r][n].text
              row  == [task[t] EXCEPT !.remote.cached = IF @ = 0 THEN NodeAt(r, n) ELSE @]
          IN  \/ /\ row.sync # "synced" \/ text # row.base
                 /\ Save(t, Aligned([row EXCEPT !.text = text]))
              \/ /\ row.sync # "conflict" /\ text = row.base
                 /\ task' = [task EXCEPT ![t] = row] /\ UNCHANGED versions
  /\ UNCHANGED <<default, github, nodes, proc, filed, marks>>

-----------------------------------------------------------------------------
(* rl task link, rl task link --relink and rl task rollback.                *)

(* link_to_remote: logical repo and remote, not the filing repo.            *)
Link(t) ==
  /\ task[t] # Absent /\ Unusual(t)
  /\ \E r \in Repos : \E n \in 1 .. Len(github[r]) :
       /\ ~(task[t].remote.number = n /\ task[t].logical = r)
       /\ Local(t, [task[t] EXCEPT !.sync = "conflict", !.logical = r,
                      !.remote = [number |-> n, node |-> NodeAt(r, n), cached |-> 0]])
  /\ Mark(t, "linked")

Relink(t) ==
  /\ Mirrored(task[t]) /\ task[t].sync = "synced" /\ Unusual(t)
  /\ \E r \in Repos : \E n \in 1 .. Len(github[r]) :
       /\ Exists(task[t].logical, task[t].remote.number)
       /\ github[task[t].logical][task[t].remote.number].moved = <<r, n>>
       /\ ~HasMoved(r, n)
       /\ Local(t, Aligned([task[t] EXCEPT !.text = github[r][n].text, !.logical = r,
                      !.remote = [number |-> n, node |-> NodeAt(r, n), cached |-> NodeAt(r, n)]]))
  /\ Mark(t, "linked")

RestoredContent(row, v) ==   \* mutant: the sync state is not restored
  Reconciled([row EXCEPT !.text = v.text, !.logical = v.logical, !.remote = v.remote])

(* Everything but the filing repo.                                          *)
Restored(row, v) ==
  Reconciled([row EXCEPT !.sync = v.sync, !.text = v.text, !.logical = v.logical,
                         !.remote = v.remote])

Rollback(t) ==
  /\ task[t] # Absent /\ Unusual(t)
  /\ \E v \in versions[t] : Local(t, Restored(task[t], v))
  /\ Mark(t, "rolled_back")

-----------------------------------------------------------------------------
(* Other people on GitHub.                                                  *)

UiOpen ==
  /\ Spend("incidents")
  /\ \E r \in Repos, text \in Texts : Opened(r, text)
  /\ UNCHANGED <<task, versions, default, proc, filed, marks>>

UiTransfer ==
  /\ Spend("incidents")
  /\ \E r \in Repos, dst \in Repos : \E n \in 1 .. Len(github[r]) : Moved(r, n, dst)
  /\ UNCHANGED <<task, versions, default, nodes, proc, filed, marks>>

-----------------------------------------------------------------------------
Init ==
  /\ task = [t \in Tasks |-> Absent] /\ versions = [t \in Tasks |-> {}]
  /\ default = None
  /\ github = [r \in Repos |-> <<>>] /\ nodes = 0
  /\ proc = [t \in Tasks |-> Rest]
  /\ spent = [b \in Budgets |-> 0]
  /\ filed = {} /\ marks = [t \in Tasks |-> {}]

Next ==
  \/ \E t \in Tasks :
       \/ Create(t) \/ Import(t) \/ EditText(t) \/ EditRepo(t) \/ EditFiling(t) \/ Stage(t)
       \/ PromoteBegin(t) \/ PromoteScan(t) \/ PromoteCreate(t) \/ PromoteSave(t)
       \/ TransferBegin(t) \/ TransferSend(t) \/ TransferSave(t)
       \/ Push(t) \/ Pull(t) \/ Link(t) \/ Relink(t) \/ Rollback(t) \/ Kill(t)
  \/ SetDefault \/ UiOpen \/ UiTransfer

Spec == Init /\ [][Next]_vars

-----------------------------------------------------------------------------
(* Properties.                                                              *)

(* Every row, place and command has its type, and a row's sync state fits   *)
(* its remote and baseline: unfiled is local_only or staged, synced or      *)
(* dirty has a baseline.                                                    *)
TypeOK ==
  /\ task \in [Tasks -> Row \cup {Absent}]
  /\ \A t \in Tasks : task[t] # Absent =>
       IF Mirrored(task[t]) THEN task[t].sync # "local_only"
                            ELSE task[t].sync \in {"local_only", "staged"}
  /\ \A t \in Tasks : task[t].sync \in {"synced", "dirty_local"} => task[t].base # None
  /\ \A t \in Tasks : versions[t] \subseteq Version
  /\ default \in MaybeRepo /\ nodes \in Nat
  /\ \A r \in Repos : \A n \in 1 .. Len(github[r]) : github[r][n] \in Place
  /\ \A t \in Tasks : proc[t].pc \in {"idle", "scan", "create", "created", "transfer", "transferred"}
  /\ spent \in [Budgets -> Nat]

OwnAddress(row) ==
  LET r == FilingRepoFor(row)
  IN  Exists(r, row.remote.number) /\ NodeAt(r, row.remote.number) = row.remote.node

(* "Single source of truth for every remote-issue address": filing repo and *)
(* number of a mirrored task lead to the issue it stands for, through       *)
(* crashed promotes and transfers, new workspace defaults, logical repos    *)
(* and moves on GitHub; link and rollback excepted.                         *)
HomeIsStable ==
  \A t \in Tasks : Mirrored(task[t]) /\ marks[t] \cap {"linked", "rolled_back"} = {}
                     => OwnAddress(task[t])

MovedAway(row) == HasMoved(FilingRepoFor(row), row.remote.number)

(* No two tasks stand for one issue, whatever promotes, adoptions of one    *)
(* orphan, imports and transfers race.  Excepted are link and rollback, and *)
(* a task whose issue moved away without it: import knows an issue by where *)
(* it is now.                                                               *)
OneTaskPerIssue ==
  \A s, t \in Tasks :
    /\ s # t /\ Mirrored(task[s]) /\ Mirrored(task[t])
    /\ (marks[s] \cup marks[t]) \cap {"linked", "rolled_back"} = {}
    /\ ~MovedAway(task[s]) /\ ~MovedAway(task[t])
    => task[s].remote.node # task[t].remote.node

NeverMoved(node) ==
  \A r \in Repos : \A n \in 1 .. Len(github[r]) : NodeAt(r, n) = node => ~HasMoved(r, n)

(* "A crash between the remote call and the final save leaves a durable     *)
(* record": an issue that a promote created is mirrored by a task, or its   *)
(* task is still staged, so that a retry looks for it.  Excepted are issues *)
(* that were moved, which a retry does not find while they are away, and    *)
(* runs in which a staged text was changed, a mirrored task staged again,   *)
(* or a task linked or rolled back.                                         *)
FiledIsTracked ==
  \A f \in filed : (\A t \in Tasks : marks[t] = {}) /\ NeverMoved(f.node) =>
    \/ task[f.task].sync = "staged"
    \/ \E t \in Tasks : Mirrored(task[t]) /\ task[t].remote.node = f.node

(* What rollback says of itself: "a rollback must never leave a remote-     *)
(* backed task whose filing_repo_id disagrees with its remote identity".    *)
RollbackKeepsIdentity ==
  \A t \in Tasks : Mirrored(task[t]) /\ marks[t] = {"rolled_back"} => OwnAddress(task[t])

=============================================================================
