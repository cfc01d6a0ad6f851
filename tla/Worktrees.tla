----------------------------- MODULE Worktrees -----------------------------
(***************************************************************************)
(* The checkouts a workspace knows: repo instances and their worktree      *)
(* links, which rl repo commands change and the daemon's tick keeps true   *)
(* to the disk. A tick marks the links whose directory is gone and, after  *)
(* missing_grace_ticks misses in a row, unlinks them. Nothing locks an     *)
(* instance: every writer reads it, decides, and later saves the whole     *)
(* row and all its links, so commands and disk changes fall in between.    *)
(***************************************************************************)
EXTENDS Integers, FiniteSets

CONSTANTS Workspaces, Instances, Paths,
          WsOf,        \* WsOf[i]: the workspace of instance i
          Grace,       \* missing_grace_ticks
          MaxCommands, \* rl commands
          MaxDisk,     \* directories that come or go
          MaxFaults    \* ticks cut short, restarts of the daemon

ASSUME WorktreesConstants ==
  /\ WsOf \in [Instances -> Workspaces]
  /\ Grace \in Nat \ {0}
  /\ {MaxCommands, MaxDisk, MaxFaults} \subseteq Nat

VARIABLES
  disk,     \* directories that exist
  inst,     \* repo_instances and worktree_links
  archived, \* workspaces that are archived
  counts,   \* the daemon's miss_counts
  tick,     \* where the daemon's tick is
  cli,      \* where an rl command is
  misses,   \* misses of a link since a finished tick last found its directory
  spent     \* how much of each bound is used up

vars == <<disk, inst, archived, counts, tick, cli, misses, spent>>

Keys == Instances \X Paths
Links == [Paths -> {"none", "Linked", "MissingPath"}]
Copy == [id: Instances, links: Links]

\* A tick: workspaces left, the one at hand, its rows as listed, the links left
\* to probe, the link being unlinked and its row as read, the keys found missing;
\* and, for the properties, the directories it found and whether the world held still.
Resting == [pc |-> "idle", todo |-> {}, ws |-> {}, copies |-> {}, keys |-> {}, target |-> {},
            valid |-> {}, seen |-> {}, quiet |-> TRUE]
Idle == [pc |-> "idle", op |-> "none", copies |-> {}]

Limit == [commands |-> MaxCommands, disk |-> MaxDisk, faults |-> MaxFaults]
Spend(b) == spent[b] < Limit[b] /\ spent' = [spent EXCEPT ![b] = @ + 1]

Init ==
  /\ disk \in SUBSET Paths
  /\ inst \in [Instances -> [alive: {TRUE}, links: [Paths -> {"none", "Linked"}]]]
  /\ archived = {}
  /\ counts = [k \in Keys |-> 0]
  /\ tick = Resting /\ cli = Idle
  /\ misses = [k \in Keys |-> 0]
  /\ spent = [b \in DOMAIN Limit |-> 0]

Disturbed == tick' = [tick EXCEPT !.quiet = FALSE]

-----------------------------------------------------------------------------
(* The repository of instances.                                             *)

RowsOf(w) == {[id |-> i, links |-> inst[i].links] : i \in {i \in Instances : inst[i].alive /\ WsOf[i] = w}}
RowOf(i) == [id |-> i, links |-> inst[i].links]

\* INSERT .. ON CONFLICT DO UPDATE, then all links anew: the row comes back when
\* it was deleted in the meantime.
SaveInstance(copy) == inst' = [inst EXCEPT ![copy.id] = [alive |-> TRUE, links |-> copy.links]]

-----------------------------------------------------------------------------
(* The instance's own operations, on a copy.                                *)

LinkWorktree(copy, p) == [copy EXCEPT !.links[p] = "Linked"]
UnlinkWorktree(copy, p) == [copy EXCEPT !.links[p] = "none"]

MarkPathMissing(copy, gone) ==
  [copy EXCEPT !.links = [p \in Paths |-> IF p \in gone THEN "MissingPath" ELSE @[p]]]
PruneMissing(copy) ==
  [copy EXCEPT !.links = [p \in Paths |-> IF @[p] = "MissingPath" THEN "none" ELSE @[p]]]

PathExists(p) == p \in disk

\* One instance of reconcile_worktrees.
Reconciled(copy, prune) ==
  LET marked == MarkPathMissing(copy, {p \in Paths : copy.links[p] = "Linked" /\ ~PathExists(p)})
  IN IF prune THEN PruneMissing(marked) ELSE marked
SaveIfChanged(copy, new) == IF new # copy THEN SaveInstance(new) ELSE UNCHANGED inst

-----------------------------------------------------------------------------
(* The daemon's tick.                                                       *)

TickStart ==
  /\ tick.pc = "idle"
  /\ tick' = [tick EXCEPT !.pc = "workspace", !.todo = Workspaces \ archived, !.quiet = TRUE]
  /\ UNCHANGED <<disk, inst, archived, counts, cli, misses, spent>>

ReconcileList(w) ==
  /\ tick.pc = "workspace" /\ w \in tick.todo
  /\ tick' = [tick EXCEPT !.pc = "reconcile", !.todo = @ \ {w}, !.ws = {w}, !.copies = RowsOf(w)]
  /\ UNCHANGED <<disk, inst, archived, counts, cli, misses, spent>>

\* The directories of the copy are probed; what they were is also remembered
\* for the properties.
ReconcileInstance(copy) ==
  /\ tick.pc = "reconcile" /\ copy \in tick.copies
  /\ SaveIfChanged(copy, Reconciled(copy, FALSE))
  /\ tick' = [tick EXCEPT !.copies = @ \ {copy},
                          !.seen = @ \cup {<<copy.id, p>> : p \in {p \in disk : copy.links[p] # "none"}}]
  /\ UNCHANGED <<disk, archived, counts, cli, misses, spent>>

\* bindings.list, which shows nothing of an archived workspace.
GraceList ==
  /\ tick.pc = "reconcile" /\ tick.copies = {}
  /\ tick' = [tick EXCEPT !.pc = "grace",
                          !.keys = {k \in Keys : /\ inst[k[1]].alive /\ WsOf[k[1]] \in tick.ws \ archived
                                                 /\ inst[k[1]].links[k[2]] = "MissingPath"}]
  /\ UNCHANGED <<disk, inst, archived, counts, cli, misses, spent>>

CountMiss(k) ==
  /\ counts' = [counts EXCEPT ![k] = IF PathExists(k[2]) THEN 0 ELSE @ + 1]
  /\ tick' = [tick EXCEPT !.keys = @ \ {k},
                          !.valid = IF PathExists(k[2]) THEN @ ELSE @ \cup {k},
                          !.seen = IF PathExists(k[2]) THEN @ \cup {k} ELSE @ \ {k},
                          !.pc = IF counts'[k] >= Grace THEN "unlink" ELSE @,
                          !.target = IF counts'[k] >= Grace THEN {k} ELSE {}]

GraceProbe(k) ==
  /\ tick.pc = "grace" /\ k \in tick.keys
  /\ CountMiss(k)
  /\ misses' = [misses EXCEPT ![k] = IF PathExists(k[2]) \/ @ = Grace THEN @ ELSE @ + 1]
  /\ UNCHANGED <<disk, inst, archived, cli, spent>>

\* A tick that ends early, at an error of the store or of a probe or at the
\* end of the process, leaves the counters as they are.
CutShort == tick' = Resting

\* An instance that is gone, or a link that is no longer registered, is an
\* error, and an error ends the tick.
UnlinkRead ==
  /\ tick.pc = "unlink"
  /\ \E k \in tick.target :
       IF inst[k[1]].alive /\ inst[k[1]].links[k[2]] # "none"
         THEN tick' = [tick EXCEPT !.pc = "save", !.copies = {RowOf(k[1])}]
         ELSE CutShort
  /\ UNCHANGED <<disk, inst, archived, counts, cli, misses, spent>>

UnlinkSave ==
  /\ tick.pc = "save"
  /\ \E k \in tick.target, copy \in tick.copies :
       /\ SaveInstance(UnlinkWorktree(copy, k[2]))
       /\ counts' = [counts EXCEPT ![k] = 0]
       /\ misses' = [misses EXCEPT ![k] = 0]
       /\ tick' = [tick EXCEPT !.pc = "grace", !.copies = {}, !.target = {}, !.valid = @ \ {k}]
  /\ UNCHANGED <<disk, archived, cli, spent>>

NextWorkspace ==
  /\ tick' = [tick EXCEPT !.pc = "workspace", !.ws = {}]
  /\ UNCHANGED counts

WorkspaceDone ==
  /\ tick.pc = "grace" /\ tick.keys = {}
  /\ NextWorkspace
  /\ UNCHANGED <<disk, inst, archived, cli, misses, spent>>

\* No counter is ever dropped for a link that is no longer missing.
RetainAll == UNCHANGED counts

RetainValid == counts' = [k \in Keys |-> IF k \in tick.valid THEN counts[k] ELSE 0]

\* The polls of the projects are models of their own.
TickEnd ==
  /\ tick.pc = "workspace" /\ tick.todo = {}
  /\ RetainValid
  /\ misses' = [k \in Keys |-> IF k \in tick.seen THEN 0 ELSE misses[k]]
  /\ tick' = Resting
  /\ UNCHANGED <<disk, inst, archived, cli, spent>>

TickFails ==
  /\ tick.pc # "idle" /\ Spend("faults")
  /\ CutShort
  /\ UNCHANGED <<disk, inst, archived, counts, cli, misses>>

Restart ==
  /\ Spend("faults")
  /\ counts' = [k \in Keys |-> 0]
  /\ tick' = Resting
  /\ UNCHANGED <<disk, inst, archived, cli, misses>>

-----------------------------------------------------------------------------
(* The rl commands and the disk.                                            *)

\* What rl worktree link, unlink and prune-missing make of the row they have read; unlink
\* refuses a path that is not registered.
Edits(i) ==
  {LinkWorktree(RowOf(i), p) : p \in Paths}
  \cup {UnlinkWorktree(RowOf(i), p) : p \in {p \in Paths : inst[i].links[p] # "none"}}
  \cup {PruneMissing(RowOf(i))}

CommandRead(i) ==
  /\ cli.pc = "idle" /\ inst[i].alive /\ Spend("commands")
  /\ \E new \in Edits(i) : cli' = [pc |-> "save", op |-> "edit", copies |-> {new}]
  /\ Disturbed
  /\ UNCHANGED <<disk, inst, archived, counts, misses>>

CommandSave(copy) ==
  /\ cli.pc = "save" /\ cli.op = "edit" /\ copy \in cli.copies
  /\ SaveInstance(copy)
  /\ cli' = Idle
  /\ Disturbed
  /\ UNCHANGED <<disk, archived, counts, misses, spent>>

\* rl worktree reconcile, with or without --prune.
ReconcileCommand(w, op) ==
  /\ cli.pc = "idle" /\ Spend("commands")
  /\ cli' = [pc |-> "save", op |-> op, copies |-> RowsOf(w)]
  /\ Disturbed
  /\ UNCHANGED <<disk, inst, archived, counts, misses>>

ReconcileCommandInstance(copy) ==
  /\ cli.pc = "save" /\ cli.op \in {"mark", "prune"} /\ copy \in cli.copies
  /\ SaveIfChanged(copy, Reconciled(copy, cli.op = "prune"))
  /\ cli' = IF cli.copies = {copy} THEN Idle ELSE [cli EXCEPT !.copies = @ \ {copy}]
  /\ Disturbed
  /\ UNCHANGED <<disk, archived, counts, misses, spent>>

\* The row and, by the cascade, its links.
Detach(i) ==
  /\ inst[i].alive /\ Spend("commands")
  /\ inst' = [inst EXCEPT ![i] = [alive |-> FALSE, links |-> [p \in Paths |-> "none"]]]
  /\ Disturbed
  /\ UNCHANGED <<disk, archived, counts, cli, misses>>

Archive(w) ==
  /\ Spend("commands")
  /\ archived' = IF w \in archived THEN archived \ {w} ELSE archived \cup {w}
  /\ Disturbed
  /\ UNCHANGED <<disk, inst, counts, cli, misses>>

DiskChange(p) ==
  /\ Spend("disk")
  /\ disk' = IF p \in disk THEN disk \ {p} ELSE disk \cup {p}
  /\ Disturbed
  /\ UNCHANGED <<inst, archived, counts, cli, misses>>

-----------------------------------------------------------------------------
DaemonStep ==
  \/ TickStart
  \/ \E w \in Workspaces : ReconcileList(w)
  \/ \E copy \in tick.copies : ReconcileInstance(copy)
  \/ GraceList
  \/ \E k \in tick.keys : GraceProbe(k)
  \/ UnlinkRead
  \/ UnlinkSave
  \/ WorkspaceDone
  \/ TickEnd

CommandStep ==
  \/ \E copy \in cli.copies : CommandSave(copy)
  \/ \E copy \in cli.copies : ReconcileCommandInstance(copy)

Next ==
  \/ DaemonStep
  \/ CommandStep
  \/ TickFails
  \/ Restart
  \/ \E i \in Instances : CommandRead(i) \/ Detach(i)
  \/ \E w \in Workspaces, op \in {"mark", "prune"} : ReconcileCommand(w, op)
  \/ \E w \in Workspaces : Archive(w)
  \/ \E p \in Paths : DiskChange(p)

Spec == Init /\ [][Next]_vars

\* run_poller_task ticks for as long as the daemon lives, and a command that
\* has read goes on to save.
FairSpec == Spec /\ WF_vars(DaemonStep) /\ WF_vars(CommandStep)

-----------------------------------------------------------------------------
\* The tables hold rows of their schemas, a tick is in one place of its code,
\* and no counter goes past the grace it is compared with except where the
\* unlink it called for failed, which a fault or a command each cause at most once.
TypeOK ==
  /\ disk \subseteq Paths /\ archived \subseteq Workspaces
  /\ inst \in [Instances -> [alive: BOOLEAN, links: Links]]
  /\ counts \in [Keys -> 0..Grace + MaxFaults + MaxCommands] /\ misses \in [Keys -> 0..Grace]
  /\ tick.pc \in {"idle", "workspace", "reconcile", "grace", "unlink", "save"}
  /\ tick.copies \subseteq Copy /\ tick.keys \cup tick.target \cup tick.valid \subseteq Keys
  /\ cli.pc \in {"idle", "save"} /\ cli.copies \subseteq Copy
  /\ Cardinality(tick.target) = (IF tick.pc \in {"unlink", "save"} THEN 1 ELSE 0)

\* The daemon unlinks a worktree only after missing_grace_ticks misses since a
\* tick that ran to its end last found the directory: whatever commands,
\* restarts and failed ticks came between, a directory that was found starts
\* its grace over (consecutive misses, not cumulative).
GraceRespected == \A k \in tick.target : misses[k] >= Grace

\* A link of an active workspace whose directory is not there.
Gone(k) ==
  /\ inst[k[1]].alive /\ inst[k[1]].links[k[2]] # "none"
  /\ ~PathExists(k[2]) /\ WsOf[k[1]] \notin archived

\* A tick that was not disturbed leaves the links telling the truth: at its end
\* every link of an active workspace whose directory is gone is MissingPath
\* and has its grace running.
QuietTickTells ==
  tick.pc = "workspace" /\ tick.todo = {} /\ tick.quiet
    => \A k \in Keys : Gone(k) => inst[k[1]].links[k[2]] = "MissingPath" /\ counts[k] > 0 /\ k \in tick.valid

\* A link whose directory stays away is unlinked in the end, whichever
\* workspaces tick before and after its own.
PrunedInTheEnd(k) == Gone(k) ~> ~Gone(k)

\* A link gets its whole grace, and an undisturbed tick leaves the links as the
\* disk is (apply_grace_prune, reconcile_worktrees).
WorktreesAreSound == TypeOK /\ GraceRespected /\ QuietTickTells
=============================================================================
