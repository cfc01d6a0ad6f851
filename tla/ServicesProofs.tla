--------------------------- MODULE ServicesProofs ---------------------------
(***************************************************************************)
(* What the daemon's process, its tick over the worktrees, the registry of *)
(* repos, and the commands that install and stop the daemon guarantee, for *)
(* every number of workspaces, instances, paths, origins, processes and    *)
(* manifests, every grace and every bound on commands and faults.          *)
(***************************************************************************)
EXTENDS Worktrees, DaemonRun, Registry, Units, FiniteSetTheorems, SequenceTheorems, TLAPS

-----------------------------------------------------------------------------
(***************************************************************************)
(* The daemon's process.                                                   *)
(***************************************************************************)

(* What run_until has told the tasks, and whom it has waited for.           *)
Phases ==
  /\ main \in {"requeue", "reconcile"} => task = [t \in Tasks |-> "none"] /\ paced = "untried"
  /\ main \in {"requeue", "reconcile", "select"} => ~cancel /\ \A t \in Tasks : awaited[t] = 0
  /\ main = "select" => \A t \in Tasks : task[t] \in {"select", "busy", "panicked"}
  /\ main \in Tasks => cancel
  /\ \A t \in Tasks : task[t] \in {"aborted", "returned"} => cancel
  /\ \A t \in Tasks : awaited[t] \in {0, 1}

(* After a recovery that succeeded, an inflight row is the drainer's.       *)
Recovered == main \in {"reconcile", "select"} /\ requeued /\ row = "inflight" =>
  main = "select" /\ task["drainer"] \in {"busy", "panicked"}

(* The heartbeat of a daemon that keeps its pace: the next tick is due before *)
(* it is an interval old, and the tick under way began before that.         *)
Paced == main = "select" /\ paced = "paced" =>
  /\ task["poller"] = "select" => age + due <= Interval
  /\ task["poller"] = "busy" /\ busy <= Interval => age <= Interval + busy

RunTypes ==
  /\ main \in {"off", "requeue", "reconcile", "select"} \cup Tasks
  /\ task \in [Tasks -> {"none", "select", "busy", "aborted"} \cup Ended]
  /\ awaited \in [Tasks -> Nat] /\ cancel \in BOOLEAN
  /\ age \in 0..NoBeat /\ due \in 0..Interval /\ busy \in 0..Interval + 1

RunInv == RunTypes /\ Phases /\ Recovered /\ Paced

(* The first states have it.                                                *)
LEMMA RunInvInit == DaemonRunConstants /\ RunInit => RunInv
<1> SUFFICES ASSUME DaemonRunConstants, RunInit PROVE RunInv
  OBVIOUS
<1>0. Interval \in Nat \ {0}
  BY DEF DaemonRunConstants
<1>2. main = "off" /\ cancel = FALSE /\ task = [t \in Tasks |-> "none"] /\ awaited = [t \in Tasks |-> 0]
  BY DEF RunInit
<1>4. task \in [Tasks -> {"none", "select", "busy", "aborted"} \cup Ended] /\ awaited \in [Tasks -> Nat]
  BY <1>2
<1>5. age \in 0..NoBeat /\ due \in 0..Interval /\ busy \in 0..Interval + 1
  BY <1>0 DEF RunInit, NoBeat, Never
<1>1. RunTypes
  BY <1>2, <1>4, <1>5 DEF RunTypes
<1>3. "off" \notin Tasks
  BY DEF Tasks
<1> QED
  BY <1>1, <1>2, <1>3 DEF RunInv, Phases, Recovered, Paced

(* Every step keeps it.                                                     *)
LEMMA RunInvStep == DaemonRunConstants /\ RunInv /\ [RunNext]_runVars => RunInv'
<1> SUFFICES ASSUME DaemonRunConstants, RunInv, [RunNext]_runVars PROVE RunInv'
  OBVIOUS
<1> USE DEF RunInv, RunTypes, Phases, Recovered, Paced, Tasks, NoBeat, Never, Ended,
            loopVars, rowVars, timeVars
<1>0. Interval \in Nat \ {0}
  BY DEF DaemonRunConstants
<1>1. CASE UNCHANGED runVars
  BY <1>1 DEF runVars
<1>2. CASE Launch
  <2>1. /\ main' = "requeue" /\ cancel' = FALSE /\ task' = [t \in Tasks |-> "none"]
        /\ awaited' = [t \in Tasks |-> 0] /\ paced' = "untried" /\ busy' = 0 /\ UNCHANGED <<age, due>>
    BY <1>2 DEF Launch
  <2>4. task' \in [Tasks -> {"none", "select", "busy", "aborted"} \cup Ended] /\ awaited' \in [Tasks -> Nat]
    BY <2>1
  <2>5. (age \in 0..NoBeat /\ due \in 0..Interval /\ busy \in 0..Interval + 1)'
    BY <1>0, <2>1
  <2>2. RunTypes'
    BY <2>1, <2>4, <2>5
  <2>3. Phases' /\ Recovered' /\ Paced'
    BY <2>1
  <2> QED
    BY <2>2, <2>3
<1>3. CASE Requeue
  BY <1>0, <1>3 DEF Requeue, RequeueOrphanedInflight
<1>4. CASE ReconcileAndSpawn
  BY <1>0, <1>4 DEF ReconcileAndSpawn
<1>5. CASE SelectSeesShutdown
  BY <1>0, <1>5 DEF SelectSeesShutdown
<1>6. ASSUME NEW t \in Tasks, SelectSeesExit(t) PROVE RunInv'
  BY <1>0, <1>6 DEF SelectSeesExit
<1>7. ASSUME NEW t \in Tasks, JoinOne(t) PROVE RunInv'
  BY <1>0, <1>7 DEF JoinOne, AlreadyDone, After
<1>8. ASSUME NEW t \in Tasks, JoinAborts(t) PROVE RunInv'
  BY <1>0, <1>8 DEF JoinAborts, TaskBecomes, After
<1>9. CASE PollerTicks
  BY <1>0, <1>9 DEF PollerTicks, TaskBecomes
<1>10. CASE PollerTickEnds
  BY <1>0, <1>10 DEF PollerTickEnds, TaskBecomes
<1>11. CASE DrainerWakes
  BY <1>0, <1>11 DEF DrainerWakes, TaskBecomes
<1>12. CASE DrainerEnds
  BY <1>0, <1>12 DEF DrainerEnds, TaskBecomes
<1>13. ASSUME NEW t \in Tasks, StopsAtCancel(t) PROVE RunInv'
  BY <1>0, <1>13 DEF StopsAtCancel, TaskBecomes
<1>14. CASE PollerTickFails
  BY <1>0, <1>14 DEF PollerTickFails, TaskBecomes
<1>15. ASSUME NEW t \in Tasks, Panics(t) PROVE RunInv'
  BY <1>0, <1>15 DEF Panics, TaskBecomes
<1>16. CASE KilledAtOnce
  BY <1>0, <1>16 DEF KilledAtOnce
<1>17. CASE Toggle
  BY <1>0, <1>17 DEF Toggle
<1>18. CASE Enqueued
  BY <1>0, <1>18 DEF Enqueued
<1>19. CASE TimePasses
  BY <1>0, <1>19 DEF TimePasses
<1> HIDE DEF RunInv, RunTypes, Phases, Recovered, Paced, Tasks, NoBeat, Never, Ended,
             loopVars, rowVars, timeVars
<1>20. CASE RunUntil
  BY <1>3, <1>4, <1>5, <1>6, <1>7, <1>8, <1>20 DEF RunUntil
<1>21. CASE TaskStep
  BY <1>9, <1>10, <1>11, <1>12, <1>13, <1>21 DEF TaskStep
<1>22. QED
  BY <1>1, <1>2, <1>14, <1>15, <1>16, <1>17, <1>18, <1>19, <1>20, <1>21 DEF RunNext

(* A paced daemon's heartbeat is never two intervals old, and the rest.     *)
LEMMA RunInvImplies == DaemonRunConstants /\ RunInv => DaemonIsSound
<1> SUFFICES ASSUME DaemonRunConstants, RunInv PROVE DaemonIsSound
  OBVIOUS
<1>0. Interval \in Nat \ {0} /\ Tasks = {"poller", "drainer"}
  BY DEF DaemonRunConstants, Tasks
<1>1. RunTypeOK
  <2>1. main \in {"requeue", "reconcile"} => \A t \in Tasks : task[t] = "none"
    BY DEF RunInv, Phases
  <2> QED
    BY <2>1 DEF RunTypeOK, RunInv, RunTypes, Phases
<1>2. HandleAwaitedOnce
  BY DEF HandleAwaitedOnce, RunInv, Phases
<1>3. InflightHasItsDrain
  BY DEF InflightHasItsDrain, RunInv, Recovered
<1>4. PacedIsNotWedged
  <2> SUFFICES ASSUME main = "select", paced = "paced", busy <= Interval, task["poller"] # "panicked",
                      age > 2 * Interval
               PROVE  FALSE
    BY DEF PacedIsNotWedged, Wedged, IsWedged
  <2>1. task["poller"] \in {"select", "busy"}
    BY <1>0 DEF RunInv, Phases
  <2>2. age \in Nat /\ due \in Nat /\ busy \in Nat
    BY <1>0 DEF RunInv, RunTypes, NoBeat, Never
  <2> QED
    BY <1>0, <2>1, <2>2 DEF RunInv, Paced
<1> QED
  BY <1>1, <1>2, <1>3, <1>4 DEF DaemonIsSound

(* Tasks and process fit together, no JoinHandle is awaited twice, an       *)
(* inflight row has its drain and a daemon that keeps its pace is not called *)
(* wedged, for every interval and any number of panics, kills, failures,    *)
(* starts and stops (run_until, join_with_grace, requeue_orphaned_inflight, *)
(* is_wedged).                                                              *)
THEOREM DaemonRunIsSound == ASSUME DaemonRunConstants PROVE RunSpec => []DaemonIsSound
BY RunInvInit, RunInvStep, RunInvImplies, PTL DEF RunSpec

-----------------------------------------------------------------------------
(***************************************************************************)
(* The worktree links.                                                     *)
(***************************************************************************)

Tick == [pc : {"idle", "workspace", "reconcile", "grace", "unlink", "save"}, todo : SUBSET Workspaces,
         ws : SUBSET Workspaces, copies : SUBSET Copy, keys : SUBSET Keys, target : SUBSET Keys,
         valid : SUBSET Keys, seen : SUBSET Keys, quiet : BOOLEAN]
Instance == [alive : BOOLEAN, links : Links]
Cli == [pc : {"idle", "save"}, op : {"none", "edit", "mark", "prune"}, copies : SUBSET Copy]

LinkTypes ==
  /\ disk \subseteq Paths /\ archived \subseteq Workspaces
  /\ inst \in [Instances -> Instance]
  /\ counts \in [Keys -> Nat] /\ misses \in [Keys -> 0..Grace]
  /\ tick \in Tick /\ cli \in Cli
  /\ spent \in [DOMAIN Limit -> Nat] /\ \A b \in DOMAIN Limit : spent[b] <= Limit[b]

Unique(copies) == \A c, d \in copies : c.id = d.id => c = d

(* What belongs to a place of the tick.                                     *)
Places(tk) ==
  /\ IF tk.pc \in {"unlink", "save"} THEN \E k \in Keys : tk.target = {k} ELSE tk.target = {}
  /\ tk.pc \notin {"grace", "unlink", "save"} => tk.keys = {}
  /\ tk.pc \notin {"reconcile", "save"} => tk.copies = {}
  /\ tk.pc = "reconcile" => Unique(tk.copies) /\ \A c \in tk.copies : WsOf[c.id] \in tk.ws
  /\ tk.pc = "save" => \E c \in Copy : tk.copies = {c} /\ \A k \in tk.target : c.id = k[1]
  /\ tk.pc \in {"idle", "workspace"} => tk.ws = {}
  /\ tk.pc = "idle" => tk.valid = {}
  /\ tk.ws \cap tk.todo = {}

(* What the tick has found out about a link: each is probed once, and after *)
(* the directories of its workspace.                                        *)
Found(k, tk, n) ==
  /\ k \in tk.keys => k \notin tk.target /\ k \notin tk.valid /\ WsOf[k[1]] \in tk.ws
  /\ k \in tk.valid => /\ k \notin tk.seen /\ n > 0
                       /\ WsOf[k[1]] \notin tk.todo /\ (tk.pc = "reconcile" => WsOf[k[1]] \notin tk.ws)
  /\ k \in tk.target => n >= Grace

(* The counter is behind the misses until these say enough.                 *)
Counted(n, m) == n <= m \/ m = Grace

(* A link that the tick is to unlink and that went away from under it, or   *)
(* will by the copy that the tick is about to save.                         *)
Broken(k, tk, ins) ==
  /\ k \in tk.keys \/ k \in tk.target
  /\ \/ ~ins[k[1]].alive \/ ins[k[1]].links[k[2]] = "none"
     \/ tk.pc = "save" /\ \E c \in tk.copies : c.id = k[1] /\ c.links[k[2]] = "none"

(* A command that has an instance still to save.                            *)
Pending(i, cl) == \E c \in cl.copies : c.id = i

One(b) == IF b THEN 1 ELSE 0

(* A counter that is past the grace has cost a fault, or a command whose    *)
(* save came between a tick's list and its unlink.                          *)
Paid(k, n, tk, ins, cl, s) ==
  /\ One(Pending(k[1], cl)) + One(Broken(k, tk, ins)) <= s.commands
  /\ n + One(Pending(k[1], cl)) + One(Broken(k, tk, ins))
       <= Grace - 1 + One(k \in tk.target) + s.faults + s.commands

Command(cl) == Unique(cl.copies) /\ (cl.pc = "idle" => cl.copies = {})

(* In a tick that nothing disturbed: the copies are as the rows are, and a  *)
(* link whose directory is gone is still to come, or marked and counted.    *)
Lost(k, ins, d, arch) ==
  ins[k[1]].alive /\ ins[k[1]].links[k[2]] # "none" /\ k[2] \notin d /\ WsOf[k[1]] \notin arch
Told(k, tk, ins) == ins[k[1]].links[k[2]] = "MissingPath" /\ (k \in tk.keys \/ k \in tk.valid)
Quiet(tk, ins, d, arch) ==
  tk.pc # "idle" /\ tk.quiet =>
    /\ \A c \in tk.copies : ins[c.id].alive /\ c = [id |-> c.id, links |-> ins[c.id].links]
    /\ \A k \in Keys : Lost(k, ins, d, arch) =>
         \/ WsOf[k[1]] \in tk.todo
         \/ tk.pc = "reconcile" /\ WsOf[k[1]] \in tk.ws
              /\ (Pending(k[1], tk) \/ ins[k[1]].links[k[2]] = "MissingPath")
         \/ (tk.pc = "reconcile" => WsOf[k[1]] \notin tk.ws) /\ Told(k, tk, ins)

WInv ==
  /\ LinkTypes /\ Places(tick) /\ Command(cli) /\ Quiet(tick, inst, disk, archived)
  /\ \A k \in Keys : /\ Found(k, tick, counts[k]) /\ Counted(counts[k], misses[k])
                     /\ Paid(k, counts[k], tick, inst, cli, spent)

(* What the rows, copies and registers are.                                 *)
LEMMA LinkFacts ==
  ASSUME LinkTypes
  PROVE  /\ \A i \in Instances : inst[i].alive \in BOOLEAN /\ inst[i].links \in Links /\ RowOf(i) \in Copy
         /\ \A w : RowsOf(w) \subseteq Copy /\ Unique(RowsOf(w))
         /\ \A w : \A c \in RowsOf(w) : inst[c.id].alive /\ WsOf[c.id] = w /\ c = RowOf(c.id)
         /\ \A w : \A i \in Instances : inst[i].alive /\ WsOf[i] = w => RowOf(i) \in RowsOf(w)
         /\ Keys = Instances \X Paths /\ Grace \in Nat \ {0}
         /\ WsOf \in [Instances -> Workspaces]
<1>1. \A i \in Instances : inst[i] \in Instance
  BY DEF LinkTypes
<1>2. \A i \in Instances : inst[i].alive \in BOOLEAN /\ inst[i].links \in Links
  BY <1>1 DEF Instance
<1>3. \A i \in Instances : RowOf(i) \in Copy
  BY <1>2 DEF RowOf, Copy
<1>4. \A w : RowsOf(w) = {RowOf(i) : i \in {j \in Instances : inst[j].alive /\ WsOf[j] = w}}
  BY DEF RowsOf, RowOf
<1>5. \A i : RowOf(i).id = i
  BY DEF RowOf
<1>6. \A w : \A c \in RowsOf(w) : inst[c.id].alive /\ WsOf[c.id] = w /\ c = RowOf(c.id) /\ c.id \in Instances
  BY <1>4, <1>5
<1>7. \A w : RowsOf(w) \subseteq Copy /\ Unique(RowsOf(w))
  BY <1>3, <1>6 DEF Unique
<1> QED
  BY <1>2, <1>3, <1>4, <1>6, <1>7, WorktreesConstants DEF Keys

(* The operations on a copy give a copy of the same row.                    *)
LEMMA CopyFacts ==
  ASSUME NEW c \in Copy
  PROVE  /\ c.id \in Instances /\ c.links \in Links
         /\ \A p \in Paths : /\ LinkWorktree(c, p) \in Copy /\ LinkWorktree(c, p).id = c.id
                             /\ UnlinkWorktree(c, p) \in Copy /\ UnlinkWorktree(c, p).id = c.id
                             /\ UnlinkWorktree(c, p).links = [c.links EXCEPT ![p] = "none"]
         /\ PruneMissing(c) \in Copy /\ PruneMissing(c).id = c.id
         /\ \A prune \in BOOLEAN : Reconciled(c, prune) \in Copy /\ Reconciled(c, prune).id = c.id
         /\ \A p \in Paths : Reconciled(c, FALSE).links[p] =
              IF c.links[p] = "Linked" /\ ~PathExists(p) THEN "MissingPath" ELSE c.links[p]
<1>1. c.id \in Instances /\ c.links \in Links /\ c = [id |-> c.id, links |-> c.links]
  BY DEF Copy
<1>2. \A p \in Paths : /\ LinkWorktree(c, p) = [id |-> c.id, links |-> [c.links EXCEPT ![p] = "Linked"]]
                       /\ UnlinkWorktree(c, p) = [id |-> c.id, links |-> [c.links EXCEPT ![p] = "none"]]
  BY <1>1 DEF LinkWorktree, UnlinkWorktree
<1>3. ASSUME NEW d \in Copy, d.id = c.id, NEW gone
      PROVE  /\ MarkPathMissing(d, gone) \in Copy /\ MarkPathMissing(d, gone).id = c.id
             /\ \A p \in Paths : MarkPathMissing(d, gone).links[p] = IF p \in gone THEN "MissingPath" ELSE d.links[p]
             /\ PruneMissing(d) \in Copy /\ PruneMissing(d).id = c.id
  <2>1. d.links \in Links /\ d = [id |-> d.id, links |-> d.links] /\ d.id \in Instances
    BY DEF Copy
  <2>2. MarkPathMissing(d, gone) = [id |-> d.id, links |-> [p \in Paths |-> IF p \in gone THEN "MissingPath" ELSE d.links[p]]]
    BY <2>1 DEF MarkPathMissing
  <2>3. PruneMissing(d) = [id |-> d.id, links |-> [p \in Paths |-> IF d.links[p] = "MissingPath" THEN "none" ELSE d.links[p]]]
    BY <2>1 DEF PruneMissing
  <2>4. /\ [p \in Paths |-> IF p \in gone THEN "MissingPath" ELSE d.links[p]] \in Links
        /\ [p \in Paths |-> IF d.links[p] = "MissingPath" THEN "none" ELSE d.links[p]] \in Links
    BY <2>1 DEF Links
  <2> QED
    BY <1>3, <2>1, <2>2, <2>3, <2>4 DEF Copy
<1>4. \A p \in Paths : [c.links EXCEPT ![p] = "Linked"] \in Links /\ [c.links EXCEPT ![p] = "none"] \in Links
  BY <1>1 DEF Links
<1>5. \A p \in Paths : LinkWorktree(c, p) \in Copy /\ UnlinkWorktree(c, p) \in Copy
  BY <1>1, <1>2, <1>4 DEF Copy
<1>6. /\ PruneMissing(c) \in Copy /\ PruneMissing(c).id = c.id
      /\ \A gone : MarkPathMissing(c, gone) \in Copy /\ MarkPathMissing(c, gone).id = c.id
      /\ \A gone : \A p \in Paths :
           MarkPathMissing(c, gone).links[p] = IF p \in gone THEN "MissingPath" ELSE c.links[p]
  BY <1>3
<1>7. ASSUME NEW prune \in BOOLEAN PROVE Reconciled(c, prune) \in Copy /\ Reconciled(c, prune).id = c.id
  <2> DEFINE d == MarkPathMissing(c, {p \in Paths : c.links[p] = "Linked" /\ ~PathExists(p)})
  <2>1. d \in Copy /\ d.id = c.id
    BY <1>6
  <2>2. Reconciled(c, prune) = IF prune THEN PruneMissing(d) ELSE d
    BY DEF Reconciled
  <2> HIDE DEF d
  <2>3. PruneMissing(d) \in Copy /\ PruneMissing(d).id = c.id
    BY <1>3, <2>1
  <2> QED
    BY <2>1, <2>2, <2>3
<1>8. ASSUME NEW p \in Paths
      PROVE  Reconciled(c, FALSE).links[p] = IF c.links[p] = "Linked" /\ ~PathExists(p) THEN "MissingPath" ELSE c.links[p]
  <2> DEFINE g == {q \in Paths : c.links[q] = "Linked" /\ ~PathExists(q)}
  <2>1. Reconciled(c, FALSE) = MarkPathMissing(c, g)
    BY DEF Reconciled
  <2>2. p \in g <=> c.links[p] = "Linked" /\ ~PathExists(p)
    OBVIOUS
  <2> HIDE DEF g
  <2>3. MarkPathMissing(c, g).links[p] = IF p \in g THEN "MissingPath" ELSE c.links[p]
    BY <1>6
  <2> QED
    BY <2>1, <2>2, <2>3
<1>9. \A p \in Paths : /\ LinkWorktree(c, p).id = c.id /\ UnlinkWorktree(c, p).id = c.id
                       /\ UnlinkWorktree(c, p).links = [c.links EXCEPT ![p] = "none"]
  BY <1>2
<1>10. \A p \in Paths : /\ LinkWorktree(c, p) \in Copy /\ LinkWorktree(c, p).id = c.id
                        /\ UnlinkWorktree(c, p) \in Copy /\ UnlinkWorktree(c, p).id = c.id
                        /\ UnlinkWorktree(c, p).links = [c.links EXCEPT ![p] = "none"]
  BY <1>5, <1>9
<1>11. \A prune \in BOOLEAN : Reconciled(c, prune) \in Copy /\ Reconciled(c, prune).id = c.id
  BY <1>7
<1>12. \A p \in Paths : Reconciled(c, FALSE).links[p] =
         IF c.links[p] = "Linked" /\ ~PathExists(p) THEN "MissingPath" ELSE c.links[p]
  BY <1>8
<1>13. PruneMissing(c) \in Copy /\ PruneMissing(c).id = c.id
  BY <1>6
<1> HIDE DEF Copy
<1> QED
  BY <1>1, <1>10, <1>11, <1>12, <1>13

(* A save writes one row.                                                   *)
LEMMA SaveFacts ==
  ASSUME LinkTypes, NEW c \in Copy, SaveInstance(c)
  PROVE  /\ inst' \in [Instances -> Instance]
         /\ inst'[c.id].alive /\ inst'[c.id].links = c.links
         /\ \A i \in Instances : i # c.id => inst'[i] = inst[i]
<1>1. c.id \in Instances /\ c.links \in Links /\ inst \in [Instances -> Instance]
  BY CopyFacts DEF LinkTypes
<1>2. [alive |-> TRUE, links |-> c.links] \in Instance
  BY <1>1 DEF Instance
<1>3. inst' = [inst EXCEPT ![c.id] = [alive |-> TRUE, links |-> c.links]]
  BY DEF SaveInstance
<1> QED
  BY <1>1, <1>2, <1>3

(* The places and types of the tick's register.                             *)
LEMMA TickFacts ==
  ASSUME NEW tk \in Tick
  PROVE  /\ tk.pc \in {"idle", "workspace", "reconcile", "grace", "unlink", "save"}
         /\ tk.todo \subseteq Workspaces /\ tk.ws \subseteq Workspaces /\ tk.copies \subseteq Copy
         /\ tk.keys \subseteq Keys /\ tk.target \subseteq Keys /\ tk.valid \subseteq Keys
         /\ tk.seen \subseteq Keys /\ tk.quiet \in BOOLEAN
BY DEF Tick

(* A budget is spent by one, within its limit.                              *)
LEMMA SpendFacts ==
  ASSUME LinkTypes, NEW b \in DOMAIN Limit, Spend(b)
  PROVE  /\ spent' \in [DOMAIN Limit -> Nat] /\ \A c \in DOMAIN Limit : spent'[c] <= Limit[c]
         /\ spent'[b] = spent[b] + 1 /\ \A c \in DOMAIN Limit : c # b => spent'[c] = spent[c]
         /\ b = "commands" => spent'.commands = spent.commands + 1 /\ spent'.faults = spent.faults
         /\ b = "faults" => spent'.faults = spent.faults + 1 /\ spent'.commands = spent.commands
         /\ b = "disk" => spent'.faults = spent.faults /\ spent'.commands = spent.commands
<1>1. DOMAIN Limit = {"commands", "disk", "faults"} /\ Limit.commands \in Nat /\ Limit.disk \in Nat /\ Limit.faults \in Nat
  BY WorktreesConstants DEF Limit
<1>2. spent \in [DOMAIN Limit -> Nat] /\ spent' = [spent EXCEPT ![b] = @ + 1] /\ spent[b] < Limit[b]
      /\ \A c \in DOMAIN Limit : spent[c] <= Limit[c]
  BY DEF LinkTypes, Spend
<1> HIDE DEF Limit
<1> QED
  BY <1>1, <1>2

(* A command or the disk disturbs a tick, and nothing else of it.           *)
LEMMA DisturbedFacts ==
  ASSUME tick \in Tick, Disturbed
  PROVE  /\ tick' \in Tick /\ tick'.quiet = FALSE
         /\ tick'.pc = tick.pc /\ tick'.todo = tick.todo /\ tick'.ws = tick.ws
         /\ tick'.copies = tick.copies /\ tick'.keys = tick.keys /\ tick'.target = tick.target
         /\ tick'.valid = tick.valid /\ tick'.seen = tick.seen
BY DEF Tick, Disturbed

(* A command that pays for the links it may break keeps the invariant.      *)
LEMMA DisturbedKeeps ==
  ASSUME WInv, Disturbed, UNCHANGED <<counts, misses>>,
         disk' \subseteq Paths, archived' \subseteq Workspaces, inst' \in [Instances -> Instance],
         cli' \in Cli, Command(cli'),
         spent' \in [DOMAIN Limit -> Nat], \A b \in DOMAIN Limit : spent'[b] <= Limit[b],
         spent'.faults = spent.faults,
         \A k \in Keys : One(Pending(k[1], cli')) + One(Broken(k, tick, inst')) + spent.commands
                           <= One(Pending(k[1], cli)) + One(Broken(k, tick, inst)) + spent'.commands
  PROVE  WInv'
<1>1. LinkTypes /\ Places(tick)
  BY DEF WInv
<1>2. tick \in Tick
  BY <1>1 DEF LinkTypes
<1>3. /\ tick' \in Tick /\ tick'.quiet = FALSE
      /\ tick'.pc = tick.pc /\ tick'.todo = tick.todo /\ tick'.ws = tick.ws
      /\ tick'.copies = tick.copies /\ tick'.keys = tick.keys /\ tick'.target = tick.target
      /\ tick'.valid = tick.valid /\ tick'.seen = tick.seen
  BY <1>2, DisturbedFacts
<1>4. LinkTypes'
  BY <1>1, <1>3 DEF LinkTypes
<1>5. Places(tick')
  BY <1>1, <1>3 DEF Places
<1>6. Quiet(tick', inst', disk', archived')
  BY <1>3 DEF Quiet
<1>7. ASSUME NEW k \in Keys
      PROVE  /\ Found(k, tick', counts'[k]) /\ Counted(counts'[k], misses'[k])
             /\ Paid(k, counts'[k], tick', inst', cli', spent')
  <2>1. Found(k, tick, counts[k]) /\ Counted(counts[k], misses[k]) /\ Paid(k, counts[k], tick, inst, cli, spent)
    BY DEF WInv
  <2>2. counts'[k] = counts[k] /\ misses'[k] = misses[k]
    OBVIOUS
  <2>3. Found(k, tick', counts'[k])
    BY <2>1, <2>2, <1>3 DEF Found
  <2>4. Broken(k, tick', inst') = Broken(k, tick, inst')
    BY <1>3 DEF Broken
  <2> DEFINE x == One(Pending(k[1], cli)) + One(Broken(k, tick, inst))
             y == One(Pending(k[1], cli')) + One(Broken(k, tick, inst'))
             t == One(k \in tick.target)
             f == spent.faults
             c == spent.commands
             d == spent'.commands
             n == counts[k]
             m == Grace
  <2>5. x \in Nat /\ y \in Nat /\ t \in Nat /\ n \in Nat /\ m \in Nat
    BY <1>1, WorktreesConstants DEF One, LinkTypes
  <2>6. f \in Nat /\ c \in Nat /\ d \in Nat
    BY <1>1 DEF LinkTypes, Limit
  <2>7. y + c <= x + d
    <3>1. One(Pending(k[1], cli')) + One(Broken(k, tick, inst')) + spent.commands
            <= One(Pending(k[1], cli)) + One(Broken(k, tick, inst)) + spent'.commands
      OBVIOUS
    <3> QED
      BY <3>1
  <2>8. x <= c /\ n + One(Pending(k[1], cli)) + One(Broken(k, tick, inst)) <= m - 1 + t + f + c
    BY <2>1 DEF Paid
  <2>9. n + x <= m - 1 + t + f + c
    BY <2>8, <2>5, <2>6 DEF One
  <2>10. Paid(k, counts'[k], tick', inst', cli', spent') <=>
           /\ y <= d
           /\ n + One(Pending(k[1], cli')) + One(Broken(k, tick, inst')) <= m - 1 + t + f + d
    BY <2>2, <2>4, <1>3 DEF Paid
  <2>11. n + One(Pending(k[1], cli')) + One(Broken(k, tick, inst')) = n + y
    BY <2>5 DEF One
  <2> HIDE DEF x, y, t, f, c, d, n, m
  <2>12. y <= d /\ n + y <= m - 1 + t + f + d
    BY <2>5, <2>6, <2>7, <2>8, <2>9
  <2> QED
    BY <2>1, <2>2, <2>3, <2>10, <2>11, <2>12
<1> QED
  BY <1>4, <1>5, <1>6, <1>7 DEF WInv

(* Whether a link is broken depends on its own row only.                    *)
LEMMA BrokenFacts ==
  ASSUME NEW k, NEW tk, NEW i1, NEW i2, i1[k[1]] = i2[k[1]]
  PROVE  Broken(k, tk, i1) = Broken(k, tk, i2)
BY DEF Broken

(* A command reads a row: it pays for the copy that it holds.               *)
LEMMA CommandReadKeeps ==
  ASSUME WInv, NEW i \in Instances, CommandRead(i)
  PROVE  WInv'
<1>1. LinkTypes /\ Command(cli) /\ cli.pc = "idle"
  BY DEF WInv, CommandRead
<1>2. PICK new \in Edits(i) : cli' = [pc |-> "save", op |-> "edit", copies |-> {new}]
  BY DEF CommandRead
<1>3. RowOf(i) \in Copy
  BY <1>1, LinkFacts
<1>4. new \in Copy
  BY <1>2, <1>3, CopyFacts DEF Edits
<1>5. cli' \in Cli /\ cli'.copies = {new} /\ cli'.pc = "save"
  BY <1>2, <1>4 DEF Cli
<1>6. Command(cli')
  BY <1>5 DEF Command, Unique
<1>7. /\ spent' \in [DOMAIN Limit -> Nat] /\ \A b \in DOMAIN Limit : spent'[b] <= Limit[b]
      /\ spent'.commands = spent.commands + 1 /\ spent'.faults = spent.faults
      /\ spent.commands \in Nat
  <2>1. "commands" \in DOMAIN Limit /\ Spend("commands")
    BY DEF Limit, CommandRead
  <2>2. spent.commands \in Nat
    BY <1>1, <2>1 DEF LinkTypes
  <2> QED
    BY <1>1, <2>1, <2>2, SpendFacts
<1>8. ASSUME NEW k \in Keys
      PROVE One(Pending(k[1], cli')) + One(Broken(k, tick, inst')) + spent.commands
              <= One(Pending(k[1], cli)) + One(Broken(k, tick, inst)) + spent'.commands
  <2>1. inst' = inst
    BY DEF CommandRead
  <2>2. Broken(k, tick, inst') = Broken(k, tick, inst)
    BY <2>1
  <2> QED
    BY <2>2, <1>7 DEF One
<1>9. Disturbed /\ UNCHANGED <<disk, inst, archived, counts, misses>>
  BY DEF CommandRead
<1> QED
  BY <1>1, <1>5, <1>6, <1>7, <1>8, <1>9, DisturbedKeeps DEF LinkTypes

(* So does rl worktree reconcile, for the rows of its workspace.            *)
LEMMA ReconcileCommandKeeps ==
  ASSUME WInv, NEW w \in Workspaces, NEW op \in {"mark", "prune"}, ReconcileCommand(w, op)
  PROVE  WInv'
<1>1. LinkTypes /\ Command(cli) /\ cli.pc = "idle"
  BY DEF WInv, ReconcileCommand
<1>2. cli' = [pc |-> "save", op |-> op, copies |-> RowsOf(w)]
  BY DEF ReconcileCommand
<1>3. RowsOf(w) \subseteq Copy /\ Unique(RowsOf(w))
  BY <1>1, LinkFacts
<1>5. cli' \in Cli /\ cli'.copies = RowsOf(w) /\ cli'.pc = "save"
  BY <1>2, <1>3 DEF Cli
<1>6. Command(cli')
  BY <1>3, <1>5 DEF Command
<1>7. /\ spent' \in [DOMAIN Limit -> Nat] /\ \A b \in DOMAIN Limit : spent'[b] <= Limit[b]
      /\ spent'.commands = spent.commands + 1 /\ spent'.faults = spent.faults
      /\ spent.commands \in Nat
  <2>1. "commands" \in DOMAIN Limit /\ Spend("commands")
    BY DEF Limit, ReconcileCommand
  <2>2. spent.commands \in Nat
    BY <1>1, <2>1 DEF LinkTypes
  <2> QED
    BY <1>1, <2>1, <2>2, SpendFacts
<1>8. ASSUME NEW k \in Keys
      PROVE One(Pending(k[1], cli')) + One(Broken(k, tick, inst')) + spent.commands
              <= One(Pending(k[1], cli)) + One(Broken(k, tick, inst)) + spent'.commands
  <2>1. inst' = inst
    BY DEF ReconcileCommand
  <2>2. Broken(k, tick, inst') = Broken(k, tick, inst)
    BY <2>1
  <2> QED
    BY <2>2, <1>7 DEF One
<1>9. Disturbed /\ UNCHANGED <<disk, inst, archived, counts, misses>>
  BY DEF ReconcileCommand
<1> QED
  BY <1>1, <1>5, <1>6, <1>7, <1>8, <1>9, DisturbedKeeps DEF LinkTypes

(* The save of a command settles its row.                                   *)
LEMMA SettledKeeps ==
  ASSUME WInv, NEW copy \in cli.copies, NEW new \in Copy, new.id = copy.id,
         SaveInstance(new) \/ UNCHANGED inst,
         cli' \in Cli, Command(cli'), \A c \in cli'.copies : c \in cli.copies /\ c # copy,
         Disturbed, UNCHANGED <<disk, archived, counts, misses, spent>>
  PROVE  WInv'
<1>1. LinkTypes /\ Command(cli)
  BY DEF WInv
<1>2. Unique(cli.copies)
  BY <1>1 DEF Command
<1>3. inst' \in [Instances -> Instance] /\ \A i \in Instances : i # new.id => inst'[i] = inst[i]
  <2>1. CASE SaveInstance(new)
    BY <1>1, <2>1, SaveFacts
  <2>2. CASE UNCHANGED inst
    BY <1>1, <2>2 DEF LinkTypes
  <2> QED
    BY <2>1, <2>2
<1>4. spent \in [DOMAIN Limit -> Nat] /\ (\A b \in DOMAIN Limit : spent[b] <= Limit[b]) /\ spent.commands \in Nat
  BY <1>1 DEF LinkTypes, Limit
<1>5. ASSUME NEW k \in Keys
      PROVE One(Pending(k[1], cli')) + One(Broken(k, tick, inst')) + spent.commands
              <= One(Pending(k[1], cli)) + One(Broken(k, tick, inst)) + spent'.commands
  <2>1. CASE k[1] = copy.id
    <3>1. Pending(k[1], cli)
      BY <2>1 DEF Pending
    <3>2. ~Pending(k[1], cli')
      BY <2>1, <1>2 DEF Pending, Unique
    <3> QED
      BY <3>1, <3>2, <1>4 DEF One
  <2>2. CASE k[1] # copy.id
    <3>1. k[1] \in Instances
      BY DEF Keys
    <3>2. inst'[k[1]] = inst[k[1]]
      BY <1>3, <2>2, <3>1
    <3>3. Broken(k, tick, inst') = Broken(k, tick, inst)
      BY <3>2, BrokenFacts
    <3>4. Pending(k[1], cli') => Pending(k[1], cli)
      BY DEF Pending
    <3> QED
      BY <3>3, <3>4, <1>4 DEF One
  <2> QED
    BY <2>1, <2>2
<1>6. disk' \subseteq Paths /\ archived' \subseteq Workspaces
  BY <1>1 DEF LinkTypes
<1> QED
  BY <1>1, <1>3, <1>4, <1>5, <1>6, DisturbedKeeps

(* rl worktree link, unlink and prune-missing save their copy.              *)
LEMMA CommandSaveKeeps ==
  ASSUME WInv, NEW copy \in cli.copies, CommandSave(copy)
  PROVE  WInv'
<1>1. cli' = Idle /\ SaveInstance(copy) /\ Disturbed /\ UNCHANGED <<disk, archived, counts, misses, spent>>
  BY DEF CommandSave
<1>2. Idle \in Cli /\ Command(Idle) /\ Idle.copies = {}
  BY DEF Idle, Cli, Command, Unique
<1>3. copy \in Copy
  BY DEF WInv, LinkTypes, Cli
<1> QED
  BY <1>1, <1>2, <1>3, SettledKeeps

(* rl worktree reconcile saves what it made of one copy.                    *)
LEMMA ReconcileCommandInstanceKeeps ==
  ASSUME WInv, NEW copy \in cli.copies, ReconcileCommandInstance(copy)
  PROVE  WInv'
<1>1. /\ SaveIfChanged(copy, Reconciled(copy, cli.op = "prune"))
      /\ cli' = IF cli.copies = {copy} THEN Idle ELSE [cli EXCEPT !.copies = @ \ {copy}]
      /\ Disturbed /\ UNCHANGED <<disk, archived, counts, misses, spent>> /\ cli.pc = "save"
  BY DEF ReconcileCommandInstance
<1>2. Idle \in Cli /\ Command(Idle) /\ Idle.copies = {}
  BY DEF Idle, Cli, Command, Unique
<1>3. cli \in Cli /\ copy \in Copy /\ Command(cli)
  BY DEF WInv, LinkTypes, Cli
<1>4. cli' \in Cli /\ Command(cli') /\ \A c \in cli'.copies : c \in cli.copies /\ c # copy
  <2>1. CASE cli.copies = {copy}
    BY <2>1, <1>1, <1>2
  <2>2. CASE cli.copies # {copy}
    <3>1. cli' = [cli EXCEPT !.copies = @ \ {copy}]
      BY <2>2, <1>1
    <3>2. cli' \in Cli /\ cli'.copies = cli.copies \ {copy} /\ cli'.pc = "save"
      BY <3>1, <1>1, <1>3 DEF Cli
    <3> QED
      BY <3>2, <1>3 DEF Command, Unique
  <2> QED
    BY <2>1, <2>2
<1> DEFINE new == Reconciled(copy, cli.op = "prune")
<1>5. new \in Copy /\ new.id = copy.id
  BY <1>3, CopyFacts
<1>6. SaveInstance(new) \/ UNCHANGED inst
  BY <1>1 DEF SaveIfChanged
<1> HIDE DEF new
<1> QED
  BY <1>1, <1>4, <1>5, <1>6, SettledKeeps

(* A row that goes may break links: the command pays for them.              *)
LEMMA DetachKeeps ==
  ASSUME WInv, NEW i \in Instances, Detach(i)
  PROVE  WInv'
<1>1. LinkTypes /\ Command(cli)
  BY DEF WInv
<1>2. inst' = [inst EXCEPT ![i] = [alive |-> FALSE, links |-> [p \in Paths |-> "none"]]]
  BY DEF Detach
<1>3. [p \in Paths |-> "none"] \in Links
  BY DEF Links
<1>4. [alive |-> FALSE, links |-> [p \in Paths |-> "none"]] \in Instance
  BY <1>3 DEF Instance
<1>5. inst' \in [Instances -> Instance]
  BY <1>1, <1>2, <1>4 DEF LinkTypes
<1>7. /\ spent' \in [DOMAIN Limit -> Nat] /\ \A b \in DOMAIN Limit : spent'[b] <= Limit[b]
      /\ spent'.commands = spent.commands + 1 /\ spent'.faults = spent.faults
      /\ spent.commands \in Nat
  <2>1. "commands" \in DOMAIN Limit /\ Spend("commands")
    BY DEF Limit, Detach
  <2>2. spent.commands \in Nat
    BY <1>1, <2>1 DEF LinkTypes
  <2> QED
    BY <1>1, <2>1, <2>2, SpendFacts
<1>8. ASSUME NEW k \in Keys
      PROVE One(Pending(k[1], cli')) + One(Broken(k, tick, inst')) + spent.commands
              <= One(Pending(k[1], cli)) + One(Broken(k, tick, inst)) + spent'.commands
  <2>1. cli' = cli
    BY DEF Detach
  <2> QED
    BY <2>1, <1>7 DEF One
<1>9. Disturbed /\ UNCHANGED <<disk, archived, counts, cli, misses>>
  BY DEF Detach
<1> QED
  BY <1>1, <1>5, <1>7, <1>8, <1>9, DisturbedKeeps DEF LinkTypes

(* An archived workspace touches no row.                                    *)
LEMMA ArchiveKeeps ==
  ASSUME WInv, NEW w \in Workspaces, Archive(w)
  PROVE  WInv'
<1>1. LinkTypes /\ Command(cli)
  BY DEF WInv
<1>7. /\ spent' \in [DOMAIN Limit -> Nat] /\ \A b \in DOMAIN Limit : spent'[b] <= Limit[b]
      /\ spent'.commands = spent.commands + 1 /\ spent'.faults = spent.faults
      /\ spent.commands \in Nat
  <2>1. "commands" \in DOMAIN Limit /\ Spend("commands")
    BY DEF Limit, Archive
  <2>2. spent.commands \in Nat
    BY <1>1, <2>1 DEF LinkTypes
  <2> QED
    BY <1>1, <2>1, <2>2, SpendFacts
<1>9. Disturbed /\ UNCHANGED <<disk, inst, counts, cli, misses>>
  BY DEF Archive
<1>8. ASSUME NEW k \in Keys
      PROVE One(Pending(k[1], cli')) + One(Broken(k, tick, inst')) + spent.commands
              <= One(Pending(k[1], cli)) + One(Broken(k, tick, inst)) + spent'.commands
  BY <1>7, <1>9 DEF One
<1>10. archived' \subseteq Workspaces
  BY <1>1 DEF Archive, LinkTypes
<1> QED
  BY <1>1, <1>7, <1>8, <1>9, <1>10, DisturbedKeeps DEF LinkTypes

(* Neither does a directory that comes or goes.                             *)
LEMMA DiskChangeKeeps ==
  ASSUME WInv, NEW p \in Paths, DiskChange(p)
  PROVE  WInv'
<1>1. LinkTypes /\ Command(cli)
  BY DEF WInv
<1>7. /\ spent' \in [DOMAIN Limit -> Nat] /\ \A b \in DOMAIN Limit : spent'[b] <= Limit[b]
      /\ spent'.commands = spent.commands /\ spent'.faults = spent.faults
      /\ spent.commands \in Nat
  <2>1. "commands" \in DOMAIN Limit /\ "disk" \in DOMAIN Limit /\ Spend("disk")
    BY DEF Limit, DiskChange
  <2>2. spent.commands \in Nat
    BY <1>1, <2>1 DEF LinkTypes
  <2> QED
    BY <1>1, <2>1, <2>2, SpendFacts
<1>9. Disturbed /\ UNCHANGED <<inst, archived, counts, cli, misses>>
  BY DEF DiskChange
<1>8. ASSUME NEW k \in Keys
      PROVE One(Pending(k[1], cli')) + One(Broken(k, tick, inst')) + spent.commands
              <= One(Pending(k[1], cli)) + One(Broken(k, tick, inst)) + spent'.commands
  BY <1>7, <1>9 DEF One
<1>10. disk' \subseteq Paths
  BY <1>1 DEF DiskChange, LinkTypes
<1> QED
  BY <1>1, <1>7, <1>8, <1>9, <1>10, DisturbedKeeps DEF LinkTypes

(* The counter of a link that no step touches stays paid for as long as the *)
(* link gets no more broken.                                                *)
LEMMA PaidKept ==
  ASSUME LinkTypes, NEW k \in Keys, Paid(k, counts[k], tick, inst, cli, spent),
         cli' = cli, spent' = spent, counts'[k] = counts[k],
         k \in tick.target => k \in tick'.target \/ (Broken(k, tick, inst) /\ ~Broken(k, tick', inst')),
         Broken(k, tick', inst') => Broken(k, tick, inst)
  PROVE  Paid(k, counts'[k], tick', inst', cli', spent')
<1> DEFINE p == One(Pending(k[1], cli))
           b == One(Broken(k, tick, inst))
           bb == One(Broken(k, tick', inst'))
           t == One(k \in tick.target)
           tt == One(k \in tick'.target)
<1>1. p \in Nat /\ b \in Nat /\ bb \in Nat /\ t \in Nat /\ tt \in Nat /\ bb <= b /\ bb + t <= b + tt
  BY DEF One
<1>2. spent.faults \in Nat /\ spent.commands \in Nat /\ counts[k] \in Nat /\ Grace \in Nat
  BY WorktreesConstants DEF LinkTypes, Limit
<1>3. p + b <= spent.commands /\ counts[k] + p + b <= Grace - 1 + t + spent.faults + spent.commands
  BY DEF Paid
<1>4. Paid(k, counts'[k], tick', inst', cli', spent')
        <=> p + bb <= spent.commands /\ counts[k] + p + bb <= Grace - 1 + tt + spent.faults + spent.commands
  BY DEF Paid
<1> HIDE DEF p, b, bb, t, tt
<1>5. p + bb <= spent.commands /\ counts[k] + p + bb <= Grace - 1 + tt + spent.faults + spent.commands
  BY <1>1, <1>2, <1>3
<1> QED
  BY <1>4, <1>5

(* A counter that is below the grace is always paid for.                    *)
LEMMA PaidAnew ==
  ASSUME LinkTypes, NEW k \in Keys, Paid(k, counts[k], tick, inst, cli, spent),
         cli' = cli, spent'.commands = spent.commands, spent'.faults \in Nat,
         counts'[k] \in 0..Grace - 1, ~Broken(k, tick', inst')
  PROVE  Paid(k, counts'[k], tick', inst', cli', spent')
<1> DEFINE p == One(Pending(k[1], cli))
           b == One(Broken(k, tick, inst))
           tt == One(k \in tick'.target)
           n == counts'[k]
           g == Grace
<1>1. p \in Nat /\ b \in Nat /\ tt \in Nat /\ n \in Nat /\ n <= g - 1 /\ g \in Nat
  BY WorktreesConstants DEF One
<1>2. spent.commands \in Nat
  BY DEF LinkTypes, Limit
<1>3. p + b <= spent.commands
  BY DEF Paid
<1>4. Paid(k, counts'[k], tick', inst', cli', spent')
        <=> p + 0 <= spent.commands /\ n + p + 0 <= g - 1 + tt + spent'.faults + spent.commands
  BY DEF Paid, One
<1> HIDE DEF p, b, tt, n, g
<1>5. p + 0 <= spent.commands /\ n + p + 0 <= g - 1 + tt + spent'.faults + spent.commands
  BY <1>1, <1>2, <1>3
<1> QED
  BY <1>4, <1>5

(* What every step of the tick can rely on.                                 *)
LEMMA TickHas ==
  ASSUME WInv
  PROVE  /\ LinkTypes /\ Places(tick) /\ Command(cli) /\ Quiet(tick, inst, disk, archived)
         /\ tick \in Tick /\ inst \in [Instances -> Instance]
         /\ counts \in [Keys -> Nat] /\ misses \in [Keys -> 0..Grace] /\ Grace \in Nat \ {0}
         /\ \A k \in Keys : /\ k[1] \in Instances /\ k[2] \in Paths /\ k = <<k[1], k[2]>>
                            /\ WsOf[k[1]] \in Workspaces
                            /\ counts[k] \in Nat /\ misses[k] \in 0..Grace
                            /\ Found(k, tick, counts[k]) /\ Counted(counts[k], misses[k])
                            /\ Paid(k, counts[k], tick, inst, cli, spent)
BY WorktreesConstants DEF WInv, LinkTypes, Keys

(* A tick at rest has nothing to answer for.                                *)
LEMMA RestingFacts ==
  /\ Resting \in Tick /\ Places(Resting) /\ Resting.target = {} /\ Resting.keys = {} /\ Resting.copies = {}
  /\ \A i, d, arch : Quiet(Resting, i, d, arch)
  /\ \A k, i : ~Broken(k, Resting, i)
  /\ \A k, n : Found(k, Resting, n)
BY DEF Resting, Tick, Places, Quiet, Broken, Found

(* A tick starts with everything to do and nothing found.                   *)
LEMMA TickStartKeeps ==
  ASSUME WInv, TickStart
  PROVE  WInv'
<1>1. /\ tick.pc = "idle" /\ tick' = [tick EXCEPT !.pc = "workspace", !.todo = Workspaces \ archived, !.quiet = TRUE]
      /\ UNCHANGED <<disk, inst, archived, counts, cli, misses, spent>>
  BY DEF TickStart
<1>2. /\ tick' \in Tick /\ tick'.pc = "workspace" /\ tick'.todo = Workspaces \ archived
      /\ tick'.ws = tick.ws /\ tick'.copies = tick.copies /\ tick'.keys = tick.keys
      /\ tick'.target = tick.target /\ tick'.valid = tick.valid /\ tick'.seen = tick.seen
  BY <1>1, TickHas DEF Tick
<1>3. tick.ws = {} /\ tick.copies = {} /\ tick.keys = {} /\ tick.target = {} /\ tick.valid = {}
  BY <1>1, TickHas DEF Places
<1>4. LinkTypes'
  BY <1>1, <1>2, TickHas DEF LinkTypes
<1>5. Places(tick')
  BY <1>2, <1>3 DEF Places
<1>6. Quiet(tick', inst', disk', archived')
  BY <1>1, <1>2, <1>3, TickHas DEF Quiet, Lost
<1>7. ASSUME NEW k \in Keys
      PROVE  /\ Found(k, tick', counts'[k]) /\ Counted(counts'[k], misses'[k])
             /\ Paid(k, counts'[k], tick', inst', cli', spent')
  <2>1. Found(k, tick', counts'[k]) /\ Counted(counts'[k], misses'[k])
    BY <1>1, <1>2, <1>3, TickHas DEF Found
  <2>2. ~Broken(k, tick', inst') /\ k \notin tick.target
    BY <1>2, <1>3 DEF Broken
  <2> QED
    BY <1>1, <2>1, <2>2, TickHas, PaidKept
<1> QED
  BY <1>1, <1>4, <1>5, <1>6, <1>7, TickHas DEF WInv

(* The rows of the next workspace are listed.                               *)
LEMMA ReconcileListKeeps ==
  ASSUME WInv, NEW w \in Workspaces, ReconcileList(w)
  PROVE  WInv'
<1>1. /\ tick.pc = "workspace" /\ w \in tick.todo
      /\ tick' = [tick EXCEPT !.pc = "reconcile", !.todo = @ \ {w}, !.ws = {w}, !.copies = RowsOf(w)]
      /\ UNCHANGED <<disk, inst, archived, counts, cli, misses, spent>>
  BY DEF ReconcileList
<1>r. /\ RowsOf(w) \subseteq Copy /\ Unique(RowsOf(w))
      /\ \A c \in RowsOf(w) : inst[c.id].alive /\ WsOf[c.id] = w /\ c = RowOf(c.id)
      /\ \A i \in Instances : inst[i].alive /\ WsOf[i] = w => RowOf(i) \in RowsOf(w)
  BY TickHas, LinkFacts
<1>2. /\ tick' \in Tick /\ tick'.pc = "reconcile" /\ tick'.todo = tick.todo \ {w}
      /\ tick'.ws = {w} /\ tick'.copies = RowsOf(w) /\ tick'.keys = tick.keys /\ tick'.quiet = tick.quiet
      /\ tick'.target = tick.target /\ tick'.valid = tick.valid /\ tick'.seen = tick.seen
  BY <1>1, <1>r, TickHas DEF Tick
<1>3. tick.ws = {} /\ tick.copies = {} /\ tick.keys = {} /\ tick.target = {}
  BY <1>1, TickHas DEF Places
<1>4. LinkTypes'
  BY <1>1, <1>2, TickHas DEF LinkTypes
<1>5. Places(tick')
  BY <1>2, <1>3, <1>r DEF Places
<1>6. Quiet(tick', inst', disk', archived')
  <2> SUFFICES ASSUME tick'.quiet
               PROVE  /\ \A c \in tick'.copies : inst[c.id].alive /\ c = [id |-> c.id, links |-> inst[c.id].links]
                      /\ \A k \in Keys : Lost(k, inst, disk, archived) =>
                           \/ WsOf[k[1]] \in tick'.todo
                           \/ tick'.pc = "reconcile" /\ WsOf[k[1]] \in tick'.ws
                                /\ (Pending(k[1], tick') \/ inst[k[1]].links[k[2]] = "MissingPath")
                           \/ (tick'.pc = "reconcile" => WsOf[k[1]] \notin tick'.ws) /\ Told(k, tick', inst)
    BY <1>1 DEF Quiet
  <2>1. \A c \in tick'.copies : inst[c.id].alive /\ c = [id |-> c.id, links |-> inst[c.id].links]
    BY <1>2, <1>r DEF RowOf
  <2>2. ASSUME NEW k \in Keys, Lost(k, inst, disk, archived)
        PROVE  \/ WsOf[k[1]] \in tick'.todo
               \/ tick'.pc = "reconcile" /\ WsOf[k[1]] \in tick'.ws
                    /\ (Pending(k[1], tick') \/ inst[k[1]].links[k[2]] = "MissingPath")
               \/ (tick'.pc = "reconcile" => WsOf[k[1]] \notin tick'.ws) /\ Told(k, tick', inst)
    <3>1. CASE WsOf[k[1]] = w
      <4>1. inst[k[1]].alive /\ k[1] \in Instances
        BY <2>2, TickHas DEF Lost
      <4>2. RowOf(k[1]) \in tick'.copies /\ RowOf(k[1]).id = k[1]
        BY <3>1, <4>1, <1>r, <1>2 DEF RowOf
      <4> QED
        BY <3>1, <4>2, <1>2 DEF Pending
    <3>2. CASE WsOf[k[1]] # w
      <4>1. WsOf[k[1]] \in tick.todo \/ Told(k, tick, inst)
        BY <2>2, <1>1, <1>2, TickHas DEF Quiet
      <4> QED
        BY <3>2, <4>1, <1>2 DEF Told
    <3> QED
      BY <3>1, <3>2
  <2> QED
    BY <2>1, <2>2
<1>7. ASSUME NEW k \in Keys
      PROVE  /\ Found(k, tick', counts'[k]) /\ Counted(counts'[k], misses'[k])
             /\ Paid(k, counts'[k], tick', inst', cli', spent')
  <2>1. Found(k, tick', counts'[k]) /\ Counted(counts'[k], misses'[k])
    BY <1>1, <1>2, <1>3, TickHas DEF Found
  <2>2. ~Broken(k, tick', inst') /\ k \notin tick.target
    BY <1>2, <1>3 DEF Broken
  <2> QED
    BY <1>1, <2>1, <2>2, TickHas, PaidKept
<1> QED
  BY <1>1, <1>4, <1>5, <1>6, <1>7, TickHas DEF WInv

(* One row is marked: what was found there was not missing before.          *)
LEMMA ReconcileInstanceKeeps ==
  ASSUME WInv, NEW copy \in tick.copies, ReconcileInstance(copy)
  PROVE  WInv'
<1> DEFINE new == Reconciled(copy, FALSE)
           found == {<<copy.id, p>> : p \in {p \in disk : copy.links[p] # "none"}}
<1>1. /\ tick.pc = "reconcile" /\ SaveIfChanged(copy, new)
      /\ tick' = [tick EXCEPT !.copies = @ \ {copy}, !.seen = @ \cup found]
      /\ UNCHANGED <<disk, archived, counts, cli, misses, spent>>
  BY DEF ReconcileInstance
<1>c. copy \in Copy /\ copy.id \in Instances /\ copy.links \in Links
  BY TickHas, CopyFacts DEF Tick
<1>n. /\ new \in Copy /\ new.id = copy.id
      /\ \A p \in Paths : new.links[p] = IF copy.links[p] = "Linked" /\ p \notin disk THEN "MissingPath" ELSE copy.links[p]
  BY <1>c, CopyFacts DEF PathExists
<1>f. found \subseteq Keys /\ \A k \in found : k[1] = copy.id
  BY <1>c, TickHas DEF Keys, LinkTypes
<1>s. SaveInstance(new) \/ (new = copy /\ inst' = inst)
  BY <1>1 DEF SaveIfChanged
<1> HIDE DEF new, found
<1>2. /\ tick' \in Tick /\ tick'.pc = "reconcile" /\ tick'.todo = tick.todo
      /\ tick'.ws = tick.ws /\ tick'.copies = tick.copies \ {copy} /\ tick'.keys = tick.keys /\ tick'.quiet = tick.quiet
      /\ tick'.target = tick.target /\ tick'.valid = tick.valid /\ tick'.seen = tick.seen \cup found
  BY <1>1, <1>f, TickHas DEF Tick
<1>3. tick.keys = {} /\ tick.target = {} /\ Unique(tick.copies) /\ WsOf[copy.id] \in tick.ws
  BY <1>1, TickHas DEF Places
<1>i. inst' \in [Instances -> Instance] /\ \A i \in Instances : i # copy.id => inst'[i] = inst[i]
  BY <1>s, <1>n, TickHas, SaveFacts
<1>4. LinkTypes'
  BY <1>1, <1>2, <1>i, TickHas DEF LinkTypes
<1>5. Places(tick')
  BY <1>1, <1>2, <1>3, TickHas DEF Places, Unique
<1>6. Quiet(tick', inst', disk', archived')
  <2> SUFFICES ASSUME tick.quiet
               PROVE  /\ \A c \in tick'.copies : inst'[c.id].alive /\ c = [id |-> c.id, links |-> inst'[c.id].links]
                      /\ \A k \in Keys : Lost(k, inst', disk, archived) =>
                           \/ WsOf[k[1]] \in tick'.todo
                           \/ tick'.pc = "reconcile" /\ WsOf[k[1]] \in tick'.ws
                                /\ (Pending(k[1], tick') \/ inst'[k[1]].links[k[2]] = "MissingPath")
                           \/ (tick'.pc = "reconcile" => WsOf[k[1]] \notin tick'.ws) /\ Told(k, tick', inst')
    BY <1>1, <1>2 DEF Quiet
  <2>0. /\ \A c \in tick.copies : inst[c.id].alive /\ c = [id |-> c.id, links |-> inst[c.id].links]
        /\ \A k \in Keys : Lost(k, inst, disk, archived) =>
             \/ WsOf[k[1]] \in tick.todo
             \/ WsOf[k[1]] \in tick.ws /\ (Pending(k[1], tick) \/ inst[k[1]].links[k[2]] = "MissingPath")
             \/ WsOf[k[1]] \notin tick.ws /\ Told(k, tick, inst)
    BY <1>1, TickHas DEF Quiet
  <2>1. ASSUME NEW c \in tick'.copies
        PROVE inst'[c.id].alive /\ c = [id |-> c.id, links |-> inst'[c.id].links]
    <3>1. c \in tick.copies /\ c # copy /\ c.id # copy.id
      BY <1>2, <1>3 DEF Unique
    <3>2. c.id \in Instances
      BY <3>1, TickHas, CopyFacts DEF Tick
    <3> QED
      BY <2>0, <3>1, <3>2, <1>i
  <2>2. ASSUME NEW k \in Keys, Lost(k, inst', disk, archived)
        PROVE  \/ WsOf[k[1]] \in tick'.todo
               \/ tick'.pc = "reconcile" /\ WsOf[k[1]] \in tick'.ws
                    /\ (Pending(k[1], tick') \/ inst'[k[1]].links[k[2]] = "MissingPath")
               \/ (tick'.pc = "reconcile" => WsOf[k[1]] \notin tick'.ws) /\ Told(k, tick', inst')
    <3>1. CASE k[1] = copy.id
      <4>1. inst'[k[1]].links = new.links
        <5>1. CASE SaveInstance(new)
          BY <3>1, <5>1, <1>n, TickHas, SaveFacts
        <5>2. CASE new = copy /\ inst' = inst
          <6>1. copy.links = inst[copy.id].links
            <7>1. copy = [id |-> copy.id, links |-> inst[copy.id].links]
              BY <2>0
            <7> QED
              BY <7>1
          <6> QED
            BY <3>1, <5>2, <6>1
        <5> QED
          BY <1>s, <5>1, <5>2
      <4>2. new.links[k[2]] # "none" /\ k[2] \notin disk /\ k[2] \in Paths
        BY <2>2, <4>1, TickHas DEF Lost
      <4>3. copy.links[k[2]] \in {"none", "Linked", "MissingPath"}
        BY <1>c, <4>2 DEF Links
      <4>4. new.links[k[2]] = "MissingPath"
        BY <1>n, <4>2, <4>3
      <4> QED
        BY <3>1, <4>1, <4>4, <1>2, <1>3
    <3>2. CASE k[1] # copy.id
      <4>1. inst'[k[1]] = inst[k[1]]
        BY <3>2, <1>i, TickHas
      <4>2. Lost(k, inst, disk, archived)
        BY <2>2, <4>1 DEF Lost
      <4>3. Pending(k[1], tick) => Pending(k[1], tick')
        BY <3>2, <1>2 DEF Pending
      <4>4. Told(k, tick, inst) => Told(k, tick', inst')
        BY <4>1, <1>2 DEF Told
      <4> QED
        BY <2>0, <4>1, <4>2, <4>3, <4>4, <1>2
    <3> QED
      BY <3>1, <3>2
  <2> QED
    BY <2>1, <2>2
<1>7. ASSUME NEW k \in Keys
      PROVE  /\ Found(k, tick', counts'[k]) /\ Counted(counts'[k], misses'[k])
             /\ Paid(k, counts'[k], tick', inst', cli', spent')
  <2>1. Found(k, tick', counts'[k]) /\ Counted(counts'[k], misses'[k])
    <3>1. k \in tick.valid => k \notin found
      BY <1>1, <1>3, <1>f, TickHas DEF Found
    <3> QED
      BY <1>1, <1>2, <1>3, <3>1, TickHas DEF Found
  <2>2. ~Broken(k, tick', inst') /\ k \notin tick.target
    BY <1>2, <1>3 DEF Broken
  <2> QED
    BY <1>1, <2>1, <2>2, TickHas, PaidKept
<1> QED
  BY <1>1, <1>4, <1>5, <1>6, <1>7, TickHas DEF WInv

(* The missing links are listed after all rows are marked.                  *)
LEMMA GraceListKeeps ==
  ASSUME WInv, GraceList
  PROVE  WInv'
<1> DEFINE listed == {k \in Keys : /\ inst[k[1]].alive /\ WsOf[k[1]] \in tick.ws \ archived
                                   /\ inst[k[1]].links[k[2]] = "MissingPath"}
<1>1. /\ tick.pc = "reconcile" /\ tick.copies = {} /\ tick' = [tick EXCEPT !.pc = "grace", !.keys = listed]
      /\ UNCHANGED <<disk, inst, archived, counts, cli, misses, spent>>
  BY DEF GraceList
<1>l. /\ listed \subseteq Keys
      /\ \A k \in Keys : k \in listed <=> /\ inst[k[1]].alive /\ WsOf[k[1]] \in tick.ws \ archived
                                          /\ inst[k[1]].links[k[2]] = "MissingPath"
  OBVIOUS
<1> HIDE DEF listed
<1>2. /\ tick' \in Tick /\ tick'.pc = "grace" /\ tick'.todo = tick.todo
      /\ tick'.ws = tick.ws /\ tick'.copies = {} /\ tick'.keys = listed /\ tick'.quiet = tick.quiet
      /\ tick'.target = tick.target /\ tick'.valid = tick.valid /\ tick'.seen = tick.seen
  BY <1>1, <1>l, TickHas DEF Tick
<1>3. tick.keys = {} /\ tick.target = {}
  BY <1>1, TickHas DEF Places
<1>4. LinkTypes'
  BY <1>1, <1>2, TickHas DEF LinkTypes
<1>5. Places(tick')
  BY <1>1, <1>2, <1>3, TickHas DEF Places
<1>6. Quiet(tick', inst', disk', archived')
  <2> SUFFICES ASSUME tick.quiet, NEW k \in Keys, Lost(k, inst, disk, archived), WsOf[k[1]] \notin tick.todo
               PROVE  Told(k, tick', inst)
    BY <1>1, <1>2 DEF Quiet
  <2>1. \/ WsOf[k[1]] \in tick.ws /\ (Pending(k[1], tick) \/ inst[k[1]].links[k[2]] = "MissingPath")
        \/ Told(k, tick, inst)
    BY <1>1, TickHas DEF Quiet
  <2>2. ~Pending(k[1], tick)
    BY <1>1 DEF Pending
  <2> QED
    BY <2>1, <2>2, <1>2, <1>3, <1>l DEF Told, Lost
<1>7. ASSUME NEW k \in Keys
      PROVE  /\ Found(k, tick', counts'[k]) /\ Counted(counts'[k], misses'[k])
             /\ Paid(k, counts'[k], tick', inst', cli', spent')
  <2>1. Found(k, tick', counts'[k]) /\ Counted(counts'[k], misses'[k])
    BY <1>1, <1>2, <1>3, <1>l, TickHas DEF Found
  <2>2. ~Broken(k, tick', inst') /\ k \notin tick.target
    BY <1>1, <1>2, <1>3, <1>l DEF Broken
  <2> QED
    BY <1>1, <2>1, <2>2, TickHas, PaidKept
<1> QED
  BY <1>1, <1>4, <1>5, <1>6, <1>7, TickHas DEF WInv

(* A probe counts a miss, or starts the grace over.                         *)
LEMMA GraceProbeKeeps ==
  ASSUME WInv, NEW j \in tick.keys, GraceProbe(j)
  PROVE  WInv'
<1> DEFINE there == PathExists(j[2])
           n == IF there THEN 0 ELSE counts[j] + 1
           out == n >= Grace
<1>j. j \in Keys /\ j[1] \in Instances /\ j[2] \in Paths /\ counts[j] \in Nat /\ n \in Nat /\ Grace \in Nat \ {0}
  <2>1. j \in Keys
    BY TickHas DEF Tick
  <2> QED
    BY <2>1, TickHas
<1>0. /\ tick.pc = "grace" /\ CountMiss(j)
      /\ misses' = [misses EXCEPT ![j] = IF there \/ @ = Grace THEN @ ELSE @ + 1]
      /\ UNCHANGED <<disk, inst, archived, cli, spent>>
  BY DEF GraceProbe
<1>c. counts' = [counts EXCEPT ![j] = n] /\ counts'[j] = n
  BY <1>0, <1>j, TickHas DEF CountMiss
<1>1. tick' = [tick EXCEPT !.keys = @ \ {j},
                           !.valid = IF there THEN @ ELSE @ \cup {j},
                           !.seen = IF there THEN @ \cup {j} ELSE @ \ {j},
                           !.pc = IF out THEN "unlink" ELSE @,
                           !.target = IF out THEN {j} ELSE {}]
  BY <1>0, <1>c DEF CountMiss
<1>t. there \in BOOLEAN /\ out \in BOOLEAN /\ (there <=> j[2] \in disk) /\ (out <=> n >= Grace)
      /\ (there => n = 0) /\ (~there => n = counts[j] + 1)
  BY DEF PathExists
<1> HIDE DEF there, n, out
<1>2. /\ tick' \in Tick /\ tick'.pc = (IF out THEN "unlink" ELSE "grace") /\ tick'.todo = tick.todo
      /\ tick'.ws = tick.ws /\ tick'.copies = tick.copies /\ tick'.keys = tick.keys \ {j} /\ tick'.quiet = tick.quiet
      /\ tick'.target = (IF out THEN {j} ELSE {})
      /\ tick'.valid = (IF there THEN tick.valid ELSE tick.valid \cup {j})
      /\ tick'.seen = (IF there THEN tick.seen \cup {j} ELSE tick.seen \ {j})
  BY <1>0, <1>1, <1>j, TickHas DEF Tick
<1>3. tick.target = {} /\ tick.copies = {}
  BY <1>0, TickHas DEF Places
<1>f. j \notin tick.valid /\ WsOf[j[1]] \in tick.ws /\ WsOf[j[1]] \notin tick.todo
  BY <1>j, TickHas DEF Found, Places
<1>4. LinkTypes'
  <2>1. counts' \in [Keys -> Nat]
    BY <1>c, <1>j, TickHas
  <2>2. misses' \in [Keys -> 0..Grace]
    <3>1. misses[j] \in 0..Grace /\ (misses[j] # Grace => misses[j] + 1 \in 0..Grace)
      BY <1>j, TickHas
    <3> QED
      BY <1>0, <3>1, TickHas
  <2> QED
    BY <1>0, <1>2, <2>1, <2>2, TickHas DEF LinkTypes
<1>5. Places(tick')
  BY <1>0, <1>2, <1>3, <1>j, <1>t, TickHas DEF Places
<1>6. Quiet(tick', inst', disk', archived')
  <2> SUFFICES ASSUME tick.quiet, NEW k \in Keys, Lost(k, inst, disk, archived), WsOf[k[1]] \notin tick.todo
               PROVE  Told(k, tick', inst)
    BY <1>0, <1>2, <1>3, <1>t DEF Quiet
  <2>1. Told(k, tick, inst)
    BY <1>0, TickHas DEF Quiet
  <2>2. k = j => ~there
    BY <1>t DEF Lost
  <2> QED
    BY <2>1, <2>2, <1>2 DEF Told
<1>7. ASSUME NEW k \in Keys
      PROVE  /\ Found(k, tick', counts'[k]) /\ Counted(counts'[k], misses'[k])
             /\ Paid(k, counts'[k], tick', inst', cli', spent')
  <2>1. CASE k # j
    <3>1. counts'[k] = counts[k] /\ misses'[k] = misses[k]
      BY <2>1, <1>0, <1>c, TickHas
    <3>2. Found(k, tick', counts'[k]) /\ Counted(counts'[k], misses'[k])
      BY <2>1, <3>1, <1>0, <1>2, <1>3, TickHas DEF Found
    <3>3. k \notin tick.target /\ (Broken(k, tick', inst') => Broken(k, tick, inst))
      BY <2>1, <1>0, <1>2, <1>3, <1>t DEF Broken
    <3> QED
      BY <3>1, <3>2, <3>3, <1>0, TickHas, PaidKept
  <2>2. CASE k = j
    <3>1. counts'[k] = n /\ misses'[k] = IF there \/ misses[k] = Grace THEN misses[k] ELSE misses[k] + 1
      BY <2>2, <1>0, <1>c, <1>j, TickHas
    <3>2. Found(k, tick', n)
      BY <2>2, <1>0, <1>2, <1>3, <1>f, <1>j, <1>t, TickHas DEF Found
    <3>3. Counted(n, misses'[k])
      <4>1. Counted(counts[k], misses[k]) /\ misses[k] \in 0..Grace /\ counts[k] \in Nat
        BY <2>2, TickHas
      <4> QED
        BY <2>2, <3>1, <4>1, <1>j, <1>t DEF Counted
    <3>4. CASE ~out
      <4>1. n \in 0..Grace - 1
        BY <3>4, <1>j, <1>t
      <4>2. ~Broken(k, tick', inst')
        BY <2>2, <3>4, <1>2 DEF Broken
      <4>3. spent' = spent /\ spent.faults \in Nat
        BY <1>0, TickHas DEF LinkTypes, Limit
      <4>4. counts'[k] \in 0..Grace - 1 /\ cli' = cli /\ spent'.commands = spent.commands /\ spent'.faults \in Nat
        BY <3>1, <4>1, <4>3, <1>0
      <4>5. LinkTypes /\ Paid(k, counts[k], tick, inst, cli, spent)
        BY TickHas
      <4>6. Paid(k, counts'[k], tick', inst', cli', spent')
        BY <4>2, <4>4, <4>5, PaidAnew
      <4> QED
        BY <3>1, <3>2, <3>3, <4>6
    <3>5. CASE out
      <4>1. Broken(k, tick', inst') = Broken(k, tick, inst)
        BY <2>2, <3>5, <1>0, <1>2, <1>3 DEF Broken
      <4>2. n = counts[k] + 1
        BY <2>2, <3>5, <1>j, <1>t
      <4>3. k \in tick'.target /\ k \notin tick.target
        BY <2>2, <3>5, <1>2, <1>3
      <4> DEFINE p == One(Pending(k[1], cli))
                 b == One(Broken(k, tick, inst))
                 m == counts[k]
                 g == Grace
                 f == spent.faults
                 c == spent.commands
      <4>4. p \in Nat /\ b \in Nat /\ m \in Nat /\ g \in Nat
        BY <1>j, TickHas DEF One
      <4>5. f \in Nat /\ c \in Nat
        BY TickHas DEF LinkTypes, Limit
      <4>6. p + b <= c /\ m + p + b <= g - 1 + 0 + f + c
        BY <4>3, TickHas DEF Paid, One
      <4>7. Paid(k, n, tick', inst', cli', spent') <=> p + b <= c /\ (m + 1) + p + b <= g - 1 + 1 + f + c
        BY <4>1, <4>2, <4>3, <1>0 DEF Paid, One
      <4> HIDE DEF p, b, m, g, f, c
      <4>8. (m + 1) + p + b <= g - 1 + 1 + f + c
        BY <4>4, <4>5, <4>6
      <4> QED
        BY <3>1, <3>2, <3>3, <4>6, <4>7, <4>8
    <3> QED
      BY <3>4, <3>5
  <2> QED
    BY <2>1, <2>2
<1> QED
  BY <1>0, <1>4, <1>5, <1>6, <1>7, TickHas DEF WInv

(* A tick ends early: a fault, or the command that broke the link at hand, pays. *)
LEMMA CutShortKeeps ==
  ASSUME WInv, tick' = Resting, UNCHANGED <<disk, inst, archived, counts, cli, misses>>,
         \/ spent' = spent /\ \A k \in tick.target : Broken(k, tick, inst)
         \/ Spend("faults")
  PROVE  WInv'
<1>1. spent' \in [DOMAIN Limit -> Nat] /\ \A b \in DOMAIN Limit : spent'[b] <= Limit[b]
  BY TickHas, SpendFacts DEF LinkTypes, Limit
<1>2. LinkTypes'
  BY <1>1, RestingFacts, TickHas DEF LinkTypes
<1>3. Places(tick') /\ Command(cli') /\ Quiet(tick', inst', disk', archived')
  BY RestingFacts, TickHas
<1>4. ASSUME NEW k \in Keys
      PROVE  /\ Found(k, tick', counts'[k]) /\ Counted(counts'[k], misses'[k])
             /\ Paid(k, counts'[k], tick', inst', cli', spent')
  <2>1. Found(k, tick', counts'[k]) /\ Counted(counts'[k], misses'[k])
    BY RestingFacts, TickHas
  <2>2. ~Broken(k, tick', inst') /\ k \notin tick'.target
    BY RestingFacts
  <2>3. CASE spent' = spent /\ \A l \in tick.target : Broken(l, tick, inst)
    BY <2>1, <2>2, <2>3, TickHas, PaidKept
  <2>4. CASE Spend("faults")
    <3>1. "faults" \in DOMAIN Limit /\ LinkTypes
      BY TickHas DEF Limit
    <3>2. spent'.faults = spent.faults + 1 /\ spent'.commands = spent.commands
      BY <2>4, <3>1, SpendFacts
    <3> DEFINE p == One(Pending(k[1], cli))
               b == One(Broken(k, tick, inst))
               t == One(k \in tick.target)
               m == counts[k]
               g == Grace
               f == spent.faults
               c == spent.commands
    <3>4. p \in Nat /\ b \in Nat /\ t \in Nat /\ t <= 1 /\ m \in Nat /\ g \in Nat
      BY TickHas DEF One
    <3>5. f \in Nat /\ c \in Nat
      BY TickHas DEF LinkTypes, Limit
    <3>6. p + b <= c /\ m + p + b <= g - 1 + t + f + c
      BY TickHas DEF Paid
    <3>7. Paid(k, counts'[k], tick', inst', cli', spent') <=> p + 0 <= c /\ m + p + 0 <= g - 1 + 0 + (f + 1) + c
      BY <2>2, <3>2 DEF Paid, One
    <3> HIDE DEF p, b, t, m, g, f, c
    <3>8. p + 0 <= c /\ m + p + 0 <= g - 1 + 0 + (f + 1) + c
      BY <3>4, <3>5, <3>6
    <3> QED
      BY <2>1, <3>7, <3>8
  <2> QED
    BY <2>3, <2>4
<1> QED
  BY <1>2, <1>3, <1>4 DEF WInv

(* A failed tick is cut short by a fault.                                   *)
LEMMA TickFailsKeeps ==
  ASSUME WInv, TickFails
  PROVE  WInv'
BY CutShortKeeps DEF TickFails, CutShort

(* The row of the link is read again before it is unlinked.                 *)
LEMMA UnlinkReadKeeps ==
  ASSUME WInv, UnlinkRead
  PROVE  WInv'
<1>0. PICK j \in tick.target :
        IF inst[j[1]].alive /\ inst[j[1]].links[j[2]] # "none"
          THEN tick' = [tick EXCEPT !.pc = "save", !.copies = {RowOf(j[1])}]
          ELSE CutShort
  BY DEF UnlinkRead
<1>1. tick.pc = "unlink" /\ UNCHANGED <<disk, inst, archived, counts, cli, misses, spent>>
  BY DEF UnlinkRead
<1>2. tick.target = {j} /\ j \in Keys /\ tick.copies = {} /\ j[1] \in Instances
  BY <1>1, TickHas DEF Places
<1>3. CASE inst[j[1]].alive /\ inst[j[1]].links[j[2]] # "none"
  <2> DEFINE again == RowOf(j[1])
  <2>r. again \in Copy /\ again.id = j[1] /\ again.links = inst[j[1]].links
    BY <1>2, TickHas, LinkFacts DEF RowOf
  <2>e. again = [id |-> j[1], links |-> inst[j[1]].links]
    BY DEF RowOf
  <2>1. tick' = [tick EXCEPT !.pc = "save", !.copies = {again}]
    BY <1>0, <1>3
  <2> HIDE DEF again
  <2>2. /\ tick' \in Tick /\ tick'.pc = "save" /\ tick'.todo = tick.todo
        /\ tick'.ws = tick.ws /\ tick'.copies = {again} /\ tick'.keys = tick.keys /\ tick'.quiet = tick.quiet
        /\ tick'.target = tick.target /\ tick'.valid = tick.valid /\ tick'.seen = tick.seen
    BY <2>1, <2>r, TickHas DEF Tick
  <2>4. LinkTypes'
    BY <1>1, <2>2, TickHas DEF LinkTypes
  <2>5. Places(tick')
    BY <1>1, <1>2, <2>2, <2>r, TickHas DEF Places
  <2>6. Quiet(tick', inst', disk', archived')
    <3> SUFFICES ASSUME tick.quiet
                 PROVE  /\ \A c \in tick'.copies : inst[c.id].alive /\ c = [id |-> c.id, links |-> inst[c.id].links]
                        /\ \A k \in Keys : Lost(k, inst, disk, archived) =>
                             WsOf[k[1]] \in tick'.todo \/ Told(k, tick', inst)
      BY <1>1, <2>2 DEF Quiet
    <3>1. \A c \in tick'.copies : inst[c.id].alive /\ c = [id |-> c.id, links |-> inst[c.id].links]
      BY <1>3, <2>2, <2>r, <2>e
    <3>2. \A k \in Keys : Lost(k, inst, disk, archived) => WsOf[k[1]] \in tick.todo \/ Told(k, tick, inst)
      BY <1>1, TickHas DEF Quiet
    <3> QED
      BY <3>1, <3>2, <2>2 DEF Told
  <2>7. ASSUME NEW k \in Keys
        PROVE  /\ Found(k, tick', counts'[k]) /\ Counted(counts'[k], misses'[k])
               /\ Paid(k, counts'[k], tick', inst', cli', spent')
    <3>1. Found(k, tick', counts'[k]) /\ Counted(counts'[k], misses'[k])
      BY <1>1, <2>2, TickHas DEF Found
    <3>2. Broken(k, tick', inst') => Broken(k, tick, inst)
      BY <1>1, <2>2, <2>r DEF Broken
    <3> QED
      BY <3>1, <3>2, <1>1, <2>2, TickHas, PaidKept
  <2> QED
    BY <1>1, <2>4, <2>5, <2>6, <2>7, TickHas DEF WInv
<1>4. CASE ~(inst[j[1]].alive /\ inst[j[1]].links[j[2]] # "none")
  <2>1. tick' = Resting
    BY <1>0, <1>4 DEF CutShort
  <2>2. \A k \in tick.target : Broken(k, tick, inst)
    BY <1>2, <1>4 DEF Broken
  <2> QED
    BY <1>1, <2>1, <2>2, CutShortKeeps
<1> QED
  BY <1>3, <1>4

(* The link goes, with its counter, by the copy that was read.              *)
LEMMA UnlinkSaveKeeps ==
  ASSUME WInv, UnlinkSave
  PROVE  WInv'
<1>0. PICK j \in tick.target, copy \in tick.copies :
        /\ SaveInstance(UnlinkWorktree(copy, j[2]))
        /\ counts' = [counts EXCEPT ![j] = 0]
        /\ misses' = [misses EXCEPT ![j] = 0]
        /\ tick' = [tick EXCEPT !.pc = "grace", !.copies = {}, !.target = {}, !.valid = @ \ {j}]
  BY DEF UnlinkSave
<1>1. tick.pc = "save" /\ UNCHANGED <<disk, archived, cli, spent>>
  BY DEF UnlinkSave
<1>2. /\ tick.target = {j} /\ j \in Keys /\ tick.copies = {copy} /\ copy.id = j[1] /\ copy \in Copy
      /\ j[1] \in Instances /\ j[2] \in Paths /\ copy.links \in Links /\ Grace \in Nat \ {0}
  <2>1. tick.target = {j} /\ j \in Keys /\ \E c \in Copy : tick.copies = {c} /\ \A k \in tick.target : c.id = k[1]
    BY <1>1, TickHas DEF Places
  <2>2. copy \in Copy /\ tick.copies = {copy} /\ copy.id = j[1]
    BY <2>1
  <2> QED
    BY <2>1, <2>2, TickHas, CopyFacts
<1> DEFINE new == UnlinkWorktree(copy, j[2])
<1>n. new \in Copy /\ new.id = j[1] /\ new.links = [copy.links EXCEPT ![j[2]] = "none"] /\ SaveInstance(new)
  BY <1>0, <1>2, CopyFacts
<1>o. \A p \in Paths : new.links[p] = IF p = j[2] THEN "none" ELSE copy.links[p]
  BY <1>n, <1>2 DEF Links
<1> HIDE DEF new
<1>i. /\ inst' \in [Instances -> Instance] /\ inst'[j[1]].alive /\ inst'[j[1]].links = new.links
      /\ \A i \in Instances : i # j[1] => inst'[i] = inst[i]
  BY <1>n, TickHas, SaveFacts
<1>3. /\ tick' \in Tick /\ tick'.pc = "grace" /\ tick'.todo = tick.todo
      /\ tick'.ws = tick.ws /\ tick'.copies = {} /\ tick'.keys = tick.keys /\ tick'.quiet = tick.quiet
      /\ tick'.target = {} /\ tick'.valid = tick.valid \ {j} /\ tick'.seen = tick.seen
  BY <1>0, TickHas DEF Tick
<1>4. LinkTypes'
  <2>1. counts' \in [Keys -> Nat] /\ misses' \in [Keys -> 0..Grace]
    BY <1>0, <1>2, TickHas
  <2> QED
    BY <1>1, <1>3, <1>i, <2>1, TickHas DEF LinkTypes
<1>5. Places(tick')
  BY <1>1, <1>3, TickHas DEF Places
<1>6. Quiet(tick', inst', disk', archived')
  <2> SUFFICES ASSUME tick.quiet, NEW k \in Keys, Lost(k, inst', disk, archived), WsOf[k[1]] \notin tick.todo
               PROVE  Told(k, tick', inst')
    BY <1>1, <1>3 DEF Quiet
  <2>1. inst[copy.id].alive /\ copy = [id |-> copy.id, links |-> inst[copy.id].links]
    BY <1>1, TickHas DEF Quiet
  <2>2. inst[j[1]].alive /\ copy.links = inst[j[1]].links
    BY <2>1, <1>2
  <2>3. k # j
    BY <1>i, <1>o, <1>2 DEF Lost
  <2>4. inst'[k[1]].links[k[2]] = inst[k[1]].links[k[2]] /\ (inst'[k[1]].alive => inst[k[1]].alive)
    <3>1. CASE k[1] = j[1]
      <4>1. k[2] # j[2]
        BY <2>3, <3>1, <1>2, TickHas
      <4> QED
        BY <3>1, <4>1, <1>i, <1>o, <2>2, TickHas
    <3>2. CASE k[1] # j[1]
      BY <3>2, <1>i, TickHas
    <3> QED
      BY <3>1, <3>2
  <2>5. Lost(k, inst, disk, archived)
    BY <2>4 DEF Lost
  <2>6. Told(k, tick, inst)
    BY <2>5, <1>1, TickHas DEF Quiet
  <2> QED
    BY <2>3, <2>4, <2>6, <1>3 DEF Told
<1>7. ASSUME NEW k \in Keys
      PROVE  /\ Found(k, tick', counts'[k]) /\ Counted(counts'[k], misses'[k])
             /\ Paid(k, counts'[k], tick', inst', cli', spent')
  <2>1. CASE k = j
    <3>1. counts'[k] = 0 /\ misses'[k] = 0
      BY <2>1, <1>0, <1>2, TickHas
    <3>2. k \notin tick.keys
      BY <2>1, <1>2, TickHas DEF Found
    <3>3. Found(k, tick', counts'[k])
      BY <2>1, <3>2, <1>3 DEF Found
    <3>4. ~Broken(k, tick', inst')
      BY <3>2, <1>3 DEF Broken
    <3>5. spent'.commands = spent.commands /\ spent'.faults \in Nat /\ cli' = cli
      BY <1>1, TickHas DEF LinkTypes, Limit
    <3>6. counts'[k] \in 0..Grace - 1 /\ Counted(counts'[k], misses'[k])
      BY <3>1, <1>2 DEF Counted
    <3>7. LinkTypes /\ Paid(k, counts[k], tick, inst, cli, spent)
      BY TickHas
    <3> QED
      BY <3>3, <3>4, <3>5, <3>6, <3>7, PaidAnew
  <2>2. CASE k # j
    <3>1. counts'[k] = counts[k] /\ misses'[k] = misses[k]
      BY <2>2, <1>0, <1>2, TickHas
    <3>2. Found(k, tick', counts'[k]) /\ Counted(counts'[k], misses'[k])
      BY <3>1, <1>1, <1>3, TickHas DEF Found
    <3>3. k \notin tick.target
      BY <2>2, <1>2
    <3>4. Broken(k, tick', inst') => Broken(k, tick, inst)
      <4>1. CASE k[1] = j[1]
        <5>1. k[2] # j[2]
          BY <2>2, <4>1, <1>2, TickHas
        <5>2. inst'[k[1]].alive /\ inst'[k[1]].links[k[2]] = copy.links[k[2]]
          BY <4>1, <5>1, <1>i, <1>o, TickHas
        <5> QED
          BY <4>1, <5>2, <1>1, <1>2, <1>3 DEF Broken
      <4>2. CASE k[1] # j[1]
        <5>1. inst'[k[1]] = inst[k[1]]
          BY <4>2, <1>i, TickHas
        <5> QED
          BY <5>1, <1>1, <1>3 DEF Broken
      <4> QED
        BY <4>1, <4>2
    <3>5. LinkTypes /\ Paid(k, counts[k], tick, inst, cli, spent) /\ cli' = cli /\ spent' = spent
      BY <1>1, TickHas
    <3> QED
      BY <3>1, <3>2, <3>3, <3>4, <3>5, PaidKept
  <2> QED
    BY <2>1, <2>2
<1> QED
  BY <1>1, <1>4, <1>5, <1>6, <1>7, TickHas DEF WInv

(* The next workspace starts without leftovers.                             *)
LEMMA WorkspaceDoneKeeps ==
  ASSUME WInv, WorkspaceDone
  PROVE  WInv'
<1>1. /\ tick.pc = "grace" /\ tick.keys = {} /\ tick' = [tick EXCEPT !.pc = "workspace", !.ws = {}]
      /\ UNCHANGED <<disk, inst, archived, counts, cli, misses, spent>>
  BY DEF WorkspaceDone, NextWorkspace
<1>2. /\ tick' \in Tick /\ tick'.pc = "workspace" /\ tick'.todo = tick.todo
      /\ tick'.ws = {} /\ tick'.copies = tick.copies /\ tick'.keys = tick.keys /\ tick'.quiet = tick.quiet
      /\ tick'.target = tick.target /\ tick'.valid = tick.valid /\ tick'.seen = tick.seen
  BY <1>1, TickHas DEF Tick
<1>3. tick.copies = {} /\ tick.target = {}
  BY <1>1, TickHas DEF Places
<1>4. LinkTypes'
  BY <1>1, <1>2, TickHas DEF LinkTypes
<1>5. Places(tick')
  BY <1>1, <1>2, <1>3 DEF Places
<1>6. Quiet(tick', inst', disk', archived')
  <2> SUFFICES ASSUME tick.quiet, NEW k \in Keys, Lost(k, inst, disk, archived), WsOf[k[1]] \notin tick.todo
               PROVE  Told(k, tick', inst)
    BY <1>1, <1>2, <1>3 DEF Quiet
  <2>1. Told(k, tick, inst)
    BY <1>1, TickHas DEF Quiet
  <2> QED
    BY <2>1, <1>2 DEF Told
<1>7. ASSUME NEW k \in Keys
      PROVE  /\ Found(k, tick', counts'[k]) /\ Counted(counts'[k], misses'[k])
             /\ Paid(k, counts'[k], tick', inst', cli', spent')
  <2>1. Found(k, tick', counts'[k]) /\ Counted(counts'[k], misses'[k])
    BY <1>1, <1>2, <1>3, TickHas DEF Found
  <2>2. ~Broken(k, tick', inst') /\ k \notin tick.target
    BY <1>1, <1>2, <1>3 DEF Broken
  <2> QED
    BY <1>1, <2>1, <2>2, TickHas, PaidKept
<1> QED
  BY <1>1, <1>4, <1>5, <1>6, <1>7, TickHas DEF WInv

(* A finished tick keeps the counters of the links that it found missing.   *)
LEMMA TickEndKeeps ==
  ASSUME WInv, TickEnd
  PROVE  WInv'
<1>1. /\ tick.pc = "workspace" /\ tick' = Resting
      /\ counts' = [k \in Keys |-> IF k \in tick.valid THEN counts[k] ELSE 0]
      /\ misses' = [k \in Keys |-> IF k \in tick.seen THEN 0 ELSE misses[k]]
      /\ UNCHANGED <<disk, inst, archived, cli, spent>>
  BY DEF TickEnd, RetainValid
<1>2. tick.target = {}
  BY <1>1, TickHas DEF Places
<1>3. counts' \in [Keys -> Nat] /\ misses' \in [Keys -> 0..Grace]
  BY <1>1, TickHas
<1>4. LinkTypes'
  BY <1>1, <1>3, RestingFacts, TickHas DEF LinkTypes
<1>5. Places(tick') /\ Quiet(tick', inst', disk', archived')
  BY <1>1, RestingFacts
<1>7. ASSUME NEW k \in Keys
      PROVE  /\ Found(k, tick', counts'[k]) /\ Counted(counts'[k], misses'[k])
             /\ Paid(k, counts'[k], tick', inst', cli', spent')
  <2>0. /\ counts'[k] = IF k \in tick.valid THEN counts[k] ELSE 0
        /\ misses'[k] = IF k \in tick.seen THEN 0 ELSE misses[k]
    BY <1>1
  <2>1. Found(k, tick', counts'[k]) /\ ~Broken(k, tick', inst') /\ k \notin tick.target
    BY <1>1, <1>2, RestingFacts
  <2>2. CASE k \in tick.valid
    <3>1. k \notin tick.seen /\ counts'[k] = counts[k] /\ misses'[k] = misses[k]
      BY <2>0, <2>2, TickHas DEF Found
    <3>2. LinkTypes /\ Paid(k, counts[k], tick, inst, cli, spent) /\ cli' = cli /\ spent' = spent
      BY <1>1, TickHas
    <3>3. Counted(counts'[k], misses'[k])
      BY <3>1, TickHas
    <3> QED
      BY <2>1, <3>1, <3>2, <3>3, PaidKept
  <2>3. CASE k \notin tick.valid
    <3>1. counts'[k] \in 0..Grace - 1 /\ counts'[k] = 0 /\ misses'[k] \in Nat
      BY <2>0, <2>3, <1>3, TickHas
    <3>2. /\ LinkTypes /\ Paid(k, counts[k], tick, inst, cli, spent)
          /\ cli' = cli /\ spent'.commands = spent.commands /\ spent'.faults \in Nat
      BY <1>1, TickHas DEF LinkTypes, Limit
    <3>3. Counted(counts'[k], misses'[k])
      BY <3>1 DEF Counted
    <3> QED
      BY <2>1, <3>1, <3>2, <3>3, PaidAnew
  <2> QED
    BY <2>2, <2>3
<1> QED
  BY <1>1, <1>4, <1>5, <1>7, TickHas DEF WInv

(* A restarted daemon has no counters.                                      *)
LEMMA RestartKeeps ==
  ASSUME WInv, Restart
  PROVE  WInv'
<1>1. /\ Spend("faults") /\ tick' = Resting /\ counts' = [k \in Keys |-> 0]
      /\ UNCHANGED <<disk, inst, archived, cli, misses>>
  BY DEF Restart
<1>2. /\ spent' \in [DOMAIN Limit -> Nat] /\ \A b \in DOMAIN Limit : spent'[b] <= Limit[b]
      /\ spent'.faults \in Nat /\ spent'.commands = spent.commands
  <2>1. "faults" \in DOMAIN Limit /\ LinkTypes
    BY TickHas DEF Limit
  <2> QED
    BY <1>1, <2>1, SpendFacts
<1>3. LinkTypes'
  BY <1>1, <1>2, RestingFacts, TickHas DEF LinkTypes
<1>4. Places(tick') /\ Quiet(tick', inst', disk', archived')
  BY <1>1, RestingFacts
<1>5. ASSUME NEW k \in Keys
      PROVE  /\ Found(k, tick', counts'[k]) /\ Counted(counts'[k], misses'[k])
             /\ Paid(k, counts'[k], tick', inst', cli', spent')
  <2>1. Found(k, tick', counts'[k]) /\ ~Broken(k, tick', inst')
    BY <1>1, RestingFacts
  <2>2. counts'[k] = 0 /\ counts'[k] \in 0..Grace - 1 /\ misses'[k] \in 0..Grace
    BY <1>1, TickHas
  <2>3. Counted(counts'[k], misses'[k])
    BY <2>2 DEF Counted
  <2>4. LinkTypes /\ Paid(k, counts[k], tick, inst, cli, spent) /\ cli' = cli
    BY <1>1, TickHas
  <2> QED
    BY <2>1, <2>2, <2>3, <2>4, <1>2, PaidAnew
<1> QED
  BY <1>1, <1>3, <1>4, <1>5, TickHas DEF WInv

-----------------------------------------------------------------------------
(* The invariant holds at first,                                            *)
LEMMA WInvInit == Init => WInv
<1> SUFFICES ASSUME Init PROVE WInv
  OBVIOUS
<1>1. LinkTypes
  <2>1. inst \in [Instances -> Instance]
    <3>1. [Paths -> {"none", "Linked"}] \subseteq Links
      BY DEF Links
    <3>2. [alive : {TRUE}, links : [Paths -> {"none", "Linked"}]] \subseteq Instance
      BY <3>1 DEF Instance
    <3> QED
      BY <3>2 DEF Init
  <2>2. counts \in [Keys -> Nat] /\ misses \in [Keys -> 0..Grace]
    BY WorktreesConstants DEF Init
  <2>3. cli \in Cli
    BY DEF Init, Idle, Cli
  <2>4. spent \in [DOMAIN Limit -> Nat] /\ \A b \in DOMAIN Limit : spent[b] <= Limit[b]
    BY WorktreesConstants DEF Init, Limit
  <2> QED
    BY <2>1, <2>2, <2>3, <2>4, RestingFacts DEF Init, LinkTypes
<1>2. Command(cli)
  BY DEF Init, Command, Idle, Unique
<1>3. ASSUME NEW k \in Keys
      PROVE Found(k, tick, counts[k]) /\ Counted(counts[k], misses[k]) /\ Paid(k, counts[k], tick, inst, cli, spent)
  <2>1. counts[k] = 0 /\ misses[k] = 0 /\ Grace \in Nat \ {0} /\ tick = Resting /\ cli.copies = {}
    BY WorktreesConstants DEF Init, Idle
  <2>2. spent.commands = 0 /\ spent.faults = 0
    BY DEF Init, Limit
  <2>3. ~Pending(k[1], cli) /\ ~Broken(k, tick, inst) /\ k \notin tick.target /\ Found(k, tick, counts[k])
    BY <2>1, RestingFacts DEF Pending
  <2>4. Paid(k, counts[k], tick, inst, cli, spent)
    BY <2>1, <2>2, <2>3 DEF Paid, One
  <2> QED
    BY <2>1, <2>3, <2>4 DEF Counted
<1> QED
  BY <1>1, <1>2, <1>3, RestingFacts DEF Init, WInv

(* every step keeps it,                                                     *)
LEMMA WInvStep == WInv /\ [Next]_vars => WInv'
<1> SUFFICES ASSUME WInv, [Next]_vars PROVE WInv'
  OBVIOUS
<1>1. CASE DaemonStep
  BY <1>1, TickStartKeeps, ReconcileListKeeps, ReconcileInstanceKeeps, GraceListKeeps, GraceProbeKeeps,
     UnlinkReadKeeps, UnlinkSaveKeeps, WorkspaceDoneKeeps, TickEndKeeps DEF DaemonStep
<1>2. CASE CommandStep
  BY <1>2, CommandSaveKeeps, ReconcileCommandInstanceKeeps DEF CommandStep
<1>3. CASE TickFails \/ Restart
  BY <1>3, TickFailsKeeps, RestartKeeps
<1>4. CASE \E i \in Instances : CommandRead(i) \/ Detach(i)
  BY <1>4, CommandReadKeeps, DetachKeeps
<1>5. CASE \E w \in Workspaces, op \in {"mark", "prune"} : ReconcileCommand(w, op)
  BY <1>5, ReconcileCommandKeeps
<1>6. CASE \E w \in Workspaces : Archive(w)
  BY <1>6, ArchiveKeeps
<1>7. CASE \E p \in Paths : DiskChange(p)
  BY <1>7, DiskChangeKeeps
<1>8. CASE UNCHANGED vars
  BY <1>8 DEF vars, WInv, LinkTypes
<1> QED
  BY <1>1, <1>2, <1>3, <1>4, <1>5, <1>6, <1>7, <1>8 DEF Next

(* The bound on a counter is what its unlinks may have cost.                *)
LEMMA WInvImplies == WInv => WorktreesAreSound
<1> SUFFICES ASSUME WInv PROVE WorktreesAreSound
  OBVIOUS
<1>1. ASSUME NEW k \in Keys PROVE counts[k] \in 0..Grace + MaxFaults + MaxCommands
  <2>1. spent.faults \in Nat /\ spent.commands \in Nat /\ spent.faults <= MaxFaults /\ spent.commands <= MaxCommands
        /\ MaxFaults \in Nat /\ MaxCommands \in Nat
    BY TickHas, WorktreesConstants DEF LinkTypes, Limit
  <2> DEFINE n == counts[k]
             g == Grace
             f == spent.faults
             c == spent.commands
             t == One(k \in tick.target)
             x == One(Pending(k[1], cli))
             y == One(Broken(k, tick, inst))
  <2>2. n \in Nat /\ g \in Nat /\ t \in Nat /\ t <= 1 /\ x \in Nat /\ y \in Nat
    BY TickHas DEF One
  <2>3. n + x + y <= g - 1 + t + f + c
    BY TickHas DEF Paid
  <2>4. counts[k] = n /\ Grace = g /\ f \in Nat /\ c \in Nat /\ f <= MaxFaults /\ c <= MaxCommands
    BY <2>1
  <2> HIDE DEF n, g, f, c, t, x, y
  <2>5. n \in 0..g + MaxFaults + MaxCommands
    BY <2>1, <2>2, <2>3, <2>4
  <2> QED
    BY <2>4, <2>5
<1>2. TypeOK
  <2>1. counts \in [Keys -> 0..Grace + MaxFaults + MaxCommands]
    BY <1>1, TickHas
  <2>2. Cardinality(tick.target) = (IF tick.pc \in {"unlink", "save"} THEN 1 ELSE 0)
    BY TickHas, FS_EmptySet, FS_Singleton DEF Places
  <2>3. inst \in [Instances -> [alive : BOOLEAN, links : Links]]
    BY TickHas DEF Instance
  <2>4. /\ tick.pc \in {"idle", "workspace", "reconcile", "grace", "unlink", "save"}
        /\ tick.copies \subseteq Copy /\ tick.keys \cup tick.target \cup tick.valid \subseteq Keys
    BY TickHas, TickFacts
  <2>5. cli.pc \in {"idle", "save"} /\ cli.copies \subseteq Copy
    BY TickHas DEF LinkTypes, Cli
  <2> QED
    BY <2>1, <2>2, <2>3, <2>4, <2>5, TickHas DEF TypeOK, LinkTypes
<1>3. GraceRespected
  <2> SUFFICES ASSUME NEW k \in tick.target PROVE misses[k] >= Grace
    BY DEF GraceRespected
  <2>1. k \in Keys
    BY TickHas, TickFacts
  <2> QED
    BY <2>1, TickHas DEF Found, Counted
<1>4. QuietTickTells
  <2> SUFFICES ASSUME tick.pc = "workspace", tick.todo = {}, tick.quiet, NEW k \in Keys, Gone(k)
               PROVE  inst[k[1]].links[k[2]] = "MissingPath" /\ counts[k] > 0 /\ k \in tick.valid
    BY DEF QuietTickTells
  <2>1. Lost(k, inst, disk, archived)
    BY DEF Gone, Lost, PathExists
  <2>2. Told(k, tick, inst) /\ tick.keys = {}
    BY <2>1, TickHas DEF Quiet, Places
  <2> QED
    BY <2>2, TickHas DEF Told, Found
<1> QED
  BY <1>2, <1>3, <1>4 DEF WorktreesAreSound

(* A link gets its whole grace whatever commands, restarts and failed ticks *)
(* come between, and an undisturbed tick leaves the links as the disk is    *)
(* (apply_grace_prune, reconcile_worktrees).                                *)
THEOREM WorktreesKeepSound == Spec => []WorktreesAreSound
<1>1. Spec => []WInv
  BY WInvInit, WInvStep, PTL DEF Spec
<1> QED
  BY <1>1, WInvImplies, PTL

-----------------------------------------------------------------------------
(***************************************************************************)
(* Registry: the invariant.                                                *)
(***************************************************************************)

(* What a command holds between what it read and what it saves. *)
Attaching == [pc: {"origin", "instance"}, ws: RegWorkspaces, url: RegUrls, fresh: BOOLEAN, suffix: Nat,
              base: Handle, copy: Origin, asked: BOOLEAN, merged: BOOLEAN]
Editing == [pc: {"edit"}, url: RegUrls, fresh: BOOLEAN, copy: Origin, asked: BOOLEAN]
Commanding == {RegResting} \cup Attaching \cup Editing

(* A fresh copy has the origin's prefix, unless the user asked for another; an attach that
   is at its instance has saved its origin. *)
Copied(r, origs) ==
  /\ r \in Attaching \cup Editing =>
       /\ r.copy.id # None
       /\ r.fresh /\ ~r.asked /\ r.pc # "instance" /\ origs[r.url].id # None => r.copy.prefix = origs[r.url].prefix
  /\ r \in Attaching /\ r.pc = "instance" => origs[r.url].id = r.copy.id

RegPlaces == RegWorkspaces \X RegUrls
PrefixesDiffer(origs) == \A u, v \in RegUrls : u # v /\ origs[u].id # None /\ origs[v].id # None => origs[u].prefix # origs[v].prefix
Referring(is, origs) == \A b \in RegPlaces : is[b] # None => is[b] = origs[b[2]].id

RegInv ==
  /\ origins \in [RegUrls -> Origin] /\ PrefixesDiffer(origins)
  /\ instances \in [RegPlaces -> Ids] /\ Referring(instances, origins)
  /\ hidden \subseteq RegWorkspaces
  /\ filing \in [RegPlaces -> Ids \cup {Dangling}]
  /\ regProc \in [RegProcs -> Commanding]
  /\ \A p \in RegProcs : Copied(regProc[p], origins)

\* An origin found or made has its parts.
LEMMA FoundOrNewFacts ==
  ASSUME RegInv, NEW p \in RegProcs, NEW u \in RegUrls
  PROVE  /\ FoundOrNew(p, u) \in Origin /\ FoundOrNew(p, u).id # None
         /\ Known(u) => FoundOrNew(p, u).prefix = origins[u].prefix
<1>1. CASE Known(u)
  BY <1>1 DEF FoundOrNew, Known, RegInv
<1>2. CASE ~Known(u)
  <2>1. FoundOrNew(p, u) = NewOrigin(<<p, u>>, u)
    BY <1>2 DEF FoundOrNew
  <2>2. <<p, u>> # None /\ <<p, u>> \in Ids
    BY DEF Ids, None
  <2>3. <<DerivedWord[u], 0>> \in Handle /\ <<NameWord[u], 0>> \in Handle
    BY RegistryAssumption DEF Handle
  <2> QED
    BY <1>2, <2>1, <2>2, <2>3 DEF NewOrigin, Origin
<1> QED
  BY <1>1, <1>2

\* The handles that commands name are handles.
LEMMA HandlesFacts == Handles \subseteq Handle /\ \A h \in Handle : h[1] \in Words /\ h[2] \in Nat
BY RegistryAssumption DEF Handles, Handle

\* An origin whose prefix, name or aliases are replaced.
LEMMA PrefixedFacts ==
  ASSUME NEW o \in Origin, NEW h \in Handle, NEW n, n = [o EXCEPT !.prefix = h]
  PROVE  n \in Origin /\ n.id = o.id /\ n.prefix = h
BY DEF Origin

LEMMA NamedFacts ==
  ASSUME NEW o \in Origin, NEW h \in Handle, NEW n, n = [o EXCEPT !.name = h]
  PROVE  n \in Origin /\ n.id = o.id /\ n.prefix = o.prefix
BY DEF Origin

LEMMA AliasedFacts ==
  ASSUME NEW o \in Origin, NEW hs \in SUBSET Handles, NEW n, n = [o EXCEPT !.aliases = hs]
  PROVE  n \in Origin /\ n.id = o.id /\ n.prefix = o.prefix
BY DEF Origin

\* What a handle, a directory or an id leads to is an instance that is there.
LEMMA ResolveFacts ==
  ASSUME RegInv, NEW targets \in Resolve, NEW b \in targets
  PROVE  b \in RegPlaces /\ b[1] \in RegWorkspaces /\ b[2] \in RegUrls /\ instances[b] # None /\ Known(b[2])
<1>0. \A c \in RegPlaces : c = <<c[1], c[2]>> /\ c[1] \in RegWorkspaces /\ c[2] \in RegUrls
  BY DEF RegPlaces
<1>1. \A us : \A c \in ResolveMatching(us) : c \in RegPlaces /\ instances[c] # None
  BY <1>0 DEF ResolveMatching, Bound, RegPlaces
<1>2. \A h : \A c \in ResolveByHandle(h) : c \in RegPlaces /\ instances[c] # None
  BY <1>1 DEF ResolveByHandle
<1>3. \A u \in RegUrls : \A c \in ResolveRepoOrCwd(u) : c \in RegPlaces /\ instances[c] # None
  <2> SUFFICES ASSUME NEW u \in RegUrls, NEW c \in ResolveRepoOrCwd(u) PROVE c \in RegPlaces /\ instances[c] # None
    OBVIOUS
  <2>1. c \in Memberships(u)
    BY DEF ResolveRepoOrCwd, PickRepo
  <2>2. PICK w \in RegWorkspaces : c = <<w, u>> /\ instances[<<w, u>>] # None
    BY <2>1 DEF Memberships, Bound
  <2> QED
    BY <2>2 DEF RegPlaces
<1>4. b \in RegPlaces /\ instances[b] # None
  <2>1. CASE targets \in {ResolveByHandle(h) : h \in Handles}
    BY <1>2, <2>1
  <2>2. CASE targets \in {ResolveRepoOrCwd(u) : u \in RegUrls}
    BY <1>3, <2>2
  <2>3. CASE targets \in {{c} : c \in {c \in RegWorkspaces \X RegUrls : Bound(c[1], c[2])}}
    BY <1>0, <2>3 DEF Bound, RegPlaces
  <2> QED
    BY <2>1, <2>2, <2>3 DEF Resolve
<1>5. instances[b] = origins[b[2]].id
  BY <1>4 DEF RegInv, Referring
<1> QED
  BY <1>0, <1>4, <1>5 DEF Known

\* A step that writes no origin and moves at most one command.
LEMMA RegGoesKeeps ==
  ASSUME RegInv, NEW p \in RegProcs, NEW r \in Commanding, Copied(r, origins), RegGoes(p, r), origins' = origins,
         instances' \in [RegPlaces -> Ids], Referring(instances', origins), hidden' \subseteq RegWorkspaces,
         filing' \in [RegPlaces -> Ids \cup {Dangling}]
  PROVE  RegInv'
<1>1. regProc' \in [RegProcs -> Commanding]
  BY DEF RegGoes, RegInv
<1>2. ASSUME NEW q \in RegProcs PROVE Copied(regProc'[q], origins)
  <2>1. regProc'[q] = IF q = p THEN r ELSE regProc[q]
    BY DEF RegGoes, RegInv
  <2>2. Copied(regProc[q], origins)
    BY DEF RegInv
  <2> QED
    BY <2>1, <2>2, Zenon
<1>3. \A q \in RegProcs : Copied(regProc'[q], origins')
  BY <1>2, Zenon
<1>4. (\A q \in RegProcs : Copied(regProc[q], origins))'
  BY <1>3 DEF Copied
<1>5. (origins \in [RegUrls -> Origin] /\ PrefixesDiffer(origins))'
  BY DEF RegInv, PrefixesDiffer
<1>6. (Referring(instances, origins))'
  BY DEF Referring
<1> QED
  BY <1>1, <1>4, <1>5, <1>6 DEF RegInv

\* A step that moves no command.
LEMMA RegRestKeeps ==
  ASSUME RegInv, regProc' = regProc, origins' = origins,
         instances' \in [RegPlaces -> Ids], Referring(instances', origins), hidden' \subseteq RegWorkspaces,
         filing' \in [RegPlaces -> Ids \cup {Dangling}]
  PROVE  RegInv'
<1>1. (regProc \in [RegProcs -> Commanding] /\ \A q \in RegProcs : Copied(regProc[q], origins))'
  BY DEF RegInv, Copied
<1>2. (origins \in [RegUrls -> Origin] /\ PrefixesDiffer(origins))'
  BY DEF RegInv, PrefixesDiffer
<1>3. (Referring(instances, origins))'
  BY DEF Referring
<1> QED
  BY <1>1, <1>2, <1>3 DEF RegInv

\* A command that rests holds nothing.
LEMMA RegRestingFacts == RegResting \in Commanding /\ \A origs : Copied(RegResting, origs)
BY DEF RegResting, Commanding, Copied, Attaching, Editing

\* A copy that is saved takes the place of its origin's row; the other copies of
\* this row are outdated.
LEMMA SaveOriginKeeps ==
  ASSUME RegInv, NEW p \in RegProcs, NEW next \in Commanding, regProc[p] \in Attaching \cup Editing,
         SaveOrigin(p, next), Copied(next, origins'),
         instances' = instances, hidden' = hidden, filing' = filing
  PROVE  RegInv'
<1> DEFINE u == regProc[p].url
           o == regProc[p].copy
<1>1. u \in RegUrls /\ o \in Origin
  BY DEF Attaching, Editing
<1>2. o.id # None
  BY DEF RegInv, Copied
<1>3. /\ ~PrefixTaken(u, o) /\ ~UrlTaken(u, o) /\ origins' = [origins EXCEPT ![u] = o]
      /\ \A q \in RegProcs : regProc'[q] =
           IF q = p THEN next
           ELSE IF regProc[q].pc \in {"origin", "edit"} /\ regProc[q].url = u /\ origins[u] # o
             THEN [regProc[q] EXCEPT !.fresh = FALSE]
           ELSE regProc[q]
      /\ regProc' = [q \in RegProcs |-> regProc'[q]]
  BY DEF SaveOrigin
<1> HIDE DEF u, o
<1>4. /\ origins' \in [RegUrls -> Origin] /\ origins'[u] = o
      /\ \A v \in RegUrls : v # u => origins'[v] = origins[v]
  BY <1>1, <1>3 DEF RegInv
<1>5. PrefixesDiffer(origins')
  <2>1. \A v \in RegUrls : v # u /\ origins[v].id # None => origins[v].prefix # o.prefix
    BY <1>3 DEF PrefixTaken, Known
  <2> QED
    BY <1>4, <2>1 DEF PrefixesDiffer, RegInv
<1>6. origins[u].id # None => origins[u].id = o.id
  BY <1>3 DEF UrlTaken, Known
<1>7. Referring(instances, origins')
  <2> SUFFICES ASSUME NEW b \in RegPlaces, instances[b] # None PROVE instances[b] = origins'[b[2]].id
    BY DEF Referring
  <2>1. b[2] \in RegUrls /\ instances[b] = origins[b[2]].id
    BY DEF RegInv, Referring, RegPlaces
  <2> QED
    BY <1>4, <1>6, <2>1
<1>8. ASSUME NEW q \in RegProcs PROVE regProc'[q] \in Commanding /\ Copied(regProc'[q], origins')
  <2> DEFINE r == regProc[q]
  <2>1. r \in Commanding /\ Copied(r, origins)
    BY DEF RegInv
  <2>2. CASE q = p
    <3>1. regProc'[q] = next
      BY <1>3, <2>2
    <3> QED
      BY <3>1, Zenon
  <2>3. CASE q # p /\ r.pc \in {"origin", "edit"} /\ r.url = u /\ origins[u] # o
    <3>1. regProc'[q] = [r EXCEPT !.fresh = FALSE]
      BY <1>3, <2>3
    <3>2. r \in Attaching \cup Editing
      BY <2>1, <2>3 DEF Commanding, RegResting
    <3>3. CASE r \in Attaching
      <4>1. regProc'[q] \in Attaching /\ regProc'[q].copy = r.copy /\ regProc'[q].fresh = FALSE /\ regProc'[q].pc = r.pc
        BY <3>1, <3>3 DEF Attaching
      <4> QED
        BY <2>1, <2>3, <3>2, <4>1 DEF Commanding, Copied
    <3>4. CASE r \in Editing
      <4>1. regProc'[q] \in Editing /\ regProc'[q].copy = r.copy /\ regProc'[q].fresh = FALSE /\ regProc'[q].pc = r.pc
        BY <3>1, <3>4 DEF Editing
      <4> QED
        BY <2>1, <2>3, <3>2, <4>1 DEF Commanding, Copied
    <3> QED
      BY <3>2, <3>3, <3>4
  <2>4. CASE q # p /\ ~(r.pc \in {"origin", "edit"} /\ r.url = u /\ origins[u] # o)
    <3>1. regProc'[q] = r
      BY <1>3, <2>4
    <3>2. ASSUME r \in Attaching \cup Editing
          PROVE  /\ r.url \in RegUrls
                 /\ r.pc # "instance" => origins'[r.url] = origins[r.url]
                 /\ r.copy.id # None
      <4>1. r.url \in RegUrls /\ r.pc \in {"origin", "edit", "instance"}
        BY <3>2 DEF Attaching, Editing
      <4> QED
        BY <1>4, <2>1, <2>4, <3>2, <4>1 DEF Copied
    <3>3. ASSUME r \in Attaching, r.pc = "instance" PROVE origins'[r.url].id = r.copy.id
      <4>1. origins[r.url].id = r.copy.id /\ r.copy.id # None /\ r.url \in RegUrls
        BY <2>1, <3>2, <3>3 DEF Copied
      <4> QED
        BY <1>4, <1>6, <4>1
    <3>4. Copied(r, origins')
      BY <2>1, <3>2, <3>3 DEF Copied
    <3> QED
      BY <2>1, <3>1, <3>4, Zenon
  <2> QED
    BY <2>2, <2>3, <2>4
<1>9. (regProc \in [RegProcs -> Commanding])'
  BY <1>3, <1>8
<1>10. (\A q \in RegProcs : Copied(regProc[q], origins))'
  BY <1>8 DEF Copied
<1>11. (origins \in [RegUrls -> Origin] /\ PrefixesDiffer(origins) /\ Referring(instances, origins))'
  BY <1>4, <1>5, <1>7 DEF PrefixesDiffer, Referring
<1>12. (instances \in [RegPlaces -> Ids] /\ hidden \subseteq RegWorkspaces /\ filing \in [RegPlaces -> Ids \cup {Dangling}])'
  BY DEF RegInv
<1> QED
  BY <1>9, <1>10, <1>11, <1>12 DEF RegInv

\* What no save of an origin touches.
LEMMA RegShapes ==
  ASSUME RegInv
  PROVE  /\ instances \in [RegPlaces -> Ids] /\ Referring(instances, origins) /\ hidden \subseteq RegWorkspaces
         /\ filing \in [RegPlaces -> Ids \cup {Dangling}] /\ origins \in [RegUrls -> Origin]
         /\ \A q \in RegProcs : regProc[q] \in Commanding /\ Copied(regProc[q], origins)
BY DEF RegInv

\* The first states.
LEMMA RegInvInit == RegInit => RegInv
<1> SUFFICES ASSUME RegInit PROVE RegInv
  OBVIOUS
<1>1. \A u \in RegUrls : NewOrigin(None, u) \in Origin
  <2> SUFFICES ASSUME NEW u \in RegUrls PROVE NewOrigin(None, u) \in Origin
    OBVIOUS
  <2>1. <<DerivedWord[u], 0>> \in Handle /\ <<NameWord[u], 0>> \in Handle /\ None \in Ids
    BY RegistryAssumption DEF Handle, Ids
  <2> QED
    BY <2>1 DEF NewOrigin, Origin
<1>2. origins \in [RegUrls -> Origin] /\ \A u \in RegUrls : origins[u].id = None
  BY <1>1 DEF RegInit, NewOrigin
<1>3. instances \in [RegPlaces -> Ids] /\ \A b \in RegPlaces : instances[b] = None
  BY DEF RegInit, RegPlaces, Ids
<1>4. filing \in [RegPlaces -> Ids \cup {Dangling}]
  BY DEF RegInit, RegPlaces
<1>5. PrefixesDiffer(origins) /\ Referring(instances, origins) /\ hidden \subseteq RegWorkspaces
  BY <1>2, <1>3 DEF PrefixesDiffer, Referring, RegInit
<1>6. regProc \in [RegProcs -> Commanding] /\ \A p \in RegProcs : Copied(regProc[p], origins)
  BY RegRestingFacts DEF RegInit
<1> QED
  BY <1>2, <1>3, <1>4, <1>5, <1>6 DEF RegInv

\* A copy with the prefix that the user asked for, if any.
LEMMA WishFacts ==
  ASSUME NEW o \in Origin, NEW wish, wish = None \/ wish \in Handle,
         NEW n, n = IF wish = None THEN o ELSE [o EXCEPT !.prefix = wish]
  PROVE  n \in Origin /\ n.id = o.id /\ (wish = None => n.prefix = o.prefix)
<1>1. CASE wish = None
  BY <1>1
<1>2. CASE wish # None
  <2>1. n = [o EXCEPT !.prefix = wish] /\ wish \in Handle
    BY <1>2
  <2> QED
    BY <1>2, <2>1, PrefixedFacts
<1> QED
  BY <1>1, <1>2

\* An attach holds a copy of the origin it found, or a new one.
LEMMA AttachKeeps ==
  ASSUME RegInv, NEW p \in RegProcs, NEW w \in RegWorkspaces, NEW u \in RegUrls, NEW wish \in Handles \cup {None},
         Attach(p, w, u, wish)
  PROVE  RegInv'
<1> DEFINE o == FoundOrNew(p, u)
           copy == IF wish = None THEN o ELSE [o EXCEPT !.prefix = wish]
           r == [pc |-> "origin", ws |-> w, url |-> u, fresh |-> TRUE, suffix |-> 0, base |-> copy.prefix,
                 copy |-> copy, asked |-> wish # None, merged |-> Bound(w, u)]
<1>1. /\ o \in Origin /\ o.id # None /\ (Known(u) => o.prefix = origins[u].prefix)
      /\ wish # None => wish \in Handle
  BY FoundOrNewFacts, HandlesFacts
<1>2. RegGoes(p, r) /\ origins' = origins /\ instances' = instances /\ hidden' = hidden /\ filing' = filing
  BY DEF Attach
<1> HIDE DEF o
<1>3. /\ copy \in Origin /\ copy.id # None
      /\ wish = None => (Known(u) => copy.prefix = origins[u].prefix)
  <2>1. wish = None \/ wish \in Handle
    BY <1>1, Zenon
  <2>2. copy = IF wish = None THEN o ELSE [o EXCEPT !.prefix = wish]
    OBVIOUS
  <2>3. o \in Origin /\ o.id # None /\ (Known(u) => o.prefix = origins[u].prefix)
    BY <1>1, Zenon
  <2> HIDE DEF copy
  <2>4. copy \in Origin /\ copy.id = o.id /\ (wish = None => copy.prefix = o.prefix)
    BY <2>1, <2>2, <2>3, WishFacts
  <2> QED
    BY <2>3, <2>4 DEF Known
<1>4. copy.prefix \in Handle
  BY <1>3 DEF Origin
<1> HIDE DEF copy
<1>5. r \in Attaching
  BY <1>3, <1>4 DEF Attaching, Bound
<1>6. r.copy = copy /\ r.url = u /\ r.asked = (wish # None) /\ r.pc = "origin"
  OBVIOUS
<1> HIDE DEF r
<1>7. Copied(r, origins) /\ r \in Commanding
  BY <1>3, <1>5, <1>6 DEF Copied, Known, Commanding
<1> QED
  BY <1>2, <1>7, RegGoesKeeps, RegShapes

\* A command that ends.
LEMMA RegEnds ==
  ASSUME RegInv, NEW p \in RegProcs, RegGoes(p, RegResting), origins' = origins,
         instances' \in [RegPlaces -> Ids], Referring(instances', origins), hidden' = hidden, filing' = filing
  PROVE  RegInv'
BY RegRestingFacts, RegGoesKeeps, RegShapes

\* An attach that is at its origin holds a copy.
LEMMA AttachingFacts ==
  ASSUME RegInv, NEW p \in RegProcs, RegAt(p, "origin") \/ RegAt(p, "instance")
  PROVE  /\ regProc[p] \in Attaching /\ Copied(regProc[p], origins)
         /\ regProc[p].ws \in RegWorkspaces /\ regProc[p].url \in RegUrls /\ regProc[p].copy \in Origin
         /\ regProc[p].copy.id # None /\ regProc[p].copy.id \in Ids
         /\ regProc[p].suffix \in Nat /\ regProc[p].base \in Handle
<1>1. regProc[p] \in Commanding /\ Copied(regProc[p], origins) /\ regProc[p].pc \in {"origin", "instance"}
  BY RegShapes DEF RegAt
<1>2. regProc[p] \in Attaching
  BY <1>1 DEF Commanding, RegResting, Editing
<1>3. regProc[p].copy \in Origin
  BY <1>2 DEF Attaching
<1>4. regProc[p].copy.id \in Ids
  BY <1>3 DEF Origin
<1> QED
  BY <1>1, <1>2, <1>3, <1>4 DEF Attaching, Copied

\* The origin is saved, and with it what the instance will refer to.
LEMMA AttachSavesOriginKeeps ==
  ASSUME RegInv, NEW p \in RegProcs, AttachSavesOrigin(p) PROVE RegInv'
<1> DEFINE r == regProc[p]
           next == [r EXCEPT !.pc = "instance"]
<1>1. /\ RegAt(p, "origin") /\ SaveOrigin(p, next)
      /\ instances' = instances /\ hidden' = hidden /\ filing' = filing
  BY DEF AttachSavesOrigin
<1>2. r \in Attaching /\ r.copy.id # None /\ r.url \in RegUrls
  BY <1>1, AttachingFacts
<1>3. next \in Attaching /\ next.copy = r.copy /\ next.url = r.url /\ next.pc = "instance"
  BY <1>2 DEF Attaching
<1>4. origins'[r.url] = r.copy
  BY <1>1, <1>2, RegShapes DEF SaveOrigin
<1> HIDE DEF next
<1>5. next \in Commanding /\ Copied(next, origins')
  BY <1>2, <1>3, <1>4 DEF Copied, Commanding
<1>6. regProc[p] \in Attaching \cup Editing
  BY <1>2
<1> QED
  BY <1>1, <1>5, <1>6, SaveOriginKeeps

\* The next suffix is tried for a copy whose prefix is not the origin's own.
LEMMA AttachMeetsPrefixKeeps ==
  ASSUME RegInv, NEW p \in RegProcs, AttachMeetsPrefix(p) PROVE RegInv'
<1> DEFINE r == regProc[p]
           next == NextSuffix(r)
<1>1. /\ RegAt(p, "origin") /\ PrefixTaken(r.url, r.copy)
      /\ RegGoes(p, RegResting) \/ (~r.asked /\ RegGoes(p, next))
      /\ origins' = origins /\ instances' = instances /\ hidden' = hidden /\ filing' = filing
  <2>1. RegGoes(p, IF r.asked THEN RegResting ELSE next)
    BY Zenon DEF AttachMeetsPrefix
  <2>2. RegGoes(p, RegResting) \/ (~r.asked /\ RegGoes(p, next))
    <3> DEFINE asked == r.asked
    <3>1. RegGoes(p, IF asked THEN RegResting ELSE next)
      BY <2>1, Zenon
    <3> HIDE DEF next, asked
    <3>2. CASE asked
      <4>1. RegGoes(p, RegResting)
        BY <3>1, <3>2 DEF RegGoes
      <4> QED
        BY <4>1, Zenon
    <3>3. CASE ~asked
      <4>1. RegGoes(p, next)
        BY <3>1, <3>3 DEF RegGoes
      <4> QED
        BY <3>3, <4>1, Zenon DEF asked
    <3> QED
      BY <3>2, <3>3
  <2>3. RegAt(p, "origin") /\ PrefixTaken(r.url, r.copy)
    BY Zenon DEF AttachMeetsPrefix
  <2>4. origins' = origins /\ instances' = instances /\ hidden' = hidden /\ filing' = filing
    BY DEF AttachMeetsPrefix
  <2> HIDE DEF next
  <2> QED
    BY <2>2, <2>3, <2>4, Zenon
<1>2. CASE RegGoes(p, RegResting)
  BY <1>1, <1>2, RegEnds, RegShapes
<1>3. CASE ~r.asked /\ RegGoes(p, next)
  <2> DEFINE q == <<r.base[1], 10 * r.base[2] + r.suffix + 1>>
             copy == [r.copy EXCEPT !.prefix = q]
  <2>1. /\ r \in Attaching /\ r.copy \in Origin /\ r.copy.id # None /\ r.suffix \in Nat /\ r.base \in Handle
        /\ Copied(r, origins) /\ r.url \in RegUrls
    BY <1>1, AttachingFacts
  <2>2. q \in Handle
    <3>1. r.base[1] \in Words /\ r.base[2] \in Nat
      BY <2>1, HandlesFacts
    <3>2. 10 * r.base[2] + r.suffix + 1 \in Nat
      BY <2>1, <3>1
    <3> QED
      BY <3>1, <3>2 DEF Handle
  <2>3. next = [r EXCEPT !.suffix = r.suffix + 1, !.copy = copy]
    BY DEF NextSuffix
  <2> HIDE DEF q, next
  <2>4. copy \in Origin /\ copy.id = r.copy.id
    <3> DEFINE old == r.copy
    <3>1. old \in Origin /\ copy = [old EXCEPT !.prefix = q]
      BY <2>1
    <3> HIDE DEF old, copy
    <3>2. copy.id = old.id /\ copy \in Origin
      BY <2>2, <3>1, PrefixedFacts
    <3> QED
      BY <3>2 DEF old
  <2> HIDE DEF copy
  <2>5. /\ next \in Attaching /\ next.copy = copy /\ next.pc = r.pc /\ next.url = r.url
        /\ next.fresh = r.fresh
    <3>1. r.suffix + 1 \in Nat /\ r \in Attaching
      BY <2>1
    <3> HIDE DEF r
    <3> QED
      BY <2>3, <2>4, <3>1 DEF Attaching
  <2>6. r.pc = "origin"
    BY <1>1 DEF RegAt
  <2>7. ~(r.fresh /\ origins[r.url].id # None)
    <3> SUFFICES ASSUME r.fresh, origins[r.url].id # None PROVE FALSE
      OBVIOUS
    <3>1. r.copy.prefix = origins[r.url].prefix
      BY <1>3, <2>1, <2>6 DEF Copied
    <3>2. PICK v \in RegUrls \ {r.url} : origins[v].id # None /\ origins[v].prefix = r.copy.prefix
      BY <1>1 DEF PrefixTaken, Known
    <3>3. PrefixesDiffer(origins)
      BY DEF RegInv
    <3> QED
      BY <2>1, <3>1, <3>2, <3>3 DEF PrefixesDiffer
  <2>8. next \in Commanding /\ Copied(next, origins)
    BY <2>1, <2>4, <2>5, <2>6, <2>7 DEF Copied, Commanding
  <2> QED
    BY <1>1, <1>3, <2>8, RegGoesKeeps, RegShapes
<1> QED
  BY <1>1, <1>2, <1>3

\* The instance refers to the origin that was saved before it.
LEMMA AttachSavesInstanceKeeps ==
  ASSUME RegInv, NEW p \in RegProcs, AttachSavesInstance(p) PROVE RegInv'
<1> DEFINE r == regProc[p]
<1>1. /\ RegAt(p, "instance") /\ RegGoes(p, RegResting)
      /\ instances' = instances \/ instances' = [instances EXCEPT ![<<r.ws, r.url>>] = r.copy.id]
      /\ origins' = origins /\ hidden' = hidden /\ filing' = filing
  BY DEF AttachSavesInstance
<1>2. /\ r \in Attaching /\ Copied(r, origins) /\ r.ws \in RegWorkspaces /\ r.url \in RegUrls /\ r.copy.id \in Ids
      /\ r.pc = "instance"
  BY <1>1, AttachingFacts DEF RegAt
<1>3. origins[r.url].id = r.copy.id
  BY <1>2 DEF Copied
<1> HIDE DEF r
<1>4. <<r.ws, r.url>> \in RegPlaces /\ <<r.ws, r.url>>[2] = r.url
  BY <1>2 DEF RegPlaces
<1>5. instances' \in [RegPlaces -> Ids] /\ Referring(instances', origins)
  BY <1>1, <1>2, <1>3, <1>4, RegShapes DEF Referring
<1> QED
  BY <1>1, <1>5, RegEnds

\* An edit holds a copy with the origin's prefix, or the one it was told.
LEMMA EditKeeps ==
  ASSUME RegInv, NEW p \in RegProcs, NEW targets \in Resolve, NEW h \in Handles, Edit(p, targets, h)
  PROVE  RegInv'
<1>1. PICK b \in targets :
        \/ \E new \in SetName(origins[b[2]], h) \cup AddAlias(origins[b[2]], h) \cup RemoveAlias(origins[b[2]], h) :
             RegGoes(p, [pc |-> "edit", url |-> b[2], fresh |-> TRUE, copy |-> new, asked |-> FALSE])
        \/ \E new \in SetPrefix(origins[b[2]], h) :
             RegGoes(p, [pc |-> "edit", url |-> b[2], fresh |-> TRUE, copy |-> new, asked |-> TRUE])
  BY DEF Edit
<1> DEFINE o == origins[b[2]]
<1>2. b[2] \in RegUrls /\ Known(b[2])
  BY ResolveFacts
<1>3. o \in Origin /\ o.id # None
  BY <1>2, RegShapes DEF Known
<1>4. h \in Handle /\ o.aliases \cup {h} \in SUBSET Handles /\ o.aliases \ {h} \in SUBSET Handles
  BY <1>3, HandlesFacts DEF Origin
<1>5. origins' = origins /\ instances' = instances /\ hidden' = hidden /\ filing' = filing
  BY DEF Edit
<1> HIDE DEF o
<1>6. ASSUME NEW new \in Origin, new.id = o.id, NEW asked \in BOOLEAN, asked \/ new.prefix = o.prefix,
             RegGoes(p, [pc |-> "edit", url |-> b[2], fresh |-> TRUE, copy |-> new, asked |-> asked])
      PROVE  RegInv'
  <2> DEFINE r == [pc |-> "edit", url |-> b[2], fresh |-> TRUE, copy |-> new, asked |-> asked]
  <2>1. r \in Editing /\ r.copy = new /\ r.url = b[2] /\ r.asked = asked /\ r.pc = "edit"
    BY <1>2 DEF Editing
  <2>2. RegGoes(p, r)
    BY <1>6
  <2> HIDE DEF r
  <2>3. r \notin Attaching \/ r.pc # "instance"
    BY <2>1
  <2>4. r \in Commanding /\ Copied(r, origins)
    BY <1>3, <1>6, <2>1, <2>3 DEF Copied, Commanding, o
  <2> QED
    BY <1>5, <2>2, <2>4, RegGoesKeeps, RegShapes
<1>7. \A new \in SetName(o, h) \cup AddAlias(o, h) \cup RemoveAlias(o, h) :
        new \in Origin /\ new.id = o.id /\ new.prefix = o.prefix
  <2>1. \A new \in SetName(o, h) : new = [o EXCEPT !.name = h]
    BY DEF SetName
  <2>2. \A new \in AddAlias(o, h) : new = [o EXCEPT !.aliases = o.aliases \cup {h}]
    BY DEF AddAlias
  <2>3. \A new \in RemoveAlias(o, h) : new = [o EXCEPT !.aliases = o.aliases \ {h}]
    BY DEF RemoveAlias
  <2>4. ASSUME NEW new \in SetName(o, h) PROVE new \in Origin /\ new.id = o.id /\ new.prefix = o.prefix
    BY <1>3, <1>4, <2>1, NamedFacts
  <2>5. ASSUME NEW new \in AddAlias(o, h) \cup RemoveAlias(o, h)
        PROVE  new \in Origin /\ new.id = o.id /\ new.prefix = o.prefix
    <3>1. PICK hs \in SUBSET Handles : new = [o EXCEPT !.aliases = hs]
      BY <1>4, <2>2, <2>3
    <3> QED
      BY <1>3, <3>1, AliasedFacts
  <2> QED
    BY <2>4, <2>5
<1>8. \A new \in SetPrefix(o, h) : new \in Origin /\ new.id = o.id
  <2>1. \A new \in SetPrefix(o, h) : new = [o EXCEPT !.prefix = h]
    BY DEF SetPrefix
  <2> QED
    BY <1>3, <1>4, <2>1, PrefixedFacts
<1> QED
  BY <1>1, <1>6, <1>7, <1>8 DEF o

\* An edit saves its copy, or its prefix is taken.
LEMMA EditSavesKeeps ==
  ASSUME RegInv, NEW p \in RegProcs, EditSaves(p) PROVE RegInv'
<1>1. /\ RegAt(p, "edit") /\ instances' = instances /\ hidden' = hidden /\ filing' = filing
      /\ SaveOrigin(p, RegResting) \/ (RegGoes(p, RegResting) /\ origins' = origins)
  <2>1. RegAt(p, "edit") /\ instances' = instances /\ hidden' = hidden /\ filing' = filing
    BY DEF EditSaves
  <2>2. SaveOrigin(p, RegResting) \/ (RegGoes(p, RegResting) /\ origins' = origins)
    <3>1. SaveOrigin(p, RegResting) \/ (RegGoes(p, RegResting) /\ UNCHANGED origins)
      BY Zenon DEF EditSaves
    <3>2. UNCHANGED origins => origins' = origins
      OBVIOUS
    <3> QED
      BY <3>1, <3>2, Zenon
  <2> QED
    BY <2>1, <2>2, Zenon
<1>2. regProc[p] \in Attaching \cup Editing
  BY <1>1, RegShapes DEF RegAt, Commanding, RegResting
<1>3. CASE SaveOrigin(p, RegResting)
  BY <1>1, <1>2, <1>3, SaveOriginKeeps, RegRestingFacts
<1>4. CASE RegGoes(p, RegResting) /\ origins' = origins
  BY <1>1, <1>4, RegEnds, RegShapes
<1> QED
  BY <1>1, <1>3, <1>4

\* A detach leaves the other instances as they refer.
LEMMA DetachRepoKeeps ==
  ASSUME RegInv, NEW targets \in Resolve, DetachRepo(targets) PROVE RegInv'
<1>1. /\ instances' = [b \in DOMAIN instances |-> IF b \in targets THEN None ELSE instances[b]]
      /\ origins' = origins /\ hidden' = hidden /\ filing' = filing /\ regProc' = regProc
  BY DEF DetachRepo
<1>2. None \in Ids
  BY DEF Ids
<1>3. instances' \in [RegPlaces -> Ids] /\ Referring(instances', origins)
  BY <1>1, <1>2, RegShapes DEF Referring
<1> QED
  BY <1>1, <1>3, RegRestKeeps, RegShapes

\* A repair's target is the origin of an instance in the workspace.
LEMMA DoctorTargetFacts ==
  ASSUME RegInv, NEW w \in RegWorkspaces, NEW u \in RegUrls, NEW mapped \in SUBSET RegUrls,
         NEW id \in DoctorTarget(w, u, mapped)
  PROVE  \E v \in RegUrls : Known(v) /\ Bound(w, v) /\ id = origins[v].id /\ id \in Ids
<1>1. \A v \in RegUrls : Bound(w, v) => /\ Known(v) /\ instances[<<w, v>>] = origins[v].id
                                       /\ instances[<<w, v>>] \in Ids
  <2> SUFFICES ASSUME NEW v \in RegUrls, Bound(w, v)
               PROVE  Known(v) /\ instances[<<w, v>>] = origins[v].id /\ instances[<<w, v>>] \in Ids
    OBVIOUS
  <2>1. <<w, v>> \in RegPlaces /\ <<w, v>>[2] = v /\ instances[<<w, v>>] # None
    BY DEF RegPlaces, Bound
  <2>2. instances[<<w, v>>] = origins[v].id /\ instances[<<w, v>>] \in Ids
    BY <2>1, RegShapes DEF Referring
  <2> QED
    BY <2>1, <2>2 DEF Known
<1>2. \E v \in RegUrls : Bound(w, v) /\ id = instances[<<w, v>>]
  <2>1. CASE id \in LogicalTarget(w, u)
    BY <2>1 DEF LogicalTarget
  <2>2. CASE id \in MappedTarget(w, mapped)
    <3>1. id \in {instances[<<w, v>>] : v \in {v \in mapped : Bound(w, v)}}
      BY <2>2 DEF MappedTarget
    <3> QED
      BY <3>1
  <2> QED
    BY <2>1, <2>2 DEF DoctorTarget
<1> QED
  BY <1>1, <1>2

\* What a repair writes.
LEMMA DoctorFacts ==
  ASSUME RegInv, NEW w \in RegWorkspaces, NEW mapped \in SUBSET RegUrls, Doctor(w, mapped)
  PROVE  /\ filing' \in [RegPlaces -> Ids \cup {Dangling}]
         /\ \A b \in RegPlaces : filing'[b] # filing[b] =>
              /\ filing[b] = Dangling
              /\ \E v \in RegUrls : Known(v) /\ Bound(b[1], v) /\ filing'[b] = origins[v].id
<1>1. DOMAIN filing = RegPlaces
  BY RegShapes
<1>2. \A b \in RegPlaces :
        filing'[b] = IF b[1] = w /\ filing[b] = Dangling /\ DoctorTarget(b[1], b[2], mapped) # {}
                     THEN CHOOSE id \in DoctorTarget(b[1], b[2], mapped) : TRUE ELSE filing[b]
  BY <1>1 DEF Doctor
<1>3. filing' = [b \in RegPlaces |-> filing'[b]]
  BY <1>1 DEF Doctor
<1>4. ASSUME NEW b \in RegPlaces, filing'[b] # filing[b]
      PROVE  /\ filing[b] = Dangling
             /\ \E v \in RegUrls : Known(v) /\ Bound(b[1], v) /\ filing'[b] = origins[v].id /\ filing'[b] \in Ids
  <2> DEFINE targets == DoctorTarget(b[1], b[2], mapped)
  <2>1. b[1] \in RegWorkspaces /\ b[2] \in RegUrls
    BY DEF RegPlaces
  <2>2. filing[b] = Dangling /\ targets # {} /\ filing'[b] = CHOOSE id \in targets : TRUE
    BY <1>2, <1>4
  <2>3. filing'[b] \in targets
    <3> HIDE DEF targets
    <3> QED
      BY <2>2
  <2> QED
    BY <2>1, <2>2, <2>3, DoctorTargetFacts
<1>5. \A b \in RegPlaces : filing'[b] \in Ids \cup {Dangling}
  <2> SUFFICES ASSUME NEW b \in RegPlaces PROVE filing'[b] \in Ids \cup {Dangling}
    OBVIOUS
  <2>1. filing[b] \in Ids \cup {Dangling}
    BY RegShapes
  <2> QED
    BY <1>4, <2>1
<1> QED
  BY <1>3, <1>4, <1>5

\* What a repair that was told its target writes.
LEMMA DoctorForcedFacts ==
  ASSUME RegInv, NEW w \in RegWorkspaces, NEW u \in RegUrls, DoctorForced(w, u)
  PROVE  /\ filing' \in [RegPlaces -> Ids \cup {Dangling}] /\ Known(u)
         /\ \A b \in RegPlaces : filing'[b] # filing[b] => b[1] = w /\ filing[b] = Dangling /\ filing'[b] = origins[u].id
<1>1. Known(u) /\ filing' = [b \in DOMAIN filing |-> IF b[1] = w /\ filing[b] = Dangling THEN origins[u].id ELSE filing[b]]
  BY DEF DoctorForced
<1>2. origins[u].id \in Ids
  BY RegShapes DEF Origin
<1> QED
  BY <1>1, <1>2, RegShapes

\* Every step keeps the invariant.
LEMMA RegInvStep == RegInv /\ [RegNext]_regVars => RegInv'
<1> SUFFICES ASSUME RegInv, [RegNext]_regVars PROVE RegInv'
  OBVIOUS
<1>1. CASE UNCHANGED regVars
  <2>1. /\ origins' = origins /\ instances' = instances /\ hidden' = hidden /\ filing' = filing
        /\ regProc' = regProc
    BY <1>1 DEF regVars
  <2> QED
    BY <2>1, RegRestKeeps, RegShapes
<1>2. ASSUME NEW p \in RegProcs, AttachMeetsUrl(p) \/ Killed(p) PROVE RegInv'
  <2>1. /\ RegGoes(p, RegResting) /\ origins' = origins /\ instances' = instances /\ hidden' = hidden
        /\ filing' = filing
    BY <1>2 DEF AttachMeetsUrl, Killed
  <2> QED
    BY <2>1, RegEnds, RegShapes
<1>3. ASSUME NEW p \in RegProcs, AttachStep(p) PROVE RegInv'
  BY <1>2, <1>3, AttachSavesOriginKeeps, AttachMeetsPrefixKeeps, AttachSavesInstanceKeeps, Zenon DEF AttachStep
<1>4. ASSUME NEW w \in RegWorkspaces, ArchiveOrBack(w) PROVE RegInv'
  <2>1. /\ origins' = origins /\ instances' = instances /\ filing' = filing /\ regProc' = regProc
        /\ hidden' \subseteq RegWorkspaces
    BY <1>4, RegShapes DEF ArchiveOrBack
  <2> QED
    BY <2>1, RegRestKeeps, RegShapes
<1>5. ASSUME NEW w \in RegWorkspaces, NEW mapped \in SUBSET RegUrls, Doctor(w, mapped) PROVE RegInv'
  <2>1. origins' = origins /\ instances' = instances /\ hidden' = hidden /\ regProc' = regProc
    BY <1>5 DEF Doctor
  <2> QED
    BY <1>5, <2>1, DoctorFacts, RegRestKeeps, RegShapes
<1>6. ASSUME NEW w \in RegWorkspaces, NEW u \in RegUrls, DoctorForced(w, u) PROVE RegInv'
  <2>1. origins' = origins /\ instances' = instances /\ hidden' = hidden /\ regProc' = regProc
    BY <1>6 DEF DoctorForced
  <2> QED
    BY <1>6, <2>1, DoctorForcedFacts, RegRestKeeps, RegShapes
<1>7. ASSUME NEW p \in RegProcs, NEW w \in RegWorkspaces, NEW u \in RegUrls, NEW wish, Attach(p, w, u, wish),
             wish \in Handles \/ wish = None
      PROVE  RegInv'
  BY <1>7, AttachKeeps
<1>8. CASE RegNext
  BY <1>2, <1>3, <1>4, <1>5, <1>6, <1>7, <1>8, EditSavesKeeps, EditKeeps, DetachRepoKeeps DEF RegNext
<1> QED
  BY <1>1, <1>8

\* A prefix leads to the active instances of its origin, or to the archived ones
\* where none is active.
LEMMA PrefixResolves ==
  ASSUME RegInv, NEW u \in RegUrls, Known(u), NEW w \in RegWorkspaces, Bound(w, u)
  PROVE  ResolveByHandle(origins[u].prefix) = ResolveMatching({u})
<1>1. {v \in RegUrls : Known(v) /\ origins[v].prefix = origins[u].prefix} = {u}
  BY DEF RegInv, PrefixesDiffer, Known
<1>2. ResolveMatching({u}) # {}
  <2>1. <<w, u>> \in {b \in RegWorkspaces \X RegUrls : Bound(b[1], b[2]) /\ b[2] \in {u}}
    OBVIOUS
  <2> QED
    BY <2>1 DEF ResolveMatching
<1> QED
  BY <1>1, <1>2 DEF ResolveByHandle

\* What the invariant says of a state.
LEMMA RegInvShows == RegInv => RegTypeOK /\ PrefixPins /\ CwdAndPrefixAgree
<1> SUFFICES ASSUME RegInv PROVE RegTypeOK /\ PrefixPins /\ CwdAndPrefixAgree
  OBVIOUS
<1>1. RegTypeOK
  BY DEF RegInv, RegTypeOK, PrefixesDiffer, Referring, Known, RegPlaces
<1>2. PrefixPins
  <2> SUFFICES ASSUME NEW u \in RegUrls, Known(u), NEW w \in RegWorkspaces, Bound(w, u),
                      NEW b \in ResolveByHandle(origins[u].prefix)
               PROVE  b[2] = u
    BY DEF PrefixPins
  <2>1. b \in ResolveMatching({u})
    BY PrefixResolves
  <2> QED
    BY <2>1 DEF ResolveMatching
<1>3. CwdAndPrefixAgree
  <2> SUFFICES ASSUME NEW u \in RegUrls, ResolveRepoOrCwd(u) # {}
               PROVE  ResolveByHandle(origins[u].prefix) = ResolveRepoOrCwd(u)
    BY DEF CwdAndPrefixAgree
  <2>1. ResolveRepoOrCwd(u) = Memberships(u) /\ Memberships(u) # {}
    BY DEF ResolveRepoOrCwd, PickRepo
  <2>2. PICK w \in RegWorkspaces \ hidden : Bound(w, u)
    BY <2>1 DEF Memberships
  <2>3. Known(u)
    <3>1. <<w, u>> \in RegPlaces /\ <<w, u>>[2] = u /\ instances[<<w, u>>] # None
      BY <2>2 DEF RegPlaces, Bound
    <3> QED
      BY <3>1, RegShapes DEF Referring, Known
  <2> DEFINE active == {b \in {b \in RegWorkspaces \X RegUrls : Bound(b[1], b[2]) /\ b[2] \in {u}} : b[1] \notin hidden}
  <2>4. <<w, u>> \in active
    BY <2>2
  <2>5. ResolveMatching({u}) = active
    BY <2>4 DEF ResolveMatching
  <2>6. active = Memberships(u)
    BY DEF Memberships
  <2> QED
    BY <2>1, <2>2, <2>3, <2>5, <2>6, PrefixResolves
<1> QED
  BY <1>1, <1>2, <1>3

\* Only a save writes a prefix, and an unasked copy that is fresh has the origin's.
LEMMA PrefixStays ==
  ASSUME RegInv, RegNext, NEW p \in RegProcs, NEW u \in RegUrls, ~RegAt(p, "idle"), regProc'[p].pc # regProc[p].pc,
         Known(u), origins'[u].prefix # origins[u].prefix
  PROVE  regProc[p].asked \/ ~regProc[p].fresh
<1>1. origins' # origins
  OBVIOUS
<1>2. PICK q \in RegProcs : \E next : SaveOrigin(q, next) /\ regProc[q].pc \in {"origin", "edit"}
  BY <1>1 DEF RegNext, Attach, AttachStep, AttachSavesOrigin, AttachMeetsPrefix, AttachMeetsUrl, AttachSavesInstance,
     EditSaves, Killed, DetachRepo, Edit, ArchiveOrBack, Doctor, DoctorForced, RegAt
<1>3. PICK next : SaveOrigin(q, next)
  BY <1>2
<1> DEFINE r == regProc[p]
<1>4. regProc[q] \in Commanding /\ r \in Commanding /\ Copied(r, origins)
  BY RegShapes
<1>5. q = p
  <2> SUFFICES ASSUME q # p PROVE FALSE
    OBVIOUS
  <2>1. regProc'[p] = r \/ regProc'[p] = [r EXCEPT !.fresh = FALSE]
    BY <1>3 DEF SaveOrigin
  <2>2. [r EXCEPT !.fresh = FALSE].pc = r.pc
    BY <1>4 DEF Commanding, RegResting, Attaching, Editing
  <2> QED
    BY <2>1, <2>2
<1>6. r.pc \in {"origin", "edit"} /\ r \in Attaching \cup Editing
  BY <1>2, <1>4, <1>5 DEF Commanding, RegResting
<1>7. origins' = [origins EXCEPT ![r.url] = r.copy]
  BY <1>3, <1>5 DEF SaveOrigin
<1>8. r.url = u /\ origins'[u] = r.copy
  BY <1>7, RegShapes
<1>9. r.fresh /\ ~r.asked => r.copy.prefix = origins[u].prefix
  BY <1>4, <1>6, <1>8 DEF Copied, Known
<1> QED
  BY <1>8, <1>9

\* Only a repair writes a filing repo.
LEMMA DoctorStays ==
  ASSUME RegInv, RegNext, NEW b \in RegPlaces, filing'[b] # filing[b]
  PROVE  /\ filing[b] = Dangling
         /\ \E u \in RegUrls : /\ Known(u) /\ filing'[b] = origins[u].id
                              /\ (Bound(b[1], u) \/ DoctorForced(b[1], u))
<1>1. filing' # filing
  OBVIOUS
<1>2. \/ \E w \in RegWorkspaces, mapped \in SUBSET RegUrls : Doctor(w, mapped)
      \/ \E w \in RegWorkspaces, u \in RegUrls : DoctorForced(w, u)
  BY <1>1 DEF RegNext, Attach, AttachStep, AttachSavesOrigin, AttachMeetsPrefix, AttachMeetsUrl, AttachSavesInstance,
     EditSaves, Killed, DetachRepo, Edit, ArchiveOrBack
<1>3. ASSUME NEW w \in RegWorkspaces, NEW mapped \in SUBSET RegUrls, Doctor(w, mapped)
      PROVE  filing[b] = Dangling /\ \E v \in RegUrls : Known(v) /\ Bound(b[1], v) /\ filing'[b] = origins[v].id
  BY <1>3, DoctorFacts
<1>4. ASSUME NEW w \in RegWorkspaces, NEW u \in RegUrls, DoctorForced(w, u)
      PROVE  b[1] = w /\ filing[b] = Dangling /\ filing'[b] = origins[u].id /\ Known(u)
  BY <1>4, DoctorForcedFacts
<1> QED
  BY <1>2, <1>3, <1>4

\* However attaches, edits, detaches, archivings, repairs and kills interleave: no
\* two origins share a prefix, an instance refers to the origin of its own url, a
\* prefix leads to its origin and agrees with the current directory, a command that
\* was not told a prefix leaves the one of a known origin, and a repair re-points
\* dangling tasks only (attach, save_with_unique_prefix, resolve_by_handle,
\* memberships_for_canonical_url, doctor).
THEOREM RegistryKeepsSound == RegSpec => RegistryIsSound
<1>1. RegInv /\ [RegNext]_regVars =>
        [\A p \in RegProcs : \A u \in RegUrls :
           /\ ~RegAt(p, "idle") /\ regProc'[p].pc # regProc[p].pc
           /\ Known(u) /\ origins'[u].prefix # origins[u].prefix
           => regProc[p].asked \/ ~regProc[p].fresh]_regVars
  BY PrefixStays
<1>2. RegInv /\ [RegNext]_regVars =>
        [\A b \in DOMAIN filing : filing'[b] # filing[b] =>
           /\ filing[b] = Dangling
           /\ \E u \in RegUrls : /\ Known(u) /\ filing'[b] = origins[u].id
                                /\ (Bound(b[1], u) \/ DoctorForced(b[1], u))]_regVars
  <2>1. RegInv => DOMAIN filing = RegPlaces
    BY RegShapes
  <2> QED
    BY <2>1, DoctorStays
<1> QED
  BY <1>1, <1>2, RegInvInit, RegInvStep, RegInvShows, PTL DEF RegSpec, RegistryIsSound, PrefixIsStable, DoctorHeals

-----------------------------------------------------------------------------
(***************************************************************************)
(* The daemon's commands: what is known before each call that is left.     *)
(***************************************************************************)

(* The calls of install_service, which each branch writes as two groups.     *)
LEMMA TwoAndTwo ==
  ASSUME NEW a, NEW b, NEW c, NEW d, NEW s, NEW t, s = <<a, b>>, t = <<c, d>>
  PROVE  s \o t = <<a, b, c, d>>
<1> DEFINE w == <<a, b, c, d>>
           S == {a, b, c, d}
<1>0. a \in S /\ b \in S /\ c \in S /\ d \in S
  OBVIOUS
<1> HIDE DEF S
<1>1. s \in Seq(S) /\ t \in Seq(S) /\ Len(s) = 2 /\ Len(t) = 2
  BY <1>0
<1>2. w \in Seq(S) /\ Len(w) = 4 /\ w[1] = a /\ w[2] = b /\ w[3] = c /\ w[4] = d
  BY <1>0
<1>3. s[1] = a /\ s[2] = b /\ t[1] = c /\ t[2] = d
  OBVIOUS
<1>4. (s \o t) \in Seq(S) /\ Len(s \o t) = 4
  BY <1>1, ConcatProperties
<1>5. \A i \in 1..4 : (s \o t)[i] = IF i <= 2 THEN s[i] ELSE t[i - 2]
  <2>1. \A i \in 1..(Len(s) + Len(t)) : (s \o t)[i] = IF i <= Len(s) THEN s[i] ELSE t[i - Len(s)]
    BY <1>1, ConcatProperties
  <2> QED
    BY <1>1, <2>1
<1> HIDE DEF w
<1> DEFINE v == s \o t
<1>6. \A i \in 1..4 : v[i] = IF i <= 2 THEN s[i] ELSE t[i - 2]
  BY <1>5
<1>7. v \in Seq(S) /\ Len(v) = 4
  BY <1>4
<1> HIDE DEF v
<1>8. v[1] = a /\ v[2] = b /\ v[3] = t[3 - 2] /\ v[4] = t[4 - 2]
  BY <1>3, <1>6
<1>9. v[3] = c /\ v[4] = d
  BY <1>3, <1>8
<1>10. \A i \in 1..4 : v[i] = w[i]
  <2>1. \A i \in 1..4 : i = 1 \/ i = 2 \/ i = 3 \/ i = 4
    OBVIOUS
  <2> QED
    BY <1>2, <1>8, <1>9, <2>1
<1>11. v = w
  BY <1>2, <1>7, <1>10, SeqEqual
<1> QED
  BY <1>11 DEF v, w

LEMMA OneAndOne ==
  ASSUME NEW a, NEW b, NEW s, NEW t, s = <<a>>, t = <<b>>
  PROVE  s \o t = <<a, b>>
<1> DEFINE w == <<a, b>>
           S == {a, b}
<1>0. a \in S /\ b \in S
  OBVIOUS
<1> HIDE DEF S
<1>1. s \in Seq(S) /\ t \in Seq(S) /\ Len(s) = 1 /\ Len(t) = 1
  BY <1>0
<1>2. w \in Seq(S) /\ Len(w) = 2 /\ w[1] = a /\ w[2] = b
  BY <1>0
<1>3. s[1] = a /\ t[1] = b
  OBVIOUS
<1>4. (s \o t) \in Seq(S) /\ Len(s \o t) = 2
  BY <1>1, ConcatProperties
<1>5. \A i \in 1..2 : (s \o t)[i] = IF i <= 1 THEN s[i] ELSE t[i - 1]
  <2>1. \A i \in 1..(Len(s) + Len(t)) : (s \o t)[i] = IF i <= Len(s) THEN s[i] ELSE t[i - Len(s)]
    BY <1>1, ConcatProperties
  <2> QED
    BY <1>1, <2>1
<1> HIDE DEF w
<1> DEFINE v == s \o t
<1>6. \A i \in 1..2 : v[i] = IF i <= 1 THEN s[i] ELSE t[i - 1]
  BY <1>5
<1>7. v \in Seq(S) /\ Len(v) = 2
  BY <1>4
<1> HIDE DEF v
<1>8. v[1] = a /\ v[2] = t[2 - 1]
  BY <1>3, <1>6
<1>9. v[2] = b
  BY <1>3, <1>8
<1>10. \A i \in 1..2 : v[i] = w[i]
  <2>1. \A i \in 1..2 : i = 1 \/ i = 2
    OBVIOUS
  <2> QED
    BY <1>2, <1>8, <1>9, <2>1
<1>11. v = w
  BY <1>2, <1>7, <1>10, SeqEqual
<1> QED
  BY <1>11 DEF v, w

LEMMA OneAndTwo ==
  ASSUME NEW a, NEW b, NEW c, NEW s, NEW t, s = <<a>>, t = <<b, c>>
  PROVE  s \o t = <<a, b, c>>
<1> DEFINE w == <<a, b, c>>
           S == {a, b, c}
<1>0. a \in S /\ b \in S /\ c \in S
  OBVIOUS
<1> HIDE DEF S
<1>1. s \in Seq(S) /\ t \in Seq(S) /\ Len(s) = 1 /\ Len(t) = 2
  BY <1>0
<1>2. w \in Seq(S) /\ Len(w) = 3 /\ w[1] = a /\ w[2] = b /\ w[3] = c
  BY <1>0
<1>3. s[1] = a /\ t[1] = b /\ t[2] = c
  OBVIOUS
<1>4. (s \o t) \in Seq(S) /\ Len(s \o t) = 3
  BY <1>1, ConcatProperties
<1>5. \A i \in 1..3 : (s \o t)[i] = IF i <= 1 THEN s[i] ELSE t[i - 1]
  <2>1. \A i \in 1..(Len(s) + Len(t)) : (s \o t)[i] = IF i <= Len(s) THEN s[i] ELSE t[i - Len(s)]
    BY <1>1, ConcatProperties
  <2> QED
    BY <1>1, <2>1
<1> HIDE DEF w
<1> DEFINE v == s \o t
<1>6. \A i \in 1..3 : v[i] = IF i <= 1 THEN s[i] ELSE t[i - 1]
  BY <1>5
<1>7. v \in Seq(S) /\ Len(v) = 3
  BY <1>4
<1> HIDE DEF v
<1>8. v[1] = a /\ v[2] = t[2 - 1] /\ v[3] = t[3 - 1]
  BY <1>3, <1>6
<1>9. v[2] = b /\ v[3] = c
  BY <1>3, <1>8
<1>10. \A i \in 1..3 : v[i] = w[i]
  <2>1. \A i \in 1..3 : i = 1 \/ i = 2 \/ i = 3
    OBVIOUS
  <2> QED
    BY <1>2, <1>8, <1>9, <2>1
<1>11. v = w
  BY <1>2, <1>7, <1>10, SeqEqual
<1> QED
  BY <1>11 DEF v, w

\* A list of calls that is put together.
LEMMA Joined ==
  /\ <<"query-ended">> \o <<"change-disable">> = <<"query-ended", "change-disable">>
  /\ <<"query-ended">> \o <<"delete", "remove">> = <<"query-ended", "delete", "remove">>
  /\ <<"change-enable">> \o <<"query", "run">> = <<"change-enable", "query", "run">>
  /\ <<"write", "create">> \o <<"query", "run">> = <<"write", "create", "query", "run">>
<1>1. \A a, b, s, t : s = <<a>> /\ t = <<b>> => s \o t = <<a, b>>
  BY OneAndOne
<1>2. \A a, b, c, s, t : s = <<a>> /\ t = <<b, c>> => s \o t = <<a, b, c>>
  BY OneAndTwo
<1>3. \A a, b, c, d, s, t : s = <<a, b>> /\ t = <<c, d>> => s \o t = <<a, b, c, d>>
  BY TwoAndTwo
<1> QED
  BY <1>1, <1>2, <1>3

UnitRecords == [file: Contents, reg: Contents, enabled: BOOLEAN, up: BOOLEAN, live: Contents, stray: BOOLEAN]
CallNames == {"write", "remove", "daemon-reload", "enable-now", "disable-now", "enable", "disable", "bootstrap", "print",
              "bootout", "create", "query", "query-ended", "run", "end", "delete", "change-enable", "change-disable"}
CtlRecords == [verb: Verbs \cup {"none"}, calls: Seq(CallNames), manifest: Contents, hurt: BOOLEAN]
LastRecords == [verb: Verbs \cup {"none"}, ok: BOOLEAN, hurt: BOOLEAN]

UnitsTypes ==
  /\ os \in {"linux", "macos", "windows"}
  /\ unit \in UnitRecords /\ ctl \in CtlRecords /\ last \in LastRecords

Quit == ctl.verb = "none" /\ ctl.calls = <<>>
At(verb, calls) ==
  /\ ctl.verb = verb /\ ctl.calls = calls
  /\ verb = "install" => ctl.manifest # "none"

\* Nothing runs and nothing would be started.
Off == ~unit.up /\ ~unit.enabled
Written == unit.file # "none"
Unloaded == unit.reg = "none"
Registered == unit.reg = unit.file /\ unit.file # "none" /\ unit.enabled
OnlyStray == unit.live # "none" => unit.stray
Fresh == ~ctl.hurt => unit.live = "none"

LinuxPlace ==
  \/ Quit
  \/ At("install", <<"write", "daemon-reload", "enable-now">>)
  \/ At("install", <<"daemon-reload", "enable-now">>) /\ Written
  \/ At("install", <<"enable-now">>) /\ Written
  \/ At("uninstall", <<"disable-now", "remove", "daemon-reload">>)
  \/ At("uninstall", <<"remove", "daemon-reload">>) /\ Off
  \/ At("uninstall", <<"daemon-reload">>) /\ Off
  \/ At("start", <<"enable-now">>)
  \/ At("stop", <<"disable-now">>)

LinuxInv ==
  /\ LinuxPlace
  /\ ~unit.up => unit.live = "none"
  /\ unit.file = "none" => Off
  /\ Quit /\ last.ok => /\ last.verb \in {"stop", "uninstall"} => Off
                        /\ last.verb = "install" => unit.up /\ Registered

MacosPlace ==
  \/ Quit
  \/ At("install", <<"write", "bootout", "enable", "bootstrap">>)
  \/ At("install", <<"bootout", "enable", "bootstrap">>) /\ Written
  \/ At("install", <<"enable", "bootstrap">>) /\ Written /\ Unloaded
  \/ At("install", <<"bootstrap">>) /\ Written /\ Unloaded /\ unit.enabled
  \/ At("uninstall", <<"bootout", "remove">>)
  \/ At("uninstall", <<"remove">>) /\ Unloaded
  \/ At("start", <<"print", "enable", "bootstrap">>)
  \/ At("start", <<"enable", "bootstrap">>)
  \/ At("start", <<"bootstrap">>)
  \/ At("start", <<"enable">>)
  \/ At("stop", <<"disable", "bootout">>)
  \/ At("stop", <<"bootout">>) /\ ~unit.enabled

MacosInv ==
  /\ MacosPlace
  /\ Unloaded => unit.live = "none"
  /\ Quit /\ last.ok => /\ last.verb \in {"stop", "uninstall"} => Unloaded /\ (~unit.enabled \/ ~Written)
                        /\ last.verb = "install" => Registered

WindowsPlace ==
  \/ Quit
  \/ At("install", <<"write", "create", "query", "run">>)
  \/ At("install", <<"create", "query", "run">>) /\ Written
  \/ At("install", <<"query", "run">>) /\ Registered
  \/ At("install", <<"run">>) /\ Registered /\ Fresh
  \/ At("uninstall", <<"end", "delete", "remove">>)
  \/ At("uninstall", <<"query-ended", "delete", "remove">>) /\ OnlyStray /\ Fresh
  \/ At("uninstall", <<"delete", "remove">>) /\ OnlyStray
  \/ At("uninstall", <<"remove">>) /\ OnlyStray /\ Unloaded
  \/ At("start", <<"change-enable", "query", "run">>)
  \/ At("start", <<"query", "run">>)
  \/ At("start", <<"run">>)
  \/ At("stop", <<"end", "change-disable">>)
  \/ At("stop", <<"query-ended", "change-disable">>) /\ OnlyStray /\ Fresh
  \/ At("stop", <<"change-disable">>) /\ OnlyStray

WindowsInv ==
  /\ WindowsPlace
  /\ Unloaded \/ ~unit.enabled => OnlyStray
  /\ Quit /\ last.ok => /\ last.verb \in {"stop", "uninstall"} => OnlyStray /\ (Unloaded \/ ~unit.enabled)
                        /\ last.verb = "install" => Registered

UnitsInv ==
  /\ UnitsTypes
  /\ os = "linux" => LinuxInv
  /\ os = "macos" => MacosInv
  /\ os = "windows" => WindowsInv
  /\ last.verb \in {"install", "stop", "uninstall"} /\ ~last.ok => last.hurt

LEMMA EndsFacts ==
  ASSUME UnitsTypes, NEW ok \in BOOLEAN, NEW hurt \in BOOLEAN, Ends(ok, hurt)
  PROVE  /\ ctl' \in CtlRecords /\ last' \in LastRecords /\ Quit'
         /\ last'.verb = ctl.verb /\ last'.ok = ok /\ last'.hurt = hurt
<1>1. /\ last' = [verb |-> ctl.verb, ok |-> ok, hurt |-> hurt]
      /\ ctl' = [verb |-> "none", calls |-> <<>>, manifest |-> "none", hurt |-> FALSE]
  BY DEF Ends
<1>2. ctl.verb \in Verbs \cup {"none"} /\ <<>> \in Seq(CallNames) /\ "none" \in Contents
  BY DEF UnitsTypes, CtlRecords, Contents
<1>3. ctl' \in CtlRecords /\ Quit'
  BY <1>1, <1>2 DEF CtlRecords, Quit
<1> QED
  BY <1>1, <1>2, <1>3 DEF LastRecords

LEMMA GoesOnFacts ==
  ASSUME UnitsTypes, NEW rest \in Seq(CallNames), rest # <<>>, GoesOn(rest)
  PROVE  /\ ctl' \in CtlRecords /\ last' = last /\ ctl'.verb = ctl.verb /\ ctl'.calls = rest
         /\ ctl'.manifest = ctl.manifest /\ ctl'.hurt = ctl.hurt
<1>1. ctl' = [ctl EXCEPT !.calls = rest] /\ last' = last
  BY DEF GoesOn
<1> QED
  BY <1>1 DEF UnitsTypes, CtlRecords

LEMMA DoneFacts ==
  ASSUME UnitsTypes, GoesOn(<<>>)
  PROVE  /\ ctl' \in CtlRecords /\ last' \in LastRecords /\ Quit'
         /\ last'.verb = ctl.verb /\ last'.ok /\ last'.hurt = ctl.hurt
<1>1. Ends(TRUE, ctl.hurt) /\ ctl.hurt \in BOOLEAN
  BY DEF GoesOn, UnitsTypes, CtlRecords
<1> QED
  BY <1>1, EndsFacts

\* The files.
LEMMA WriteCall ==
  ASSUME UnitsTypes, NEW rest, CallManifest("write", rest) \/ CallManager("write", rest)
  PROVE  /\ GoesOn(rest) /\ unit' \in UnitRecords /\ unit'.file = ctl.manifest /\ unit'.reg = unit.reg
         /\ unit'.enabled = unit.enabled /\ unit'.up = unit.up /\ unit'.live = unit.live /\ unit'.stray = unit.stray
<1>1. unit' = [unit EXCEPT !.file = ctl.manifest] /\ GoesOn(rest)
  BY DEF CallManifest, CallManager, WriteIfChanged
<1>2. ctl.manifest \in Contents
  BY DEF UnitsTypes, CtlRecords
<1> QED
  BY <1>1, <1>2 DEF UnitsTypes, UnitRecords

LEMMA RemoveCall ==
  ASSUME UnitsTypes, NEW rest, CallManifest("remove", rest) \/ CallManager("remove", rest)
  PROVE  /\ GoesOn(IF unit.file = "none" THEN <<>> ELSE rest)
         /\ unit' \in UnitRecords /\ unit'.file = "none" /\ unit'.reg = unit.reg
         /\ unit'.enabled = unit.enabled /\ unit'.up = unit.up /\ unit'.live = unit.live /\ unit'.stray = unit.stray
<1>1. unit' = [unit EXCEPT !.file = "none"] /\ GoesOn(IF unit.file = "none" THEN <<>> ELSE rest)
  BY DEF CallManifest, CallManager
<1>2. "none" \in Contents
  BY DEF Contents
<1> QED
  BY <1>1, <1>2 DEF UnitsTypes, UnitRecords

\* A call of the manager that is not one of those with more to it.
LEMMA PlainCall ==
  ASSUME NEW call \in CallNames \ {"write", "remove", "print", "query", "query-ended", "end"}, NEW rest,
         CallManifest(call, rest) \/ CallManager(call, rest)
  PROVE  /\ unit' = Managed(unit, call).unit
         /\ RequireSuccess(call, Managed(unit, call).out) => GoesOn(rest)
         /\ ~RequireSuccess(call, Managed(unit, call).out) => Ends(FALSE, ctl.hurt)
  BY DEF CallManifest, CallManager

LEMMA LinuxCalls ==
  ASSUME UnitsTypes, os = "linux", NEW rest,
         NEW call \in {"daemon-reload", "enable-now", "disable-now"},
         CallManifest(call, rest) \/ CallManager(call, rest)
  PROVE  /\ call = "daemon-reload" =>
              /\ GoesOn(rest) /\ unit' \in UnitRecords /\ unit'.file = unit.file /\ unit'.enabled = unit.enabled
              /\ unit'.up = unit.up /\ unit'.live = unit.live
         /\ call = "enable-now" /\ Written =>
              /\ GoesOn(rest) /\ unit' \in UnitRecords /\ unit'.file = unit.file /\ unit'.enabled /\ unit'.up
              /\ unit'.reg = unit.file
         /\ call = "enable-now" /\ ~Written => unit' = unit /\ Ends(FALSE, ctl.hurt)
         /\ call = "disable-now" /\ Written =>
              /\ GoesOn(rest) /\ unit' \in UnitRecords /\ unit'.file = unit.file /\ ~unit'.enabled /\ ~unit'.up
              /\ unit'.live = "none"
         /\ call = "disable-now" /\ ~Written => unit' = unit /\ GoesOn(rest)
<1>1. unit \in UnitRecords /\ "none" \in Contents /\ unit.file \in Contents /\ unit.live \in Contents
  BY DEF UnitsTypes, UnitRecords, Contents
<1>2. /\ unit' = Systemctl(unit, call).unit
      /\ RequireSuccess(call, Systemctl(unit, call).out) => GoesOn(rest)
      /\ ~RequireSuccess(call, Systemctl(unit, call).out) => Ends(FALSE, ctl.hurt)
  <2>1. call \in CallNames \ {"write", "remove", "print", "query", "query-ended", "end"}
    BY DEF CallNames
  <2> QED
    BY <2>1, PlainCall DEF Managed
<1>3. CASE call = "daemon-reload"
  <2>1. Systemctl(unit, call) = Does([unit EXCEPT !.reg = unit.file])
    BY <1>3 DEF Systemctl
  <2>2. unit' = [unit EXCEPT !.reg = unit.file] /\ GoesOn(rest)
    BY <1>2, <2>1 DEF Does, RequireSuccess
  <2> QED
    BY <1>1, <1>3, <2>2 DEF UnitRecords
<1>4. CASE call # "daemon-reload" /\ ~Written
  <2>1. Systemctl(unit, call) = Fails(unit, "missing")
    BY <1>4 DEF Systemctl, Written
  <2>2. unit' = unit /\ (call = "disable-now" => GoesOn(rest)) /\ (call = "enable-now" => Ends(FALSE, ctl.hurt))
    <3>1. Fails(unit, "missing").unit = unit /\ Fails(unit, "missing").out = "missing"
      BY DEF Fails
    <3>2. RequireSuccess("disable-now", "missing") /\ ~RequireSuccess("enable-now", "missing")
      BY DEF RequireSuccess, Tolerated
    <3> QED
      BY <1>2, <2>1, <3>1, <3>2
  <2> QED
    BY <1>4, <2>2
<1>5. CASE call = "enable-now" /\ Written
  <2>1. Systemctl(unit, call) = Does([unit EXCEPT !.reg = unit.file, !.enabled = TRUE, !.up = TRUE, !.live = Started(unit)])
    BY <1>5 DEF Systemctl, Written
  <2>2. unit' = [unit EXCEPT !.reg = unit.file, !.enabled = TRUE, !.up = TRUE, !.live = Started(unit)] /\ GoesOn(rest)
    BY <1>2, <2>1 DEF Does, RequireSuccess
  <2>3. Started(unit) \in Contents
    BY <1>1 DEF Started
  <2> QED
    BY <1>1, <1>5, <2>2, <2>3 DEF UnitRecords
<1>6. CASE call = "disable-now" /\ Written
  <2>1. Systemctl(unit, call) = Does([unit EXCEPT !.reg = unit.file, !.enabled = FALSE, !.up = FALSE, !.live = "none"])
    BY <1>6 DEF Systemctl, Written
  <2>2. unit' = [unit EXCEPT !.reg = unit.file, !.enabled = FALSE, !.up = FALSE, !.live = "none"] /\ GoesOn(rest)
    BY <1>2, <2>1 DEF Does, RequireSuccess
  <2> QED
    BY <1>1, <1>6, <2>2 DEF UnitRecords
<1> QED
  BY <1>3, <1>4, <1>5, <1>6

LEMMA MacosCalls ==
  ASSUME UnitsTypes, os = "macos", NEW rest,
         NEW call \in {"enable", "disable", "bootstrap", "bootout"},
         CallManifest(call, rest) \/ CallManager(call, rest)
  PROVE  /\ unit' \in UnitRecords /\ unit'.file = unit.file
         /\ call \in {"enable", "disable"} =>
              /\ GoesOn(rest) /\ unit'.reg = unit.reg /\ unit'.live = unit.live
              /\ (unit'.enabled <=> call = "enable")
         /\ call = "bootstrap" /\ Written /\ Unloaded /\ unit.enabled =>
              GoesOn(rest) /\ unit'.reg = unit.file /\ unit'.enabled
         /\ call = "bootstrap" /\ ~(Written /\ Unloaded /\ unit.enabled) => unit' = unit /\ Ends(FALSE, ctl.hurt)
         /\ call = "bootout" =>
              /\ GoesOn(rest) /\ unit'.reg = "none" /\ ((Unloaded /\ unit' = unit) \/ unit'.live = "none")
              /\ unit'.enabled = unit.enabled
<1>1. unit \in UnitRecords /\ "none" \in Contents /\ unit.file \in Contents /\ unit.live \in Contents
  BY DEF UnitsTypes, UnitRecords, Contents
<1>2. /\ unit' = Launchctl(unit, call).unit
      /\ RequireSuccess(call, Launchctl(unit, call).out) => GoesOn(rest)
      /\ ~RequireSuccess(call, Launchctl(unit, call).out) => Ends(FALSE, ctl.hurt)
  <2>1. call \in CallNames \ {"write", "remove", "print", "query", "query-ended", "end"}
    BY DEF CallNames
  <2> QED
    BY <2>1, PlainCall DEF Managed
<1>3. \A u : Fails(u, "missing").unit = u /\ Fails(u, "missing").out = "missing"
  BY DEF Fails
<1>4. RequireSuccess("bootout", "missing") /\ ~RequireSuccess("bootstrap", "missing")
  BY DEF RequireSuccess, Tolerated
<1>5. CASE call = "enable"
  <2>1. Launchctl(unit, call) = Does([unit EXCEPT !.enabled = TRUE])
    BY <1>5 DEF Launchctl
  <2>2. unit' = [unit EXCEPT !.enabled = TRUE] /\ GoesOn(rest)
    BY <1>2, <2>1 DEF Does, RequireSuccess
  <2> QED
    BY <1>1, <1>5, <2>2 DEF UnitRecords
<1>6. CASE call = "disable"
  <2>1. Launchctl(unit, call) = Does([unit EXCEPT !.enabled = FALSE])
    BY <1>6 DEF Launchctl
  <2>2. unit' = [unit EXCEPT !.enabled = FALSE] /\ GoesOn(rest)
    BY <1>2, <2>1 DEF Does, RequireSuccess
  <2> QED
    BY <1>1, <1>6, <2>2 DEF UnitRecords
<1>7. CASE call = "bootstrap" /\ Written /\ Unloaded /\ unit.enabled
  <2>1. Launchctl(unit, call) = Does([unit EXCEPT !.reg = unit.file, !.live = unit.file])
    BY <1>7 DEF Launchctl, Written, Unloaded
  <2>2. unit' = [unit EXCEPT !.reg = unit.file, !.live = unit.file] /\ GoesOn(rest)
    BY <1>2, <2>1 DEF Does, RequireSuccess
  <2> QED
    BY <1>1, <1>7, <2>2 DEF UnitRecords
<1>8. CASE call = "bootstrap" /\ ~(Written /\ Unloaded /\ unit.enabled)
  <2>1. Launchctl(unit, call) = Fails(unit, "missing")
    BY <1>8 DEF Launchctl, Written, Unloaded
  <2>2. unit' = unit /\ Ends(FALSE, ctl.hurt)
    BY <1>2, <1>3, <1>4, <1>8, <2>1
  <2> QED
    BY <1>1, <1>8, <2>2
<1>9. CASE call = "bootout" /\ Unloaded
  <2>1. Launchctl(unit, call) = Fails(unit, "missing")
    BY <1>9 DEF Launchctl, Unloaded
  <2>2. unit' = unit /\ GoesOn(rest)
    BY <1>2, <1>3, <1>4, <1>9, <2>1
  <2> QED
    BY <1>1, <1>9, <2>2 DEF Unloaded
<1>10. CASE call = "bootout" /\ ~Unloaded
  <2>1. Launchctl(unit, call) = Does([unit EXCEPT !.reg = "none", !.live = "none"])
    BY <1>10 DEF Launchctl, Unloaded
  <2>2. unit' = [unit EXCEPT !.reg = "none", !.live = "none"] /\ GoesOn(rest)
    BY <1>2, <2>1 DEF Does, RequireSuccess
  <2> QED
    BY <1>1, <1>10, <2>2 DEF UnitRecords
<1> QED
  BY <1>5, <1>6, <1>7, <1>8, <1>9, <1>10

LEMMA PrintCall ==
  ASSUME UnitsTypes, os = "macos", NEW rest, CallManifest("print", rest) \/ CallManager("print", rest)
  PROVE  unit' = unit /\ (GoesOn(rest) \/ GoesOn(<<"enable">>))
<1>1. CallManager("print", rest)
  BY DEF CallManifest
<1>2. Managed(unit, "print") = Launchctl(unit, "print")
  BY DEF Managed
<1>3. CASE Unloaded
  <2>1. Launchctl(unit, "print") = Fails(unit, "missing")
    BY <1>3 DEF Launchctl, Unloaded
  <2>2. Fails(unit, "missing").unit = unit /\ Fails(unit, "missing").out = "missing" /\ RequireSuccess("print", "missing")
    BY DEF Fails, RequireSuccess, Tolerated
  <2>3. Managed(unit, "print").unit = unit /\ Managed(unit, "print").out = "missing"
    BY <1>2, <2>1, <2>2
  <2> QED
    BY <1>1, <2>2, <2>3 DEF CallManager
<1>4. CASE ~Unloaded
  <2>1. Launchctl(unit, "print") = Does(unit)
    BY <1>4 DEF Launchctl, Unloaded
  <2>2. Does(unit).unit = unit /\ Does(unit).out = "success"
    BY DEF Does
  <2>3. Managed(unit, "print").unit = unit /\ Managed(unit, "print").out = "success"
    BY <1>2, <2>1, <2>2
  <2> QED
    BY <1>1, <2>3 DEF CallManager
<1> QED
  BY <1>3, <1>4

LEMMA WindowsCalls ==
  ASSUME UnitsTypes, os = "windows", NEW rest,
         NEW call \in {"create", "run", "delete", "change-enable", "change-disable"},
         CallManifest(call, rest) \/ CallManager(call, rest)
  PROVE  /\ unit' \in UnitRecords /\ unit'.file = unit.file
         /\ call = "create" =>
              /\ GoesOn(rest) /\ unit'.reg = unit.file /\ unit'.enabled
              /\ unit'.live = unit.live /\ unit'.stray = unit.stray
         /\ call \notin {"create", "run"} /\ Unloaded => unit' = unit
         /\ call \in {"delete", "change-disable"} =>
              /\ GoesOn(rest) /\ unit'.live = unit.live /\ unit'.stray = unit.stray
         /\ call = "delete" => unit'.reg = "none"
         /\ call = "change-disable" => unit'.reg = "none" \/ ~unit'.enabled
         /\ call = "change-enable" => /\ (GoesOn(rest) \/ Ends(FALSE, ctl.hurt))
                                      /\ unit'.reg = unit.reg /\ unit'.live = unit.live /\ unit'.stray = unit.stray
                                      /\ unit' = unit \/ unit'.enabled
         /\ call = "run" => /\ unit'.reg = unit.reg /\ unit'.enabled = unit.enabled
                            /\ ~Unloaded /\ unit.enabled /\ unit.live = "none" => GoesOn(rest)
                            /\ (unit' = unit /\ Ends(FALSE, ctl.hurt)) \/ (GoesOn(rest) /\ ~Unloaded /\ unit.enabled)
<1>1. unit \in UnitRecords /\ "none" \in Contents /\ unit.file \in Contents /\ unit.live \in Contents /\ unit.reg \in Contents
  BY DEF UnitsTypes, UnitRecords, Contents
<1>2. /\ unit' = Schtasks(unit, call).unit
      /\ RequireSuccess(call, Schtasks(unit, call).out) => GoesOn(rest)
      /\ ~RequireSuccess(call, Schtasks(unit, call).out) => Ends(FALSE, ctl.hurt)
  <2>1. call \in CallNames \ {"write", "remove", "print", "query", "query-ended", "end"}
    BY DEF CallNames
  <2> QED
    BY <2>1, PlainCall DEF Managed
<1>3. \A u, out : Fails(u, out).unit = u /\ Fails(u, out).out = out
  BY DEF Fails
<1>4. /\ RequireSuccess("delete", "missing") /\ RequireSuccess("change-disable", "missing")
      /\ ~RequireSuccess("change-enable", "missing")
      /\ ~RequireSuccess("run", "missing") /\ ~RequireSuccess("run", "failed")
  BY DEF RequireSuccess, Tolerated
<1>5. CASE call = "create"
  <2>1. Schtasks(unit, call) = Does([unit EXCEPT !.reg = unit.file, !.enabled = TRUE])
    BY <1>5 DEF Schtasks
  <2>2. unit' = [unit EXCEPT !.reg = unit.file, !.enabled = TRUE] /\ GoesOn(rest)
    BY <1>2, <2>1 DEF Does, RequireSuccess
  <2> QED
    BY <1>1, <1>5, <2>2 DEF UnitRecords
<1>6. CASE call # "create" /\ Unloaded
  <2>1. Schtasks(unit, call) = Fails(unit, "missing")
    BY <1>6 DEF Schtasks, Unloaded
  <2>2. unit' = unit /\ (call \in {"delete", "change-disable"} => GoesOn(rest))
        /\ (call \in {"run", "change-enable"} => Ends(FALSE, ctl.hurt))
    BY <1>2, <1>3, <1>4, <2>1
  <2> QED
    BY <1>1, <1>6, <2>2 DEF Unloaded
<1>7. CASE call = "delete" /\ ~Unloaded
  <2>1. Schtasks(unit, call) = Does([unit EXCEPT !.reg = "none"])
    BY <1>7 DEF Schtasks, Unloaded
  <2>2. unit' = [unit EXCEPT !.reg = "none"] /\ GoesOn(rest)
    BY <1>2, <2>1 DEF Does, RequireSuccess
  <2> QED
    BY <1>1, <1>7, <2>2 DEF UnitRecords
<1>8. CASE call = "change-enable" /\ ~Unloaded
  <2>1. Schtasks(unit, call) = Does([unit EXCEPT !.enabled = TRUE])
    BY <1>8 DEF Schtasks, Unloaded
  <2>2. unit' = [unit EXCEPT !.enabled = TRUE] /\ GoesOn(rest)
    BY <1>2, <2>1 DEF Does, RequireSuccess
  <2> QED
    BY <1>1, <1>8, <2>2 DEF UnitRecords
<1>9. CASE call = "change-disable" /\ ~Unloaded
  <2>1. Schtasks(unit, call) = Does([unit EXCEPT !.enabled = FALSE])
    BY <1>9 DEF Schtasks, Unloaded
  <2>2. unit' = [unit EXCEPT !.enabled = FALSE] /\ GoesOn(rest)
    BY <1>2, <2>1 DEF Does, RequireSuccess
  <2> QED
    BY <1>1, <1>9, <2>2 DEF UnitRecords
<1>10. CASE call = "run" /\ ~Unloaded /\ (~unit.enabled \/ unit.live # "none")
  <2>1. Schtasks(unit, call) = Fails(unit, "failed")
    BY <1>10 DEF Schtasks, Unloaded
  <2>2. Schtasks(unit, call).unit = unit /\ Schtasks(unit, call).out = "failed"
    BY <1>3, <2>1
  <2>3. unit' = unit /\ Ends(FALSE, ctl.hurt)
    <3>1. ~RequireSuccess(call, Schtasks(unit, call).out)
      BY <1>4, <1>10, <2>2
    <3> QED
      BY <1>2, <2>2, <3>1
  <2> QED
    BY <1>1, <1>10, <2>3
<1>11. CASE call = "run" /\ ~Unloaded /\ unit.enabled /\ unit.live = "none"
  <2>1. Schtasks(unit, call) = Does([unit EXCEPT !.live = unit.reg, !.stray = FALSE])
    BY <1>11 DEF Schtasks, Unloaded
  <2>2. unit' = [unit EXCEPT !.live = unit.reg, !.stray = FALSE] /\ GoesOn(rest)
    BY <1>2, <2>1 DEF Does, RequireSuccess
  <2> QED
    BY <1>1, <1>11, <2>2 DEF UnitRecords
<1> QED
  BY <1>5, <1>6, <1>7, <1>8, <1>9, <1>10, <1>11

LEMMA WindowsQueries ==
  ASSUME UnitsTypes, os = "windows", NEW rest,
         NEW call \in {"query", "query-ended"}, CallManifest(call, rest) \/ CallManager(call, rest)
  PROVE  /\ unit' = unit
         /\ call = "query" /\ IsRunning => GoesOn(<<>>)
         /\ call = "query-ended" /\ IsRunning => Ends(FALSE, ctl.hurt)
         /\ ~IsRunning => GoesOn(rest)
<1>1. CallManager(call, rest) /\ Managed(unit, call) = Schtasks(unit, call)
  BY DEF CallManifest, Managed
<1>2. Managed(unit, call).unit = unit /\ RequireSuccess(call, Managed(unit, call).out)
  <2>1. CASE Unloaded
    <3>1. Schtasks(unit, call) = Fails(unit, "missing")
      BY <2>1 DEF Schtasks, Unloaded
    <3>2. Fails(unit, "missing").unit = unit /\ Fails(unit, "missing").out = "missing"
      BY DEF Fails
    <3> QED
      BY <1>1, <3>1, <3>2 DEF RequireSuccess, Tolerated
  <2>2. CASE ~Unloaded
    <3>1. Schtasks(unit, call) = Does(unit)
      BY <2>2 DEF Schtasks, Unloaded
    <3>2. Does(unit).unit = unit /\ Does(unit).out = "success"
      BY DEF Does
    <3> QED
      BY <1>1, <3>1, <3>2 DEF RequireSuccess
  <2> QED
    BY <2>1, <2>2
<1> QED
  BY <1>1, <1>2 DEF CallManager

LEMMA EndCall ==
  ASSUME UnitsTypes, os = "windows", NEW rest, CallManifest("end", rest) \/ CallManager("end", rest)
  PROVE  /\ unit' \in UnitRecords /\ unit'.file = unit.file /\ unit'.reg = unit.reg /\ unit'.enabled = unit.enabled
         /\ \/ Unloaded /\ unit' = unit /\ GoesOn(rest)
            \/ unit'.live = "none" /\ GoesOn(rest)
            \/ unit'.live = "none" /\ GoesOn(<<"query-ended">> \o rest)
<1>1. CallManager("end", rest) /\ Managed(unit, "end") = Schtasks(unit, "end")
  BY DEF CallManifest, Managed
<1>2. unit \in UnitRecords /\ "none" \in Contents
  BY DEF UnitsTypes, Contents
<1>3. \A u, out : Fails(u, out).unit = u /\ Fails(u, out).out = out
  BY DEF Fails
<1>4. CASE Unloaded
  <2>1. Schtasks(unit, "end") = Fails(unit, "missing")
    BY <1>4 DEF Schtasks, Unloaded
  <2>2. Managed(unit, "end").unit = unit /\ Managed(unit, "end").out = "missing" /\ RequireSuccess("end", "missing")
    BY <1>1, <1>3, <2>1 DEF RequireSuccess, Tolerated
  <2>3. unit' = unit /\ GoesOn(rest)
    BY <1>1, <2>2 DEF CallManager
  <2> QED
    BY <1>2, <1>4, <2>3
<1>5. CASE ~Unloaded /\ unit.live = "none"
  <2>1. Schtasks(unit, "end") = Fails(unit, "failed")
    BY <1>5 DEF Schtasks, Unloaded
  <2>2. Managed(unit, "end").unit = unit /\ Managed(unit, "end").out = "failed"
    BY <1>1, <1>3, <2>1
  <2>3. unit' = unit /\ GoesOn(<<"query-ended">> \o rest)
    BY <1>1, <2>2 DEF CallManager
  <2> QED
    BY <1>2, <1>5, <2>3
<1>6. CASE ~Unloaded /\ unit.live # "none"
  <2>1. Schtasks(unit, "end") = Does([unit EXCEPT !.live = "none"])
    BY <1>6 DEF Schtasks, Unloaded
  <2>2. Managed(unit, "end").unit = [unit EXCEPT !.live = "none"] /\ Managed(unit, "end").out = "success"
    BY <1>1, <2>1 DEF Does
  <2>3. unit' = [unit EXCEPT !.live = "none"] /\ GoesOn(rest)
    BY <1>1, <2>2 DEF CallManager, RequireSuccess
  <2> QED
    BY <1>2, <2>3 DEF UnitRecords
<1> QED
  BY <1>4, <1>5, <1>6

LEMMA ListFacts ==
  /\ \A a : Head(<<a>>) = a /\ Tail(<<a>>) = <<>>
  /\ \A a, b : Head(<<a, b>>) = a /\ Tail(<<a, b>>) = <<b>>
  /\ \A a, b, c : Head(<<a, b, c>>) = a /\ Tail(<<a, b, c>>) = <<b, c>>
  /\ \A a, b, c, d : Head(<<a, b, c, d>>) = a /\ Tail(<<a, b, c, d>>) = <<b, c, d>>
  OBVIOUS

Taken(call, rest) == CallManifest(call, rest) \/ CallManager(call, rest)

LEMMA StepTaken ==
  ASSUME ControlStep
  PROVE  /\ \A a : ctl.calls = <<a>> => Taken(a, <<>>)
         /\ \A a, b : ctl.calls = <<a, b>> => Taken(a, <<b>>)
         /\ \A a, b, c : ctl.calls = <<a, b, c>> => Taken(a, <<b, c>>)
         /\ \A a, b, c, d : ctl.calls = <<a, b, c, d>> => Taken(a, <<b, c, d>>)
<1>1. Taken(Head(ctl.calls), Tail(ctl.calls))
  BY DEF ControlStep, Taken
<1>2. ASSUME NEW a, ctl.calls = <<a>> PROVE Taken(a, <<>>)
  BY <1>1, <1>2, ListFacts
<1>3. ASSUME NEW a, NEW b, ctl.calls = <<a, b>> PROVE Taken(a, <<b>>)
  BY <1>1, <1>3, ListFacts
<1>4. ASSUME NEW a, NEW b, NEW c, ctl.calls = <<a, b, c>> PROVE Taken(a, <<b, c>>)
  BY <1>1, <1>4, ListFacts
<1>5. ASSUME NEW a, NEW b, NEW c, NEW d, ctl.calls = <<a, b, c, d>> PROVE Taken(a, <<b, c, d>>)
  BY <1>1, <1>5, ListFacts
<1> QED
  BY <1>2, <1>3, <1>4, <1>5

\* A command goes on, is done, or fails.
LEMMA Goes ==
  ASSUME UnitsTypes, os' = os, unit' \in UnitRecords, NEW verb, NEW calls, At(verb, calls), verb # "none",
         NEW rest \in Seq(CallNames), rest # <<>>, GoesOn(rest)
  PROVE  UnitsTypes' /\ At(verb, rest)' /\ last' = last /\ ctl'.hurt = ctl.hurt /\ ~Quit'
<1>1. /\ ctl' \in CtlRecords /\ last' = last /\ ctl'.verb = ctl.verb /\ ctl'.calls = rest
      /\ ctl'.manifest = ctl.manifest /\ ctl'.hurt = ctl.hurt
  BY GoesOnFacts
<1> QED
  BY <1>1 DEF UnitsTypes, At, Quit

LEMMA IsDone ==
  ASSUME UnitsTypes, os' = os, unit' \in UnitRecords, NEW verb, NEW calls, At(verb, calls), GoesOn(<<>>)
  PROVE  UnitsTypes' /\ Quit' /\ last'.verb = verb /\ last'.ok
<1>1. ctl' \in CtlRecords /\ last' \in LastRecords /\ Quit' /\ last'.verb = ctl.verb /\ last'.ok
  BY DoneFacts
<1> QED
  BY <1>1 DEF UnitsTypes, At

LEMMA Failed ==
  ASSUME UnitsTypes, os' = os, unit' \in UnitRecords, NEW verb, NEW calls, At(verb, calls), Ends(FALSE, ctl.hurt)
  PROVE  UnitsTypes' /\ Quit' /\ last'.verb = verb /\ ~last'.ok /\ (last'.hurt <=> ctl.hurt)
<1>1. ctl.hurt \in BOOLEAN
  BY DEF UnitsTypes, CtlRecords
<1>2. ctl' \in CtlRecords /\ last' \in LastRecords /\ Quit' /\ last'.verb = ctl.verb /\ last'.ok = FALSE /\ last'.hurt = ctl.hurt
  BY <1>1, EndsFacts
<1> QED
  BY <1>2 DEF UnitsTypes, At

LEMMA LinuxStep == ASSUME UnitsInv, os = "linux", ControlStep PROVE UnitsInv'
<1>1. UnitsTypes /\ LinuxInv /\ LinuxPlace /\ ctl.verb # "none" /\ ~Quit
  BY DEF UnitsInv, LinuxInv, ControlStep, CtlIdle, Quit
<1>2. os' = os /\ unit \in UnitRecords
  BY <1>1 DEF ControlStep, UnitsTypes
<1>3. /\ (~unit.up => unit.live = "none") /\ (unit.file = "none" => Off)
      /\ last.verb \in {"install", "stop", "uninstall"} /\ ~last.ok => last.hurt
  BY <1>1 DEF LinuxInv, UnitsInv
<1>4. SUFFICES UnitsTypes' /\ LinuxInv' /\ (last.verb \in {"install", "stop", "uninstall"} /\ ~last.ok => last.hurt)'
  BY <1>2 DEF UnitsInv
<1>5. CASE At("install", <<"write", "daemon-reload", "enable-now">>)
  <2>1. Taken("write", <<"daemon-reload", "enable-now">>)
    BY <1>5, StepTaken DEF At
  <2>2. GoesOn(<<"daemon-reload", "enable-now">>) /\ unit' \in UnitRecords
        /\ unit'.file # "none" /\ unit'.enabled = unit.enabled /\ unit'.up = unit.up /\ unit'.live = unit.live
    BY <1>1, <1>2, <1>3, <1>5, <2>1, WriteCall DEF Taken, At
  <2>3. <<"daemon-reload", "enable-now">> \in Seq(CallNames) /\ <<"daemon-reload", "enable-now">> # <<>>
    BY DEF CallNames
  <2>4. UnitsTypes' /\ At("install", <<"daemon-reload", "enable-now">>)' /\ last' = last /\ ctl'.hurt = ctl.hurt /\ ~Quit'
    BY <1>1, <1>2, <1>5, <2>2, <2>3, Goes
  <2>5. LinuxPlace'
    BY <1>5, <2>2, <2>4 DEF LinuxPlace, Written, Off, Registered
  <2> QED
    BY <1>3, <1>5, <2>2, <2>4, <2>5 DEF LinuxInv, Written, Off, Registered
<1>6. CASE At("install", <<"daemon-reload", "enable-now">>) /\ Written
  <2>1. Taken("daemon-reload", <<"enable-now">>)
    BY <1>6, StepTaken DEF At
  <2>2. GoesOn(<<"enable-now">>) /\ unit' \in UnitRecords
        /\ unit'.file = unit.file /\ unit'.enabled = unit.enabled /\ unit'.up = unit.up /\ unit'.live = unit.live
    BY <1>1, <1>2, <1>3, <1>6, <2>1, LinuxCalls DEF Taken
  <2>3. <<"enable-now">> \in Seq(CallNames) /\ <<"enable-now">> # <<>>
    BY DEF CallNames
  <2>4. UnitsTypes' /\ At("install", <<"enable-now">>)' /\ last' = last /\ ctl'.hurt = ctl.hurt /\ ~Quit'
    BY <1>1, <1>2, <1>6, <2>2, <2>3, Goes
  <2>5. LinuxPlace'
    BY <1>6, <2>2, <2>4 DEF LinuxPlace, Written, Off, Registered
  <2> QED
    BY <1>3, <1>6, <2>2, <2>4, <2>5 DEF LinuxInv, Written, Off, Registered
<1>7. CASE At("install", <<"enable-now">>) /\ Written
  <2>1. Taken("enable-now", <<>>)
    BY <1>7, StepTaken DEF At
  <2>2. GoesOn(<<>>) /\ unit' \in UnitRecords
        /\ unit'.file = unit.file /\ unit'.enabled /\ unit'.up /\ unit'.reg = unit.file
    BY <1>1, <1>2, <1>3, <1>7, <2>1, LinuxCalls DEF Taken
  <2>3. UnitsTypes' /\ Quit' /\ last'.verb = "install" /\ last'.ok
    BY <1>1, <1>2, <1>7, <2>2, IsDone
  <2> QED
    BY <1>3, <1>7, <2>2, <2>3 DEF LinuxInv, LinuxPlace, Written, Off, Registered
<1>8. CASE At("uninstall", <<"disable-now", "remove", "daemon-reload">>)
  <2>1. Taken("disable-now", <<"remove", "daemon-reload">>)
    BY <1>8, StepTaken DEF At
  <2>2. GoesOn(<<"remove", "daemon-reload">>) /\ unit' \in UnitRecords
        /\ unit'.file = unit.file /\ ~unit'.enabled /\ ~unit'.up /\ unit'.live = "none"
    BY <1>1, <1>2, <1>3, <1>8, <2>1, LinuxCalls DEF Taken, Written, Off
  <2>3. <<"remove", "daemon-reload">> \in Seq(CallNames) /\ <<"remove", "daemon-reload">> # <<>>
    BY DEF CallNames
  <2>4. UnitsTypes' /\ At("uninstall", <<"remove", "daemon-reload">>)' /\ last' = last /\ ctl'.hurt = ctl.hurt /\ ~Quit'
    BY <1>1, <1>2, <1>8, <2>2, <2>3, Goes
  <2>5. LinuxPlace'
    BY <1>8, <2>2, <2>4 DEF LinuxPlace, Written, Off, Registered
  <2> QED
    BY <1>3, <1>8, <2>2, <2>4, <2>5 DEF LinuxInv, Written, Off, Registered
<1>9. CASE At("uninstall", <<"remove", "daemon-reload">>) /\ Off
  <2>1. Taken("remove", <<"daemon-reload">>)
    BY <1>9, StepTaken DEF At
  <2>2. ((GoesOn(<<"daemon-reload">>)) \/ (GoesOn(<<>>))) /\ unit' \in UnitRecords
        /\ unit'.enabled = unit.enabled /\ unit'.up = unit.up /\ unit'.live = unit.live
    BY <1>1, <1>2, <1>3, <1>9, <2>1, RemoveCall DEF Taken
  <2>3. CASE GoesOn(<<"daemon-reload">>)
    <3>1. <<"daemon-reload">> \in Seq(CallNames) /\ <<"daemon-reload">> # <<>>
      BY DEF CallNames
    <3>2. UnitsTypes' /\ At("uninstall", <<"daemon-reload">>)' /\ last' = last /\ ctl'.hurt = ctl.hurt /\ ~Quit'
      BY <1>1, <1>2, <1>9, <2>2, <2>3, <3>1, Goes
    <3>3. LinuxPlace'
      BY <1>9, <2>2, <2>3, <3>2 DEF LinuxPlace, Written, Off, Registered
    <3> QED
      BY <1>3, <1>9, <2>2, <2>3, <3>2, <3>3 DEF LinuxInv, Written, Off, Registered
  <2>4. CASE GoesOn(<<>>)
    <3>1. UnitsTypes' /\ Quit' /\ last'.verb = "uninstall" /\ last'.ok
      BY <1>1, <1>2, <1>9, <2>2, <2>4, IsDone
    <3> QED
      BY <1>3, <1>9, <2>2, <2>4, <3>1 DEF LinuxInv, LinuxPlace, Written, Off, Registered
  <2> QED
    BY <2>2, <2>3, <2>4
<1>10. CASE At("uninstall", <<"daemon-reload">>) /\ Off
  <2>1. Taken("daemon-reload", <<>>)
    BY <1>10, StepTaken DEF At
  <2>2. GoesOn(<<>>) /\ unit' \in UnitRecords
        /\ unit'.file = unit.file /\ unit'.enabled = unit.enabled /\ unit'.up = unit.up /\ unit'.live = unit.live
    BY <1>1, <1>2, <1>3, <1>10, <2>1, LinuxCalls DEF Taken
  <2>3. UnitsTypes' /\ Quit' /\ last'.verb = "uninstall" /\ last'.ok
    BY <1>1, <1>2, <1>10, <2>2, IsDone
  <2> QED
    BY <1>3, <1>10, <2>2, <2>3 DEF LinuxInv, LinuxPlace, Written, Off, Registered
<1>11. CASE At("start", <<"enable-now">>)
  <2>1. Taken("enable-now", <<>>)
    BY <1>11, StepTaken DEF At
  <2>2. ((GoesOn(<<>>) /\ Written /\ unit'.enabled /\ unit'.up) \/ (Ends(FALSE, ctl.hurt) /\ unit' = unit)) /\ unit' \in UnitRecords
        /\ unit'.file = unit.file
    BY <1>1, <1>2, <1>3, <1>11, <2>1, LinuxCalls DEF Taken, Written
  <2>3. CASE GoesOn(<<>>) /\ Written /\ unit'.enabled /\ unit'.up
    <3>1. UnitsTypes' /\ Quit' /\ last'.verb = "start" /\ last'.ok
      BY <1>1, <1>2, <1>11, <2>2, <2>3, IsDone
    <3> QED
      BY <1>3, <1>11, <2>2, <2>3, <3>1 DEF LinuxInv, LinuxPlace, Written, Off, Registered
  <2>4. CASE Ends(FALSE, ctl.hurt) /\ unit' = unit
    <3>1. UnitsTypes' /\ Quit' /\ last'.verb = "start" /\ ~last'.ok /\ (last'.hurt <=> ctl.hurt)
      BY <1>1, <1>2, <1>11, <2>2, <2>4, Failed
    <3> QED
      BY <1>3, <1>11, <2>2, <2>4, <3>1 DEF LinuxInv, LinuxPlace, Written, Off, Registered
  <2> QED
    BY <2>2, <2>3, <2>4
<1>12. CASE At("stop", <<"disable-now">>)
  <2>1. Taken("disable-now", <<>>)
    BY <1>12, StepTaken DEF At
  <2>2. GoesOn(<<>>) /\ unit' \in UnitRecords
        /\ unit'.file = unit.file /\ ~unit'.enabled /\ ~unit'.up /\ unit'.live = "none"
    BY <1>1, <1>2, <1>3, <1>12, <2>1, LinuxCalls DEF Taken, Written, Off
  <2>3. UnitsTypes' /\ Quit' /\ last'.verb = "stop" /\ last'.ok
    BY <1>1, <1>2, <1>12, <2>2, IsDone
  <2> QED
    BY <1>3, <1>12, <2>2, <2>3 DEF LinuxInv, LinuxPlace, Written, Off, Registered
<1> QED
  BY <1>1, <1>5, <1>6, <1>7, <1>8, <1>9, <1>10, <1>11, <1>12 DEF LinuxPlace

LEMMA MacosStep == ASSUME UnitsInv, os = "macos", ControlStep PROVE UnitsInv'
<1>1. UnitsTypes /\ MacosInv /\ MacosPlace /\ ctl.verb # "none" /\ ~Quit
  BY DEF UnitsInv, MacosInv, ControlStep, CtlIdle, Quit
<1>2. os' = os /\ unit \in UnitRecords
  BY <1>1 DEF ControlStep, UnitsTypes
<1>3. /\ (Unloaded => unit.live = "none")
      /\ last.verb \in {"install", "stop", "uninstall"} /\ ~last.ok => last.hurt
  BY <1>1 DEF MacosInv, UnitsInv
<1>4. SUFFICES UnitsTypes' /\ MacosInv' /\ (last.verb \in {"install", "stop", "uninstall"} /\ ~last.ok => last.hurt)'
  BY <1>2 DEF UnitsInv
<1>5. CASE At("install", <<"write", "bootout", "enable", "bootstrap">>)
  <2>1. Taken("write", <<"bootout", "enable", "bootstrap">>)
    BY <1>5, StepTaken DEF At
  <2>2. GoesOn(<<"bootout", "enable", "bootstrap">>) /\ unit' \in UnitRecords
        /\ unit'.file # "none" /\ unit'.reg = unit.reg /\ unit'.live = unit.live
    BY <1>1, <1>2, <1>3, <1>5, <2>1, WriteCall DEF Taken, At
  <2>3. <<"bootout", "enable", "bootstrap">> \in Seq(CallNames) /\ <<"bootout", "enable", "bootstrap">> # <<>>
    BY DEF CallNames
  <2>4. UnitsTypes' /\ At("install", <<"bootout", "enable", "bootstrap">>)' /\ last' = last /\ ctl'.hurt = ctl.hurt /\ ~Quit'
    BY <1>1, <1>2, <1>5, <2>2, <2>3, Goes
  <2>5. MacosPlace'
    BY <1>5, <2>2, <2>4 DEF MacosPlace, Written, Unloaded, Registered
  <2> QED
    BY <1>3, <1>5, <2>2, <2>4, <2>5 DEF MacosInv, Written, Unloaded, Registered
<1>6. CASE At("install", <<"bootout", "enable", "bootstrap">>) /\ Written
  <2>1. Taken("bootout", <<"enable", "bootstrap">>)
    BY <1>6, StepTaken DEF At
  <2>2. GoesOn(<<"enable", "bootstrap">>) /\ unit' \in UnitRecords
        /\ unit'.file = unit.file /\ unit'.reg = "none" /\ unit'.live = "none" /\ unit'.enabled = unit.enabled
    BY <1>1, <1>2, <1>3, <1>6, <2>1, MacosCalls DEF Taken, Unloaded
  <2>3. <<"enable", "bootstrap">> \in Seq(CallNames) /\ <<"enable", "bootstrap">> # <<>>
    BY DEF CallNames
  <2>4. UnitsTypes' /\ At("install", <<"enable", "bootstrap">>)' /\ last' = last /\ ctl'.hurt = ctl.hurt /\ ~Quit'
    BY <1>1, <1>2, <1>6, <2>2, <2>3, Goes
  <2>5. MacosPlace'
    BY <1>6, <2>2, <2>4 DEF MacosPlace, Written, Unloaded, Registered
  <2> QED
    BY <1>3, <1>6, <2>2, <2>4, <2>5 DEF MacosInv, Written, Unloaded, Registered
<1>7. CASE At("install", <<"enable", "bootstrap">>) /\ Written /\ Unloaded
  <2>1. Taken("enable", <<"bootstrap">>)
    BY <1>7, StepTaken DEF At
  <2>2. GoesOn(<<"bootstrap">>) /\ unit' \in UnitRecords
        /\ unit'.file = unit.file /\ unit'.enabled /\ unit'.reg = unit.reg /\ unit'.live = unit.live
    BY <1>1, <1>2, <1>3, <1>7, <2>1, MacosCalls DEF Taken
  <2>3. <<"bootstrap">> \in Seq(CallNames) /\ <<"bootstrap">> # <<>>
    BY DEF CallNames
  <2>4. UnitsTypes' /\ At("install", <<"bootstrap">>)' /\ last' = last /\ ctl'.hurt = ctl.hurt /\ ~Quit'
    BY <1>1, <1>2, <1>7, <2>2, <2>3, Goes
  <2>5. MacosPlace'
    BY <1>7, <2>2, <2>4 DEF MacosPlace, Written, Unloaded, Registered
  <2> QED
    BY <1>3, <1>7, <2>2, <2>4, <2>5 DEF MacosInv, Written, Unloaded, Registered
<1>8. CASE At("install", <<"bootstrap">>) /\ Written /\ Unloaded /\ unit.enabled
  <2>1. Taken("bootstrap", <<>>)
    BY <1>8, StepTaken DEF At
  <2>2. GoesOn(<<>>) /\ unit' \in UnitRecords
        /\ unit'.file = unit.file /\ unit'.reg = unit.file /\ unit'.enabled
    BY <1>1, <1>2, <1>3, <1>8, <2>1, MacosCalls DEF Taken
  <2>3. UnitsTypes' /\ Quit' /\ last'.verb = "install" /\ last'.ok
    BY <1>1, <1>2, <1>8, <2>2, IsDone
  <2> QED
    BY <1>3, <1>8, <2>2, <2>3 DEF MacosInv, MacosPlace, Written, Unloaded, Registered
<1>9. CASE At("uninstall", <<"bootout", "remove">>)
  <2>1. Taken("bootout", <<"remove">>)
    BY <1>9, StepTaken DEF At
  <2>2. GoesOn(<<"remove">>) /\ unit' \in UnitRecords
        /\ unit'.reg = "none" /\ unit'.live = "none" /\ unit'.enabled = unit.enabled
    BY <1>1, <1>2, <1>3, <1>9, <2>1, MacosCalls DEF Taken, Unloaded
  <2>3. <<"remove">> \in Seq(CallNames) /\ <<"remove">> # <<>>
    BY DEF CallNames
  <2>4. UnitsTypes' /\ At("uninstall", <<"remove">>)' /\ last' = last /\ ctl'.hurt = ctl.hurt /\ ~Quit'
    BY <1>1, <1>2, <1>9, <2>2, <2>3, Goes
  <2>5. MacosPlace'
    BY <1>9, <2>2, <2>4 DEF MacosPlace, Written, Unloaded, Registered
  <2> QED
    BY <1>3, <1>9, <2>2, <2>4, <2>5 DEF MacosInv, Written, Unloaded, Registered
<1>10. CASE At("uninstall", <<"remove">>) /\ Unloaded
  <2>1. Taken("remove", <<>>)
    BY <1>10, StepTaken DEF At
  <2>2. GoesOn(<<>>) /\ unit' \in UnitRecords
        /\ unit'.file = "none" /\ unit'.reg = unit.reg /\ unit'.live = unit.live
    BY <1>1, <1>2, <1>3, <1>10, <2>1, RemoveCall DEF Taken
  <2>3. UnitsTypes' /\ Quit' /\ last'.verb = "uninstall" /\ last'.ok
    BY <1>1, <1>2, <1>10, <2>2, IsDone
  <2> QED
    BY <1>3, <1>10, <2>2, <2>3 DEF MacosInv, MacosPlace, Written, Unloaded, Registered
<1>11. CASE At("start", <<"print", "enable", "bootstrap">>)
  <2>1. Taken("print", <<"enable", "bootstrap">>)
    BY <1>11, StepTaken DEF At
  <2>2. ((GoesOn(<<"enable", "bootstrap">>)) \/ (GoesOn(<<"enable">>))) /\ unit' \in UnitRecords
        /\ unit' = unit
    BY <1>1, <1>2, <1>3, <1>11, <2>1, PrintCall DEF Taken
  <2>3. CASE GoesOn(<<"enable", "bootstrap">>)
    <3>1. <<"enable", "bootstrap">> \in Seq(CallNames) /\ <<"enable", "bootstrap">> # <<>>
      BY DEF CallNames
    <3>2. UnitsTypes' /\ At("start", <<"enable", "bootstrap">>)' /\ last' = last /\ ctl'.hurt = ctl.hurt /\ ~Quit'
      BY <1>1, <1>2, <1>11, <2>2, <2>3, <3>1, Goes
    <3>3. MacosPlace'
      BY <1>11, <2>2, <2>3, <3>2 DEF MacosPlace, Written, Unloaded, Registered
    <3> QED
      BY <1>3, <1>11, <2>2, <2>3, <3>2, <3>3 DEF MacosInv, Written, Unloaded, Registered
  <2>4. CASE GoesOn(<<"enable">>)
    <3>1. <<"enable">> \in Seq(CallNames) /\ <<"enable">> # <<>>
      BY DEF CallNames
    <3>2. UnitsTypes' /\ At("start", <<"enable">>)' /\ last' = last /\ ctl'.hurt = ctl.hurt /\ ~Quit'
      BY <1>1, <1>2, <1>11, <2>2, <2>4, <3>1, Goes
    <3>3. MacosPlace'
      BY <1>11, <2>2, <2>4, <3>2 DEF MacosPlace, Written, Unloaded, Registered
    <3> QED
      BY <1>3, <1>11, <2>2, <2>4, <3>2, <3>3 DEF MacosInv, Written, Unloaded, Registered
  <2> QED
    BY <2>2, <2>3, <2>4
<1>12. CASE At("start", <<"enable", "bootstrap">>)
  <2>1. Taken("enable", <<"bootstrap">>)
    BY <1>12, StepTaken DEF At
  <2>2. GoesOn(<<"bootstrap">>) /\ unit' \in UnitRecords
        /\ unit'.reg = unit.reg /\ unit'.live = unit.live
    BY <1>1, <1>2, <1>3, <1>12, <2>1, MacosCalls DEF Taken
  <2>3. <<"bootstrap">> \in Seq(CallNames) /\ <<"bootstrap">> # <<>>
    BY DEF CallNames
  <2>4. UnitsTypes' /\ At("start", <<"bootstrap">>)' /\ last' = last /\ ctl'.hurt = ctl.hurt /\ ~Quit'
    BY <1>1, <1>2, <1>12, <2>2, <2>3, Goes
  <2>5. MacosPlace'
    BY <1>12, <2>2, <2>4 DEF MacosPlace, Written, Unloaded, Registered
  <2> QED
    BY <1>3, <1>12, <2>2, <2>4, <2>5 DEF MacosInv, Written, Unloaded, Registered
<1>13. CASE At("start", <<"bootstrap">>)
  <2>1. Taken("bootstrap", <<>>)
    BY <1>13, StepTaken DEF At
  <2>2. ((GoesOn(<<>>) /\ Written /\ unit'.reg = unit.file) \/ (Ends(FALSE, ctl.hurt) /\ unit' = unit)) /\ unit' \in UnitRecords
        /\ unit'.file = unit.file
    BY <1>1, <1>2, <1>3, <1>13, <2>1, MacosCalls DEF Taken
  <2>3. CASE GoesOn(<<>>) /\ Written /\ unit'.reg = unit.file
    <3>1. UnitsTypes' /\ Quit' /\ last'.verb = "start" /\ last'.ok
      BY <1>1, <1>2, <1>13, <2>2, <2>3, IsDone
    <3> QED
      BY <1>3, <1>13, <2>2, <2>3, <3>1 DEF MacosInv, MacosPlace, Written, Unloaded, Registered
  <2>4. CASE Ends(FALSE, ctl.hurt) /\ unit' = unit
    <3>1. UnitsTypes' /\ Quit' /\ last'.verb = "start" /\ ~last'.ok /\ (last'.hurt <=> ctl.hurt)
      BY <1>1, <1>2, <1>13, <2>2, <2>4, Failed
    <3> QED
      BY <1>3, <1>13, <2>2, <2>4, <3>1 DEF MacosInv, MacosPlace, Written, Unloaded, Registered
  <2> QED
    BY <2>2, <2>3, <2>4
<1>14. CASE At("start", <<"enable">>)
  <2>1. Taken("enable", <<>>)
    BY <1>14, StepTaken DEF At
  <2>2. GoesOn(<<>>) /\ unit' \in UnitRecords
        /\ unit'.reg = unit.reg /\ unit'.live = unit.live
    BY <1>1, <1>2, <1>3, <1>14, <2>1, MacosCalls DEF Taken
  <2>3. UnitsTypes' /\ Quit' /\ last'.verb = "start" /\ last'.ok
    BY <1>1, <1>2, <1>14, <2>2, IsDone
  <2> QED
    BY <1>3, <1>14, <2>2, <2>3 DEF MacosInv, MacosPlace, Written, Unloaded, Registered
<1>15. CASE At("stop", <<"disable", "bootout">>)
  <2>1. Taken("disable", <<"bootout">>)
    BY <1>15, StepTaken DEF At
  <2>2. GoesOn(<<"bootout">>) /\ unit' \in UnitRecords
        /\ ~unit'.enabled /\ unit'.reg = unit.reg /\ unit'.live = unit.live
    BY <1>1, <1>2, <1>3, <1>15, <2>1, MacosCalls DEF Taken
  <2>3. <<"bootout">> \in Seq(CallNames) /\ <<"bootout">> # <<>>
    BY DEF CallNames
  <2>4. UnitsTypes' /\ At("stop", <<"bootout">>)' /\ last' = last /\ ctl'.hurt = ctl.hurt /\ ~Quit'
    BY <1>1, <1>2, <1>15, <2>2, <2>3, Goes
  <2>5. MacosPlace'
    BY <1>15, <2>2, <2>4 DEF MacosPlace, Written, Unloaded, Registered
  <2> QED
    BY <1>3, <1>15, <2>2, <2>4, <2>5 DEF MacosInv, Written, Unloaded, Registered
<1>16. CASE At("stop", <<"bootout">>) /\ ~unit.enabled
  <2>1. Taken("bootout", <<>>)
    BY <1>16, StepTaken DEF At
  <2>2. GoesOn(<<>>) /\ unit' \in UnitRecords
        /\ unit'.reg = "none" /\ unit'.live = "none" /\ unit'.enabled = unit.enabled
    BY <1>1, <1>2, <1>3, <1>16, <2>1, MacosCalls DEF Taken, Unloaded
  <2>3. UnitsTypes' /\ Quit' /\ last'.verb = "stop" /\ last'.ok
    BY <1>1, <1>2, <1>16, <2>2, IsDone
  <2> QED
    BY <1>3, <1>16, <2>2, <2>3 DEF MacosInv, MacosPlace, Written, Unloaded, Registered
<1> QED
  BY <1>1, <1>5, <1>6, <1>7, <1>8, <1>9, <1>10, <1>11, <1>12, <1>13, <1>14, <1>15, <1>16 DEF MacosPlace

LEMMA WindowsStep == ASSUME UnitsInv, os = "windows", ControlStep PROVE UnitsInv'
<1>1. UnitsTypes /\ WindowsInv /\ WindowsPlace /\ ctl.verb # "none" /\ ~Quit
  BY DEF UnitsInv, WindowsInv, ControlStep, CtlIdle, Quit
<1>2. os' = os /\ unit \in UnitRecords
  BY <1>1 DEF ControlStep, UnitsTypes
<1>3. /\ ((Unloaded \/ ~unit.enabled) => OnlyStray)
      /\ last.verb \in {"install", "stop", "uninstall"} /\ ~last.ok => last.hurt
  BY <1>1 DEF WindowsInv, UnitsInv
<1>4. SUFFICES UnitsTypes' /\ WindowsInv' /\ (last.verb \in {"install", "stop", "uninstall"} /\ ~last.ok => last.hurt)'
  BY <1>2 DEF UnitsInv
<1>5. CASE At("install", <<"write", "create", "query", "run">>)
  <2>1. Taken("write", <<"create", "query", "run">>)
    BY <1>5, StepTaken DEF At
  <2>2. GoesOn(<<"create", "query", "run">>) /\ unit' \in UnitRecords
        /\ unit'.file # "none" /\ unit'.reg = unit.reg /\ unit'.enabled = unit.enabled /\ unit'.live = unit.live /\ unit'.stray = unit.stray
    BY <1>1, <1>2, <1>3, <1>5, <2>1, WriteCall DEF Taken, At
  <2>3. <<"create", "query", "run">> \in Seq(CallNames) /\ <<"create", "query", "run">> # <<>>
    BY DEF CallNames
  <2>4. UnitsTypes' /\ At("install", <<"create", "query", "run">>)' /\ last' = last /\ ctl'.hurt = ctl.hurt /\ ~Quit'
    BY <1>1, <1>2, <1>5, <2>2, <2>3, Goes
  <2>5. WindowsPlace'
    BY <1>5, <2>2, <2>4 DEF WindowsPlace, Written, Unloaded, Registered, OnlyStray, Fresh
  <2> QED
    BY <1>3, <1>5, <2>2, <2>4, <2>5 DEF WindowsInv, Written, Unloaded, Registered, OnlyStray, Fresh
<1>6. CASE At("install", <<"create", "query", "run">>) /\ Written
  <2>1. Taken("create", <<"query", "run">>)
    BY <1>6, StepTaken DEF At
  <2>2. GoesOn(<<"query", "run">>) /\ unit' \in UnitRecords
        /\ unit'.file = unit.file /\ unit'.reg = unit.file /\ unit'.enabled /\ unit'.live = unit.live /\ unit'.stray = unit.stray
    BY <1>1, <1>2, <1>3, <1>6, <2>1, WindowsCalls DEF Taken
  <2>3. <<"query", "run">> \in Seq(CallNames) /\ <<"query", "run">> # <<>>
    BY DEF CallNames
  <2>4. UnitsTypes' /\ At("install", <<"query", "run">>)' /\ last' = last /\ ctl'.hurt = ctl.hurt /\ ~Quit'
    BY <1>1, <1>2, <1>6, <2>2, <2>3, Goes
  <2>5. WindowsPlace'
    BY <1>6, <2>2, <2>4 DEF WindowsPlace, Written, Unloaded, Registered, OnlyStray, Fresh
  <2> QED
    BY <1>3, <1>6, <2>2, <2>4, <2>5 DEF WindowsInv, Written, Unloaded, Registered, OnlyStray, Fresh
<1>7. CASE At("install", <<"query", "run">>) /\ Registered
  <2>1. Taken("query", <<"run">>)
    BY <1>7, StepTaken DEF At
  <2>2. ((GoesOn(<<>>)) \/ (GoesOn(<<"run">>) /\ (unit.reg = "none" \/ unit.live = "none"))) /\ unit' \in UnitRecords
        /\ unit' = unit
    BY <1>1, <1>2, <1>3, <1>7, <2>1, WindowsQueries DEF Taken, IsRunning
  <2>3. CASE GoesOn(<<>>)
    <3>1. UnitsTypes' /\ Quit' /\ last'.verb = "install" /\ last'.ok
      BY <1>1, <1>2, <1>7, <2>2, <2>3, IsDone
    <3> QED
      BY <1>3, <1>7, <2>2, <2>3, <3>1 DEF WindowsInv, WindowsPlace, Written, Unloaded, Registered, OnlyStray, Fresh
  <2>4. CASE GoesOn(<<"run">>) /\ (unit.reg = "none" \/ unit.live = "none")
    <3>1. <<"run">> \in Seq(CallNames) /\ <<"run">> # <<>>
      BY DEF CallNames
    <3>2. UnitsTypes' /\ At("install", <<"run">>)' /\ last' = last /\ ctl'.hurt = ctl.hurt /\ ~Quit'
      BY <1>1, <1>2, <1>7, <2>2, <2>4, <3>1, Goes
    <3>3. WindowsPlace'
      BY <1>7, <2>2, <2>4, <3>2 DEF WindowsPlace, Written, Unloaded, Registered, OnlyStray, Fresh
    <3> QED
      BY <1>3, <1>7, <2>2, <2>4, <3>2, <3>3 DEF WindowsInv, Written, Unloaded, Registered, OnlyStray, Fresh
  <2> QED
    BY <2>2, <2>3, <2>4
<1>8. CASE At("install", <<"run">>) /\ Registered /\ Fresh
  <2>1. Taken("run", <<>>)
    BY <1>8, StepTaken DEF At
  <2>2. ((GoesOn(<<>>)) \/ (Ends(FALSE, ctl.hurt) /\ unit' = unit /\ ctl.hurt)) /\ unit' \in UnitRecords
        /\ unit'.file = unit.file /\ unit'.reg = unit.reg /\ unit'.enabled = unit.enabled
    BY <1>1, <1>2, <1>3, <1>8, <2>1, WindowsCalls DEF Taken, Registered, Unloaded, Fresh
  <2>3. CASE GoesOn(<<>>)
    <3>1. UnitsTypes' /\ Quit' /\ last'.verb = "install" /\ last'.ok
      BY <1>1, <1>2, <1>8, <2>2, <2>3, IsDone
    <3> QED
      BY <1>3, <1>8, <2>2, <2>3, <3>1 DEF WindowsInv, WindowsPlace, Written, Unloaded, Registered, OnlyStray, Fresh
  <2>4. CASE Ends(FALSE, ctl.hurt) /\ unit' = unit /\ ctl.hurt
    <3>1. UnitsTypes' /\ Quit' /\ last'.verb = "install" /\ ~last'.ok /\ (last'.hurt <=> ctl.hurt)
      BY <1>1, <1>2, <1>8, <2>2, <2>4, Failed
    <3> QED
      BY <1>3, <1>8, <2>2, <2>4, <3>1 DEF WindowsInv, WindowsPlace, Written, Unloaded, Registered, OnlyStray, Fresh
  <2> QED
    BY <2>2, <2>3, <2>4
<1>9. CASE At("uninstall", <<"end", "delete", "remove">>)
  <2>1. Taken("end", <<"delete", "remove">>)
    BY <1>9, StepTaken DEF At
  <2>2. ((GoesOn(<<"delete", "remove">>) /\ ((Unloaded /\ unit' = unit) \/ unit'.live = "none")) \/ (GoesOn(<<"query-ended", "delete", "remove">>) /\ unit'.live = "none")) /\ unit' \in UnitRecords
        /\ unit'.reg = unit.reg /\ unit'.enabled = unit.enabled
    BY <1>1, <1>2, <1>3, <1>9, <2>1, EndCall, Joined DEF Taken
  <2>3. CASE GoesOn(<<"delete", "remove">>) /\ ((Unloaded /\ unit' = unit) \/ unit'.live = "none")
    <3>1. <<"delete", "remove">> \in Seq(CallNames) /\ <<"delete", "remove">> # <<>>
      BY DEF CallNames
    <3>2. UnitsTypes' /\ At("uninstall", <<"delete", "remove">>)' /\ last' = last /\ ctl'.hurt = ctl.hurt /\ ~Quit'
      BY <1>1, <1>2, <1>9, <2>2, <2>3, <3>1, Goes
    <3>3. WindowsPlace'
      BY <1>3, <1>9, <2>2, <2>3, <3>2 DEF WindowsPlace, Written, Unloaded, Registered, OnlyStray, Fresh
    <3> QED
      BY <1>3, <1>9, <2>2, <2>3, <3>2, <3>3 DEF WindowsInv, Written, Unloaded, Registered, OnlyStray, Fresh
  <2>4. CASE GoesOn(<<"query-ended", "delete", "remove">>) /\ unit'.live = "none"
    <3>1. <<"query-ended", "delete", "remove">> \in Seq(CallNames) /\ <<"query-ended", "delete", "remove">> # <<>>
      BY DEF CallNames
    <3>2. UnitsTypes' /\ At("uninstall", <<"query-ended", "delete", "remove">>)' /\ last' = last /\ ctl'.hurt = ctl.hurt /\ ~Quit'
      BY <1>1, <1>2, <1>9, <2>2, <2>4, <3>1, Goes
    <3>3. WindowsPlace'
      BY <1>3, <1>9, <2>2, <2>4, <3>2 DEF WindowsPlace, Written, Unloaded, Registered, OnlyStray, Fresh
    <3> QED
      BY <1>3, <1>9, <2>2, <2>4, <3>2, <3>3 DEF WindowsInv, Written, Unloaded, Registered, OnlyStray, Fresh
  <2> QED
    BY <2>2, <2>3, <2>4
<1>10. CASE At("uninstall", <<"query-ended", "delete", "remove">>) /\ OnlyStray /\ Fresh
  <2>1. Taken("query-ended", <<"delete", "remove">>)
    BY <1>10, StepTaken DEF At
  <2>2. ((Ends(FALSE, ctl.hurt) /\ ctl.hurt) \/ (GoesOn(<<"delete", "remove">>))) /\ unit' \in UnitRecords
        /\ unit' = unit
    BY <1>1, <1>2, <1>3, <1>10, <2>1, WindowsQueries DEF Taken, IsRunning, Fresh
  <2>3. CASE Ends(FALSE, ctl.hurt) /\ ctl.hurt
    <3>1. UnitsTypes' /\ Quit' /\ last'.verb = "uninstall" /\ ~last'.ok /\ (last'.hurt <=> ctl.hurt)
      BY <1>1, <1>2, <1>10, <2>2, <2>3, Failed
    <3> QED
      BY <1>3, <1>10, <2>2, <2>3, <3>1 DEF WindowsInv, WindowsPlace, Written, Unloaded, Registered, OnlyStray, Fresh
  <2>4. CASE GoesOn(<<"delete", "remove">>)
    <3>1. <<"delete", "remove">> \in Seq(CallNames) /\ <<"delete", "remove">> # <<>>
      BY DEF CallNames
    <3>2. UnitsTypes' /\ At("uninstall", <<"delete", "remove">>)' /\ last' = last /\ ctl'.hurt = ctl.hurt /\ ~Quit'
      BY <1>1, <1>2, <1>10, <2>2, <2>4, <3>1, Goes
    <3>3. WindowsPlace'
      BY <1>10, <2>2, <2>4, <3>2 DEF WindowsPlace, Written, Unloaded, Registered, OnlyStray, Fresh
    <3> QED
      BY <1>3, <1>10, <2>2, <2>4, <3>2, <3>3 DEF WindowsInv, Written, Unloaded, Registered, OnlyStray, Fresh
  <2> QED
    BY <2>2, <2>3, <2>4
<1>11. CASE At("uninstall", <<"delete", "remove">>) /\ OnlyStray
  <2>1. Taken("delete", <<"remove">>)
    BY <1>11, StepTaken DEF At
  <2>2. GoesOn(<<"remove">>) /\ unit' \in UnitRecords
        /\ unit'.reg = "none" /\ unit'.live = unit.live /\ unit'.stray = unit.stray
    BY <1>1, <1>2, <1>3, <1>11, <2>1, WindowsCalls DEF Taken
  <2>3. <<"remove">> \in Seq(CallNames) /\ <<"remove">> # <<>>
    BY DEF CallNames
  <2>4. UnitsTypes' /\ At("uninstall", <<"remove">>)' /\ last' = last /\ ctl'.hurt = ctl.hurt /\ ~Quit'
    BY <1>1, <1>2, <1>11, <2>2, <2>3, Goes
  <2>5. WindowsPlace'
    BY <1>11, <2>2, <2>4 DEF WindowsPlace, Written, Unloaded, Registered, OnlyStray, Fresh
  <2> QED
    BY <1>3, <1>11, <2>2, <2>4, <2>5 DEF WindowsInv, Written, Unloaded, Registered, OnlyStray, Fresh
<1>12. CASE At("uninstall", <<"remove">>) /\ OnlyStray /\ Unloaded
  <2>1. Taken("remove", <<>>)
    BY <1>12, StepTaken DEF At
  <2>2. GoesOn(<<>>) /\ unit' \in UnitRecords
        /\ unit'.reg = unit.reg /\ unit'.live = unit.live /\ unit'.stray = unit.stray
    BY <1>1, <1>2, <1>3, <1>12, <2>1, RemoveCall DEF Taken
  <2>3. UnitsTypes' /\ Quit' /\ last'.verb = "uninstall" /\ last'.ok
    BY <1>1, <1>2, <1>12, <2>2, IsDone
  <2> QED
    BY <1>3, <1>12, <2>2, <2>3 DEF WindowsInv, WindowsPlace, Written, Unloaded, Registered, OnlyStray, Fresh
<1>13. CASE At("start", <<"change-enable", "query", "run">>)
  <2>1. Taken("change-enable", <<"query", "run">>)
    BY <1>13, StepTaken DEF At
  <2>2. ((GoesOn(<<"query", "run">>)) \/ (Ends(FALSE, ctl.hurt))) /\ unit' \in UnitRecords
        /\ unit'.reg = unit.reg /\ unit'.live = unit.live /\ unit'.stray = unit.stray /\ (unit' = unit \/ unit'.enabled)
    BY <1>1, <1>2, <1>3, <1>13, <2>1, WindowsCalls DEF Taken, Unloaded
  <2>3. CASE GoesOn(<<"query", "run">>)
    <3>1. <<"query", "run">> \in Seq(CallNames) /\ <<"query", "run">> # <<>>
      BY DEF CallNames
    <3>2. UnitsTypes' /\ At("start", <<"query", "run">>)' /\ last' = last /\ ctl'.hurt = ctl.hurt /\ ~Quit'
      BY <1>1, <1>2, <1>13, <2>2, <2>3, <3>1, Goes
    <3>3. WindowsPlace'
      BY <1>13, <2>2, <2>3, <3>2 DEF WindowsPlace, Written, Unloaded, Registered, OnlyStray, Fresh
    <3> QED
      BY <1>3, <1>13, <2>2, <2>3, <3>2, <3>3 DEF WindowsInv, Written, Unloaded, Registered, OnlyStray, Fresh
  <2>4. CASE Ends(FALSE, ctl.hurt)
    <3>1. UnitsTypes' /\ Quit' /\ last'.verb = "start" /\ ~last'.ok /\ (last'.hurt <=> ctl.hurt)
      BY <1>1, <1>2, <1>13, <2>2, <2>4, Failed
    <3> QED
      BY <1>3, <1>13, <2>2, <2>4, <3>1 DEF WindowsInv, WindowsPlace, Written, Unloaded, Registered, OnlyStray, Fresh
  <2> QED
    BY <2>2, <2>3, <2>4
<1>14. CASE At("start", <<"query", "run">>)
  <2>1. Taken("query", <<"run">>)
    BY <1>14, StepTaken DEF At
  <2>2. ((GoesOn(<<>>)) \/ (GoesOn(<<"run">>))) /\ unit' \in UnitRecords
        /\ unit' = unit
    BY <1>1, <1>2, <1>3, <1>14, <2>1, WindowsQueries DEF Taken
  <2>3. CASE GoesOn(<<>>)
    <3>1. UnitsTypes' /\ Quit' /\ last'.verb = "start" /\ last'.ok
      BY <1>1, <1>2, <1>14, <2>2, <2>3, IsDone
    <3> QED
      BY <1>3, <1>14, <2>2, <2>3, <3>1 DEF WindowsInv, WindowsPlace, Written, Unloaded, Registered, OnlyStray, Fresh
  <2>4. CASE GoesOn(<<"run">>)
    <3>1. <<"run">> \in Seq(CallNames) /\ <<"run">> # <<>>
      BY DEF CallNames
    <3>2. UnitsTypes' /\ At("start", <<"run">>)' /\ last' = last /\ ctl'.hurt = ctl.hurt /\ ~Quit'
      BY <1>1, <1>2, <1>14, <2>2, <2>4, <3>1, Goes
    <3>3. WindowsPlace'
      BY <1>14, <2>2, <2>4, <3>2 DEF WindowsPlace, Written, Unloaded, Registered, OnlyStray, Fresh
    <3> QED
      BY <1>3, <1>14, <2>2, <2>4, <3>2, <3>3 DEF WindowsInv, Written, Unloaded, Registered, OnlyStray, Fresh
  <2> QED
    BY <2>2, <2>3, <2>4
<1>15. CASE At("start", <<"run">>)
  <2>1. Taken("run", <<>>)
    BY <1>15, StepTaken DEF At
  <2>2. ((GoesOn(<<>>) /\ ~Unloaded /\ unit.enabled) \/ (Ends(FALSE, ctl.hurt) /\ unit' = unit)) /\ unit' \in UnitRecords
        /\ unit'.reg = unit.reg /\ unit'.enabled = unit.enabled
    BY <1>1, <1>2, <1>3, <1>15, <2>1, WindowsCalls DEF Taken
  <2>3. CASE GoesOn(<<>>) /\ ~Unloaded /\ unit.enabled
    <3>1. UnitsTypes' /\ Quit' /\ last'.verb = "start" /\ last'.ok
      BY <1>1, <1>2, <1>15, <2>2, <2>3, IsDone
    <3> QED
      BY <1>3, <1>15, <2>2, <2>3, <3>1 DEF WindowsInv, WindowsPlace, Written, Unloaded, Registered, OnlyStray, Fresh
  <2>4. CASE Ends(FALSE, ctl.hurt) /\ unit' = unit
    <3>1. UnitsTypes' /\ Quit' /\ last'.verb = "start" /\ ~last'.ok /\ (last'.hurt <=> ctl.hurt)
      BY <1>1, <1>2, <1>15, <2>2, <2>4, Failed
    <3> QED
      BY <1>3, <1>15, <2>2, <2>4, <3>1 DEF WindowsInv, WindowsPlace, Written, Unloaded, Registered, OnlyStray, Fresh
  <2> QED
    BY <2>2, <2>3, <2>4
<1>16. CASE At("stop", <<"end", "change-disable">>)
  <2>1. Taken("end", <<"change-disable">>)
    BY <1>16, StepTaken DEF At
  <2>2. ((GoesOn(<<"change-disable">>) /\ ((Unloaded /\ unit' = unit) \/ unit'.live = "none")) \/ (GoesOn(<<"query-ended", "change-disable">>) /\ unit'.live = "none")) /\ unit' \in UnitRecords
        /\ unit'.reg = unit.reg /\ unit'.enabled = unit.enabled
    BY <1>1, <1>2, <1>3, <1>16, <2>1, EndCall, Joined DEF Taken
  <2>3. CASE GoesOn(<<"change-disable">>) /\ ((Unloaded /\ unit' = unit) \/ unit'.live = "none")
    <3>1. <<"change-disable">> \in Seq(CallNames) /\ <<"change-disable">> # <<>>
      BY DEF CallNames
    <3>2. UnitsTypes' /\ At("stop", <<"change-disable">>)' /\ last' = last /\ ctl'.hurt = ctl.hurt /\ ~Quit'
      BY <1>1, <1>2, <1>16, <2>2, <2>3, <3>1, Goes
    <3>3. WindowsPlace'
      BY <1>3, <1>16, <2>2, <2>3, <3>2 DEF WindowsPlace, Written, Unloaded, Registered, OnlyStray, Fresh
    <3> QED
      BY <1>3, <1>16, <2>2, <2>3, <3>2, <3>3 DEF WindowsInv, Written, Unloaded, Registered, OnlyStray, Fresh
  <2>4. CASE GoesOn(<<"query-ended", "change-disable">>) /\ unit'.live = "none"
    <3>1. <<"query-ended", "change-disable">> \in Seq(CallNames) /\ <<"query-ended", "change-disable">> # <<>>
      BY DEF CallNames
    <3>2. UnitsTypes' /\ At("stop", <<"query-ended", "change-disable">>)' /\ last' = last /\ ctl'.hurt = ctl.hurt /\ ~Quit'
      BY <1>1, <1>2, <1>16, <2>2, <2>4, <3>1, Goes
    <3>3. WindowsPlace'
      BY <1>3, <1>16, <2>2, <2>4, <3>2 DEF WindowsPlace, Written, Unloaded, Registered, OnlyStray, Fresh
    <3> QED
      BY <1>3, <1>16, <2>2, <2>4, <3>2, <3>3 DEF WindowsInv, Written, Unloaded, Registered, OnlyStray, Fresh
  <2> QED
    BY <2>2, <2>3, <2>4
<1>17. CASE At("stop", <<"query-ended", "change-disable">>) /\ OnlyStray /\ Fresh
  <2>1. Taken("query-ended", <<"change-disable">>)
    BY <1>17, StepTaken DEF At
  <2>2. ((Ends(FALSE, ctl.hurt) /\ ctl.hurt) \/ (GoesOn(<<"change-disable">>))) /\ unit' \in UnitRecords
        /\ unit' = unit
    BY <1>1, <1>2, <1>3, <1>17, <2>1, WindowsQueries DEF Taken, IsRunning, Fresh
  <2>3. CASE Ends(FALSE, ctl.hurt) /\ ctl.hurt
    <3>1. UnitsTypes' /\ Quit' /\ last'.verb = "stop" /\ ~last'.ok /\ (last'.hurt <=> ctl.hurt)
      BY <1>1, <1>2, <1>17, <2>2, <2>3, Failed
    <3> QED
      BY <1>3, <1>17, <2>2, <2>3, <3>1 DEF WindowsInv, WindowsPlace, Written, Unloaded, Registered, OnlyStray, Fresh
  <2>4. CASE GoesOn(<<"change-disable">>)
    <3>1. <<"change-disable">> \in Seq(CallNames) /\ <<"change-disable">> # <<>>
      BY DEF CallNames
    <3>2. UnitsTypes' /\ At("stop", <<"change-disable">>)' /\ last' = last /\ ctl'.hurt = ctl.hurt /\ ~Quit'
      BY <1>1, <1>2, <1>17, <2>2, <2>4, <3>1, Goes
    <3>3. WindowsPlace'
      BY <1>17, <2>2, <2>4, <3>2 DEF WindowsPlace, Written, Unloaded, Registered, OnlyStray, Fresh
    <3> QED
      BY <1>3, <1>17, <2>2, <2>4, <3>2, <3>3 DEF WindowsInv, Written, Unloaded, Registered, OnlyStray, Fresh
  <2> QED
    BY <2>2, <2>3, <2>4
<1>18. CASE At("stop", <<"change-disable">>) /\ OnlyStray
  <2>1. Taken("change-disable", <<>>)
    BY <1>18, StepTaken DEF At
  <2>2. GoesOn(<<>>) /\ unit' \in UnitRecords
        /\ (unit'.reg = "none" \/ ~unit'.enabled) /\ unit'.live = unit.live /\ unit'.stray = unit.stray
    BY <1>1, <1>2, <1>3, <1>18, <2>1, WindowsCalls DEF Taken
  <2>3. UnitsTypes' /\ Quit' /\ last'.verb = "stop" /\ last'.ok
    BY <1>1, <1>2, <1>18, <2>2, IsDone
  <2> QED
    BY <1>3, <1>18, <2>2, <2>3 DEF WindowsInv, WindowsPlace, Written, Unloaded, Registered, OnlyStray, Fresh
<1> QED
  BY <1>1, <1>5, <1>6, <1>7, <1>8, <1>9, <1>10, <1>11, <1>12, <1>13, <1>14, <1>15, <1>16, <1>17, <1>18 DEF WindowsPlace

LEMMA UnitsInvInit == UnitsInit => UnitsInv
<1> SUFFICES ASSUME UnitsInit PROVE UnitsInv
  OBVIOUS
<1>1. /\ os \in {"linux", "macos", "windows"}
      /\ unit = [file |-> "none", reg |-> "none", enabled |-> FALSE, up |-> FALSE, live |-> "none", stray |-> FALSE]
      /\ ctl = [verb |-> "none", calls |-> <<>>, manifest |-> "none", hurt |-> FALSE]
      /\ last = [verb |-> "none", ok |-> TRUE, hurt |-> FALSE]
  BY DEF UnitsInit
<1>2. "none" \in Contents /\ <<>> \in Seq(CallNames)
  BY DEF Contents
<1>3. unit \in UnitRecords /\ ctl \in CtlRecords /\ last \in LastRecords
  BY <1>1, <1>2 DEF UnitRecords, CtlRecords, LastRecords
<1>4. Quit /\ Off /\ unit.live = "none" /\ last.verb = "none"
  BY <1>1 DEF Quit, Off
<1> QED
  BY <1>1, <1>3, <1>4
  DEF UnitsInv, UnitsTypes, LinuxInv, LinuxPlace, MacosInv, MacosPlace, WindowsInv, WindowsPlace, OnlyStray

\* A command starts with all its calls.
LEMMA DispatchFacts ==
  /\ Dispatch("linux", "install") = <<"write", "daemon-reload", "enable-now">>
  /\ Dispatch("linux", "uninstall") = <<"disable-now", "remove", "daemon-reload">>
  /\ Dispatch("linux", "start") = <<"enable-now">>
  /\ Dispatch("linux", "stop") = <<"disable-now">>
  /\ Dispatch("macos", "install") = <<"write", "bootout", "enable", "bootstrap">>
  /\ Dispatch("macos", "uninstall") = <<"bootout", "remove">>
  /\ Dispatch("macos", "start") = <<"print", "enable", "bootstrap">>
  /\ Dispatch("macos", "stop") = <<"disable", "bootout">>
  /\ Dispatch("windows", "install") = <<"write", "create", "query", "run">>
  /\ Dispatch("windows", "uninstall") = <<"end", "delete", "remove">>
  /\ Dispatch("windows", "start") = <<"change-enable", "query", "run">>
  /\ Dispatch("windows", "stop") = <<"end", "change-disable">>
<1>1. WindowsInstall = <<"write", "create", "query", "run">> /\ WindowsStart = <<"change-enable", "query", "run">>
  BY Joined DEF WindowsInstall, WindowsStart, RunUnlessAlreadyRunning
<1>2. \A verb \in Verbs :
        Dispatch("linux", verb) = [install |-> LinuxInstall, uninstall |-> LinuxUninstall,
                                   start |-> LinuxStart, stop |-> LinuxStop][verb]
  BY DEF Dispatch
<1>3. \A verb \in Verbs :
        Dispatch("macos", verb) = [install |-> MacosInstall, uninstall |-> MacosUninstall,
                                   start |-> MacosStart, stop |-> MacosStop][verb]
  BY DEF Dispatch
<1>4. \A verb \in Verbs :
        Dispatch("windows", verb) = [install |-> WindowsInstall, uninstall |-> WindowsUninstall,
                                     start |-> WindowsStart, stop |-> WindowsStop][verb]
  BY DEF Dispatch
<1>5. "install" \in Verbs /\ "uninstall" \in Verbs /\ "start" \in Verbs /\ "stop" \in Verbs
  BY DEF Verbs
<1>6. /\ Dispatch("linux", "install") = LinuxInstall /\ Dispatch("linux", "uninstall") = LinuxUninstall
      /\ Dispatch("linux", "start") = LinuxStart /\ Dispatch("linux", "stop") = LinuxStop
  BY <1>2, <1>5
<1>7. /\ Dispatch("macos", "install") = MacosInstall /\ Dispatch("macos", "uninstall") = MacosUninstall
      /\ Dispatch("macos", "start") = MacosStart /\ Dispatch("macos", "stop") = MacosStop
  BY <1>3, <1>5
<1>8. /\ Dispatch("windows", "install") = WindowsInstall /\ Dispatch("windows", "uninstall") = WindowsUninstall
      /\ Dispatch("windows", "start") = WindowsStart /\ Dispatch("windows", "stop") = WindowsStop
  BY <1>4, <1>5
<1> QED
  BY <1>1, <1>6, <1>7, <1>8
  DEF LinuxInstall, LinuxUninstall, LinuxStart, LinuxStop, MacosInstall, MacosUninstall, MacosStart, MacosStop,
      WindowsUninstall, WindowsStop

LEMMA BeginKeeps ==
  ASSUME UnitsInv, NEW verb \in Verbs, NEW m \in Contents, verb = "install" => m # "none", BeginCommand(verb, m)
  PROVE  UnitsInv'
<1> DEFINE calls == Dispatch(os, verb)
<1>1. /\ ctl' = [verb |-> verb, calls |-> calls, manifest |-> m, hurt |-> FALSE]
      /\ os' = os /\ unit' = unit /\ last' = last
  BY DEF BeginCommand
<1>2. UnitsTypes /\ os \in {"linux", "macos", "windows"} /\ verb # "none"
  BY DEF UnitsInv, UnitsTypes, Verbs
<1>3. calls \in Seq(CallNames)
  <2>1. /\ <<"write", "daemon-reload", "enable-now">> \in Seq(CallNames)
        /\ <<"disable-now", "remove", "daemon-reload">> \in Seq(CallNames)
        /\ <<"enable-now">> \in Seq(CallNames) /\ <<"disable-now">> \in Seq(CallNames)
    BY DEF CallNames
  <2>2. /\ <<"write", "bootout", "enable", "bootstrap">> \in Seq(CallNames)
        /\ <<"bootout", "remove">> \in Seq(CallNames) /\ <<"disable", "bootout">> \in Seq(CallNames)
        /\ <<"print", "enable", "bootstrap">> \in Seq(CallNames)
    BY DEF CallNames
  <2>3. /\ <<"write", "create", "query", "run">> \in Seq(CallNames)
        /\ <<"end", "delete", "remove">> \in Seq(CallNames) /\ <<"end", "change-disable">> \in Seq(CallNames)
        /\ <<"change-enable", "query", "run">> \in Seq(CallNames)
    BY DEF CallNames
  <2>4. verb \in {"install", "uninstall", "start", "stop"}
    BY DEF Verbs
  <2> QED
    BY <1>2, <2>1, <2>2, <2>3, <2>4, DispatchFacts
<1> HIDE DEF calls
<1>4. ctl' \in CtlRecords
  BY <1>1, <1>3 DEF CtlRecords
<1>5. UnitsTypes'
  BY <1>1, <1>2, <1>4 DEF UnitsTypes
<1>6. At(verb, calls)' /\ ~Quit'
  <2>1. ctl'.verb = verb /\ ctl'.calls = calls /\ ctl'.manifest = m
    BY <1>1
  <2>2. calls' = calls
    BY <1>1 DEF calls
  <2> QED
    BY <1>2, <2>1, <2>2 DEF At, Quit
<1>7. verb \in {"install", "uninstall", "start", "stop"} /\ calls' = calls
  BY <1>1 DEF Verbs, calls
<1>8. os = "linux" => LinuxPlace'
  BY <1>6, <1>7, DispatchFacts DEF LinuxPlace, calls
<1>9. os = "macos" => MacosPlace'
  BY <1>6, <1>7, DispatchFacts DEF MacosPlace, calls
<1>10. os = "windows" => WindowsPlace'
  BY <1>6, <1>7, DispatchFacts DEF WindowsPlace, calls
<1> QED
  BY <1>1, <1>5, <1>6, <1>8, <1>9, <1>10
  DEF UnitsInv, LinuxInv, MacosInv, WindowsInv, Off, Unloaded, OnlyStray

\* Only the reload at the end of an uninstall on Linux may fail without a report.
LEMMA FailKeeps == ASSUME UnitsInv, CommandFails PROVE UnitsInv'
<1> DEFINE quiet == ctl.verb = "uninstall" /\ ctl.calls = <<"daemon-reload">>
<1>1. UnitsTypes /\ os' = os /\ unit' = unit /\ (Ends(FALSE, TRUE) \/ (quiet /\ Ends(TRUE, ctl.hurt)))
  BY DEF UnitsInv, CommandFails
<1>2. ctl.hurt \in BOOLEAN
  BY <1>1 DEF UnitsTypes, CtlRecords
<1>3. CASE Ends(FALSE, TRUE)
  <2>1. ctl' \in CtlRecords /\ last' \in LastRecords /\ Quit' /\ last'.ok = FALSE /\ last'.hurt = TRUE
    BY <1>1, <1>3, EndsFacts
  <2>2. UnitsTypes' /\ LinuxPlace' /\ MacosPlace' /\ WindowsPlace'
    BY <1>1, <2>1 DEF UnitsTypes, LinuxPlace, MacosPlace, WindowsPlace
  <2> QED
    BY <1>1, <2>1, <2>2 DEF UnitsInv, LinuxInv, MacosInv, WindowsInv, Off, Unloaded, OnlyStray
<1>4. CASE quiet /\ Ends(TRUE, ctl.hurt)
  <2>1. ctl' \in CtlRecords /\ last' \in LastRecords /\ Quit' /\ last'.verb = "uninstall" /\ last'.ok = TRUE
    BY <1>1, <1>2, <1>4, EndsFacts
  <2>2. UnitsTypes' /\ LinuxPlace' /\ MacosPlace' /\ WindowsPlace'
    BY <1>1, <2>1 DEF UnitsTypes, LinuxPlace, MacosPlace, WindowsPlace
  <2>3. CASE os = "linux"
    <3>1. LinuxPlace /\ Off
      BY <1>4, <2>3 DEF UnitsInv, LinuxInv, LinuxPlace, At, Quit
    <3> QED
      BY <1>1, <2>1, <2>2, <2>3, <3>1 DEF UnitsInv, LinuxInv, Off
  <2>4. CASE os = "macos"
    BY <1>4, <2>4 DEF UnitsInv, MacosInv, MacosPlace, At, Quit
  <2>5. CASE os = "windows"
    BY <1>4, <2>5 DEF UnitsInv, WindowsInv, WindowsPlace, At, Quit
  <2> QED
    BY <1>1, <2>3, <2>4, <2>5 DEF UnitsTypes
<1> QED
  BY <1>1, <1>3, <1>4

\* Nothing is known of the running process but on Windows.
LEMMA LinuxPlaceStays ==
  ASSUME LinuxPlace, ctl'.verb = ctl.verb, ctl'.calls = ctl.calls, ctl'.manifest = ctl.manifest,
         unit'.file = unit.file, unit'.up = unit.up, unit'.enabled = unit.enabled
  PROVE  LinuxPlace'
  BY DEF LinuxPlace, Quit, At, Written, Off

LEMMA MacosPlaceStays ==
  ASSUME MacosPlace, ctl'.verb = ctl.verb, ctl'.calls = ctl.calls, ctl'.manifest = ctl.manifest,
         unit'.file = unit.file, unit'.reg = unit.reg, unit'.enabled = unit.enabled
  PROVE  MacosPlace'
  BY DEF MacosPlace, Quit, At, Written, Unloaded

LEMMA WindowsPlaceStays ==
  ASSUME WindowsPlace, ctl'.verb = ctl.verb, ctl'.calls = ctl.calls, ctl'.manifest = ctl.manifest,
         unit'.file = unit.file, unit'.reg = unit.reg, unit'.enabled = unit.enabled, Fresh => Fresh',
         ctl.verb \in {"stop", "uninstall"} /\ OnlyStray => OnlyStray'
  PROVE  WindowsPlace'
<1>1. CASE Quit
  BY <1>1 DEF WindowsPlace, Quit
<1>2. CASE ctl.verb = "install"
  BY <1>2 DEF WindowsPlace, At, Written, Registered, Quit
<1>3. CASE ctl.verb \in {"stop", "uninstall"}
  BY <1>3 DEF WindowsPlace, At, Unloaded, Quit
<1>4. CASE ctl.verb = "start"
  BY <1>4 DEF WindowsPlace, At, Quit
<1> QED
  BY <1>1, <1>2, <1>3, <1>4 DEF WindowsPlace, At

LEMMA ManagerStartsKeeps == ASSUME UnitsInv, ManagerStarts PROVE UnitsInv'
<1> DEFINE stray == ctl.verb \in {"stop", "uninstall"}
           hurt == ~CtlIdle
<1>1. /\ Keeps(unit) /\ unit.live = "none" /\ os' = os /\ last' = last
      /\ unit' = [unit EXCEPT !.live = unit.reg, !.stray = stray] /\ ctl' = [ctl EXCEPT !.hurt = hurt]
  BY DEF ManagerStarts
<1>2. UnitsTypes /\ unit \in UnitRecords /\ ctl \in CtlRecords /\ unit.reg \in Contents
  BY DEF UnitsInv, UnitsTypes, UnitRecords
<1>3. stray \in BOOLEAN /\ hurt \in BOOLEAN /\ (hurt <=> ctl.verb # "none")
  BY DEF CtlIdle
<1> HIDE DEF stray, hurt
<1>4. /\ unit' \in UnitRecords /\ unit'.file = unit.file /\ unit'.reg = unit.reg /\ unit'.enabled = unit.enabled
      /\ unit'.up = unit.up /\ unit'.live = unit.reg /\ unit'.stray = stray
  BY <1>1, <1>2, <1>3 DEF UnitRecords
<1>5. /\ ctl' \in CtlRecords /\ ctl'.verb = ctl.verb /\ ctl'.calls = ctl.calls /\ ctl'.manifest = ctl.manifest
      /\ ctl'.hurt = hurt
  BY <1>1, <1>2, <1>3 DEF CtlRecords
<1>6. UnitsTypes' /\ (Quit' <=> Quit)
  BY <1>1, <1>2, <1>4, <1>5 DEF UnitsTypes, Quit
<1>7. os = "linux" => LinuxInv'
  <2> SUFFICES ASSUME os = "linux" PROVE LinuxInv'
    OBVIOUS
  <2>1. LinuxInv /\ LinuxPlace /\ unit.up
    BY <1>1 DEF UnitsInv, LinuxInv, Keeps
  <2>2. LinuxPlace'
    BY <1>4, <1>5, <2>1, LinuxPlaceStays
  <2> QED
    BY <1>1, <1>4, <1>6, <2>1, <2>2 DEF LinuxInv, Off, Registered
<1>8. os = "macos" => MacosInv'
  <2> SUFFICES ASSUME os = "macos" PROVE MacosInv'
    OBVIOUS
  <2>1. MacosInv /\ MacosPlace /\ ~Unloaded
    BY <1>1 DEF UnitsInv, MacosInv, Keeps, Unloaded
  <2>2. MacosPlace'
    BY <1>4, <1>5, <2>1, MacosPlaceStays
  <2> QED
    BY <1>1, <1>4, <1>6, <2>1, <2>2 DEF MacosInv, Unloaded, Written, Registered
<1>9. os = "windows" => WindowsInv'
  <2> SUFFICES ASSUME os = "windows" PROVE WindowsInv'
    OBVIOUS
  <2>1. WindowsInv /\ WindowsPlace /\ ~Unloaded /\ unit.enabled
    BY <1>1 DEF UnitsInv, WindowsInv, Keeps, Unloaded
  <2>2. stray <=> ctl.verb \in {"stop", "uninstall"}
    BY DEF stray
  <2>3. WindowsPlace'
    <3>1. CASE Quit
      BY <1>6, <3>1 DEF WindowsPlace
    <3>2. CASE ~Quit
      <4>1. ctl.verb # "none"
        BY <2>1, <3>2 DEF WindowsPlace, At
      <4>2. Fresh'
        BY <1>3, <1>5, <4>1 DEF Fresh
      <4>3. ctl.verb \in {"stop", "uninstall"} => OnlyStray'
        BY <1>4, <2>2 DEF OnlyStray
      <4> QED
        BY <1>4, <1>5, <2>1, <4>2, <4>3, WindowsPlaceStays
    <3> QED
      BY <3>1, <3>2
  <2> QED
    BY <1>1, <1>4, <1>6, <2>1, <2>3 DEF WindowsInv, Unloaded, Registered
<1> QED
  BY <1>1, <1>6, <1>7, <1>8, <1>9 DEF UnitsInv

LEMMA DaemonDiesKeeps == ASSUME UnitsInv, DaemonDies PROVE UnitsInv'
<1>1. unit' = [unit EXCEPT !.live = "none"] /\ os' = os /\ ctl' = ctl /\ last' = last
  BY DEF DaemonDies
<1>2. UnitsTypes /\ unit \in UnitRecords /\ "none" \in Contents
  BY DEF UnitsInv, UnitsTypes, Contents
<1>3. /\ unit' \in UnitRecords /\ unit'.file = unit.file /\ unit'.reg = unit.reg /\ unit'.enabled = unit.enabled
      /\ unit'.up = unit.up /\ unit'.live = "none"
  BY <1>1, <1>2 DEF UnitRecords
<1>4. UnitsTypes' /\ (Quit' <=> Quit)
  BY <1>1, <1>2, <1>3 DEF UnitsTypes, Quit
<1>5. os = "linux" => LinuxInv'
  <2>1. LinuxInv => LinuxPlace'
    BY <1>1, <1>3, LinuxPlaceStays DEF LinuxInv
  <2> QED
    BY <1>1, <1>3, <1>4, <2>1 DEF UnitsInv, LinuxInv, Off, Registered
<1>6. os = "macos" => MacosInv'
  <2>1. MacosInv => MacosPlace'
    BY <1>1, <1>3, MacosPlaceStays DEF MacosInv
  <2> QED
    BY <1>1, <1>3, <1>4, <2>1 DEF UnitsInv, MacosInv, Unloaded, Written, Registered
<1>7. os = "windows" => WindowsInv'
  <2>1. Fresh' /\ OnlyStray'
    BY <1>3 DEF Fresh, OnlyStray
  <2>2. WindowsInv => WindowsPlace'
    BY <1>1, <1>3, <2>1, WindowsPlaceStays DEF WindowsInv
  <2> QED
    BY <1>1, <1>3, <1>4, <2>1, <2>2 DEF UnitsInv, WindowsInv, Unloaded, Registered
<1> QED
  BY <1>1, <1>4, <1>5, <1>6, <1>7 DEF UnitsInv

LEMMA LoginKeeps == ASSUME UnitsInv, Login PROVE UnitsInv'
<1> DEFINE begins == unit.enabled /\ (IF os = "windows" THEN unit.reg # "none" ELSE unit.file # "none")
           up == os = "linux" /\ begins
           reg == IF os = "windows" THEN unit.reg ELSE IF begins THEN unit.file ELSE "none"
<1>1. /\ ctl.verb = "none" /\ os' = os /\ ctl' = ctl /\ last' = last
      /\ unit' = [unit EXCEPT !.live = "none", !.up = up, !.reg = reg]
  BY DEF Login, CtlIdle
<1>2. UnitsTypes /\ unit \in UnitRecords /\ "none" \in Contents /\ unit.file \in Contents /\ unit.reg \in Contents
  BY DEF UnitsInv, UnitsTypes, UnitRecords, Contents
<1>3. up \in BOOLEAN /\ reg \in Contents
  BY <1>2
<1>4. /\ os = "linux" => (up <=> unit.enabled /\ Written) /\ (up => reg = unit.file)
      /\ os = "macos" => reg = IF unit.enabled /\ Written THEN unit.file ELSE "none"
      /\ os = "windows" => reg = unit.reg
  BY DEF Written
<1> HIDE DEF up, reg, begins
<1>5. /\ unit' \in UnitRecords /\ unit'.file = unit.file /\ unit'.enabled = unit.enabled
      /\ unit'.up = up /\ unit'.reg = reg /\ unit'.live = "none"
  BY <1>1, <1>2, <1>3 DEF UnitRecords
<1>6. Quit /\ Quit' /\ UnitsTypes'
  <2>1. Quit
    BY <1>1, <1>2 DEF UnitsInv, LinuxInv, LinuxPlace, MacosInv, MacosPlace, WindowsInv, WindowsPlace, At, UnitsTypes
  <2> QED
    BY <1>1, <1>2, <1>5, <2>1 DEF UnitsTypes, Quit
<1>7. os = "linux" => LinuxInv'
  <2> SUFFICES ASSUME os = "linux" PROVE LinuxInv'
    OBVIOUS
  <2>1. LinuxInv
    BY DEF UnitsInv
  <2> QED
    BY <1>1, <1>4, <1>5, <1>6, <2>1 DEF LinuxInv, LinuxPlace, Off, Registered, Written
<1>8. os = "macos" => MacosInv'
  <2> SUFFICES ASSUME os = "macos" PROVE MacosInv'
    OBVIOUS
  <2>1. MacosInv
    BY DEF UnitsInv
  <2> QED
    BY <1>1, <1>4, <1>5, <1>6, <2>1 DEF MacosInv, MacosPlace, Unloaded, Registered, Written
<1>9. os = "windows" => WindowsInv'
  <2> SUFFICES ASSUME os = "windows" PROVE WindowsInv'
    OBVIOUS
  <2>1. WindowsInv
    BY DEF UnitsInv
  <2> QED
    BY <1>1, <1>4, <1>5, <1>6, <2>1 DEF WindowsInv, WindowsPlace, Unloaded, Registered, OnlyStray
<1> QED
  BY <1>1, <1>6, <1>7, <1>8, <1>9 DEF UnitsInv

LEMMA UnitsInvStep == UnitsInv /\ [UnitsNext]_unitVars => UnitsInv'
<1> SUFFICES ASSUME UnitsInv, [UnitsNext]_unitVars PROVE UnitsInv'
  OBVIOUS
<1>1. ASSUME NEW m \in Manifests, BeginCommand("install", m) PROVE UnitsInv'
  <2>1. m \in Contents /\ m # "none" /\ "install" \in Verbs
    BY UnitsAssumption DEF Contents, Verbs
  <2> QED
    BY <1>1, <2>1, BeginKeeps
<1>2. ASSUME NEW verb \in Verbs \ {"install"}, BeginCommand(verb, "none") PROVE UnitsInv'
  <2>1. "none" \in Contents
    BY DEF Contents
  <2> QED
    BY <1>2, <2>1, BeginKeeps
<1>3. CASE ControlStep
  BY <1>3, LinuxStep, MacosStep, WindowsStep DEF UnitsInv, UnitsTypes
<1>4. CASE CommandFails
  BY <1>4, FailKeeps
<1>5. CASE ManagerStarts
  BY <1>5, ManagerStartsKeeps
<1>6. CASE DaemonDies
  BY <1>6, DaemonDiesKeeps
<1>7. CASE Login
  BY <1>7, LoginKeeps
<1>8. CASE UNCHANGED unitVars
  BY <1>8 DEF unitVars, UnitsInv, UnitsTypes, LinuxInv, LinuxPlace, MacosInv, MacosPlace, WindowsInv, WindowsPlace,
    Quit, At, Off, Written, Unloaded, Registered, OnlyStray, Fresh
<1> QED
  BY <1>1, <1>2, <1>3, <1>4, <1>5, <1>6, <1>7, <1>8 DEF UnitsNext

LEMMA UnitsInvShows == UnitsInv => ControlIsSound
<1> SUFFICES ASSUME UnitsInv PROVE ControlIsSound
  OBVIOUS
<1>1. UnitsTypes /\ os \in {"linux", "macos", "windows"} /\ unit \in UnitRecords /\ ctl \in CtlRecords /\ last \in LastRecords
  BY DEF UnitsInv, UnitsTypes
<1>2. /\ (os = "linux" => LinuxInv /\ LinuxPlace) /\ (os = "macos" => MacosInv /\ MacosPlace)
      /\ (os = "windows" => WindowsInv /\ WindowsPlace)
  BY DEF UnitsInv, LinuxInv, MacosInv, WindowsInv
<1>3. (CtlIdle <=> ctl.calls = <<>>) /\ (CtlIdle <=> Quit)
  <2>1. LinuxPlace => (CtlIdle <=> ctl.calls = <<>>) /\ (CtlIdle <=> Quit)
    BY DEF LinuxPlace, At, Quit, CtlIdle
  <2>2. ASSUME MacosPlace PROVE (CtlIdle <=> ctl.calls = <<>>) /\ (CtlIdle <=> Quit)
    <3>1. CASE Quit
      BY <3>1 DEF Quit, CtlIdle
    <3>2. CASE ~Quit
      <4>1. ctl.verb # "none"
        BY <2>2, <3>2 DEF MacosPlace, At
      <4>2. ctl.calls # <<>>
        <5>1. Len(ctl.calls) \in 1..4
          BY <2>2, <3>2 DEF MacosPlace, At
        <5>2. Len(<<>>) = 0
          OBVIOUS
        <5> QED
          BY <5>1, <5>2
      <4> QED
        BY <3>2, <4>1, <4>2 DEF CtlIdle
    <3> QED
      BY <3>1, <3>2
  <2>3. ASSUME WindowsPlace PROVE (CtlIdle <=> ctl.calls = <<>>) /\ (CtlIdle <=> Quit)
    <3>1. CASE Quit
      BY <3>1 DEF Quit, CtlIdle
    <3>2. CASE ~Quit
      <4>1. ctl.verb # "none"
        BY <2>3, <3>2 DEF WindowsPlace, At
      <4>2. ctl.calls # <<>>
        <5>1. Len(ctl.calls) \in 1..4
          BY <2>3, <3>2 DEF WindowsPlace, At
        <5>2. Len(<<>>) = 0
          OBVIOUS
        <5> QED
          BY <5>1, <5>2
      <4> QED
        BY <3>2, <4>1, <4>2 DEF CtlIdle
    <3> QED
      BY <3>1, <3>2
  <2> QED
    BY <1>1, <1>2, <2>1, <2>2, <2>3
<1>4. UnitsTypeOK
  <2>1. {unit.file, unit.reg, unit.live} \subseteq Contents /\ ctl.verb \in Verbs \cup {"none"}
    BY <1>1 DEF UnitRecords, CtlRecords
  <2>2. os = "macos" /\ unit.reg = "none" => unit.live = "none"
    BY <1>2 DEF MacosInv, Unloaded
  <2> QED
    BY <1>3, <2>1, <2>2 DEF UnitsTypeOK
<1>5. StopMeansDown
  <2> SUFFICES ASSUME Quit, last.verb \in {"stop", "uninstall"}, last.ok
               PROVE  ~Keeps(unit) /\ ((os = "windows" /\ unit.stray) \/ (unit.live = "none" /\ ~DaemonLoaded))
    BY <1>3 DEF StopMeansDown
  <2>1. CASE os = "linux"
    BY <1>2, <2>1 DEF LinuxInv, Off, Keeps, DaemonLoaded, LinuxStatus
  <2>2. CASE os = "macos"
    BY <1>2, <2>2 DEF MacosInv, Unloaded, Keeps, DaemonLoaded, MacosStatus
  <2>3. CASE os = "windows"
    BY <1>2, <2>3 DEF WindowsInv, Unloaded, OnlyStray, Keeps, DaemonLoaded, WindowsStatus, IsRunning
  <2> QED
    BY <1>1, <2>1, <2>2, <2>3
<1>6. InstallRepairs
  <2> SUFFICES ASSUME Quit, last.verb = "install", last.ok
               PROVE  Keeps(unit) /\ unit.file = unit.reg /\ unit.enabled
    BY <1>3 DEF InstallRepairs, UnitsInv
  <2>1. CASE os = "linux"
    BY <1>2, <2>1 DEF LinuxInv, Registered, Keeps
  <2>2. CASE os = "macos"
    BY <1>2, <2>2 DEF MacosInv, Registered, Keeps
  <2>3. CASE os = "windows"
    BY <1>2, <2>3 DEF WindowsInv, Registered, Keeps
  <2> QED
    BY <1>1, <2>1, <2>2, <2>3
<1> QED
  BY <1>4, <1>5, <1>6 DEF ControlIsSound

\* A stop or an uninstall that reports success has stopped the daemon for good (on
\* Windows except for what the repetition started in the middle of it), and an
\* install that is neither failed nor killed nor raced repairs every state that
\* commands, failures, deaths and logins leave: for every number of commands and
\* faults on each of the three platforms (the daemon commands of app-cli).
THEOREM CommandsLeaveTheUnitSound == UnitsSpec => []ControlIsSound
<1>1. UnitsSpec => []UnitsInv
  BY UnitsInvInit, UnitsInvStep, PTL DEF UnitsSpec
<1> QED
  BY <1>1, UnitsInvShows, PTL
=============================================================================
