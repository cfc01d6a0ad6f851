---------------------------- MODULE FilingProofs ----------------------------
(***************************************************************************)
(* Filing's invariants for any number of tasks, repos, texts, issues,       *)
(* commands and incidents; and those of the rows of the workspaces and      *)
(* projects that a filing repo is found in (Stores).                        *)
(***************************************************************************)
EXTENDS Filing, Stores, FiniteSetTheorems, SequenceTheorems, TLAPS

(***************************************************************************)
(* The invariant.  It is inductive because it says of a running command     *)
(* what it has in hand: the row as it is stored, and an issue that is where *)
(* the command will say it is.                                              *)
(***************************************************************************)

(* A row whose sync state fits its remote and its baseline.                 *)
GoodRow(row) ==
  /\ row \in Row
  /\ row.sync # "local_only" \/ row.remote = NoIssue
  /\ row.remote = NoIssue => row.sync \in {"local_only", "staged"}
  /\ row.sync \in {"synced", "dirty_local"} => row.base # None

Rows ==
  /\ task \in [Tasks -> Row \cup {Absent}]
  /\ \A t \in Tasks : task[t] # Absent => GoodRow(task[t])

(* A snapshot can be restored into the row of today.                        *)
Fits(v, row) ==
  /\ v.sync # "local_only" \/ v.remote = NoIssue
  /\ v.remote = NoIssue => v.sync \in {"local_only", "staged"}
  /\ v.sync \in {"synced", "dirty_local"} => row # Absent /\ row.base # None

Snapshots ==
  /\ versions \in [Tasks -> SUBSET Version]
  /\ \A t \in Tasks : \A v \in versions[t] : Fits(v, task[t])

Scalars ==
  /\ default \in MaybeRepo /\ spent \in [Budgets -> Nat]
  /\ filed \subseteq [task : Tasks, repo : Repos, node : Nat]
  /\ marks \in [Tasks -> SUBSET {"reworded", "restaged", "linked", "rolled_back"}]

(* An issue is at one place that it has not left.                           *)
Places ==
  /\ github \in [Repos -> Seq(Place)] /\ nodes \in Nat
  /\ \A r \in Repos : \A n \in 1 .. Len(github[r]) : NodeAt(r, n) \in 1 .. nodes
  /\ \A r, q \in Repos : \A n \in 1 .. Len(github[r]) : \A m \in 1 .. Len(github[q]) :
       NodeAt(r, n) = NodeAt(q, m) /\ ~HasMoved(r, n) /\ ~HasMoved(q, m) => r = q /\ n = m

(* The number in repo r is of the issue that the reference stands for.      *)
Leads(places, r, ref) ==
  /\ r \in Repos /\ ref.number \in 1 .. Len(places[r])
  /\ places[r][ref.number].node = ref.node
  /\ ref.cached \in {0, ref.node}

IsClean(mark) == mark \cap {"linked", "rolled_back"} = {}

Running ==
  {Rest} \cup [pc : {"scan", "create"}, copy : Row]
         \cup [pc : {"created"}, copy : Row, remote : RemoteRef]
         \cup [pc : {"transfer"}, copy : Row, dst : Repos, node : Nat]
         \cup [pc : {"transferred"}, copy : Row, dst : Repos, remote : RemoteRef]

(* A command p on a task with this row and these marks.                     *)
RunsOn(p, row, mark, places) ==
  /\ p \in Running
  /\ p.pc # "idle" => row # Absent /\ p.copy = row
  /\ p.pc \in {"scan", "create", "created"} => row.filing \in Repos /\ row.sync = "staged"
  /\ p.pc = "created" => Leads(places, row.filing, p.remote)
  /\ p.pc \in {"transfer", "transferred"} => Mirrored(row) /\ row.sync = "synced"
  /\ p.pc = "transfer" /\ IsClean(mark) => p.node = row.remote.node
  /\ p.pc = "transferred" => Leads(places, p.dst, p.remote)
  /\ p.pc = "transferred" /\ IsClean(mark) => p.remote.node = row.remote.node

Commands ==
  /\ proc \in [Tasks -> Running]
  /\ \A t \in Tasks : RunsOn(proc[t], task[t], marks[t], github)

Keys ==
  \A s, t \in Tasks : s # t /\ Mirrored(task[s]) /\ Mirrored(task[t]) =>
    <<task[s].filing, task[s].remote.number>> # <<task[t].filing, task[t].remote.number>>

(* A mirrored row that was not linked or rolled back has its filing repo    *)
(* recorded, and leads to its issue there.                                  *)
AtHome(row, mark, places) ==
  Mirrored(row) /\ IsClean(mark) => Leads(places, row.filing, row.remote)

Homes == \A t \in Tasks : AtHome(task[t], marks[t], github)

Unmarked == \A t \in Tasks : marks[t] = {}

Kept(node) == \E t \in Tasks : Mirrored(task[t]) /\ task[t].remote.node = node

(* The next promote of the task finds the issue, or has found it.           *)
Waiting(f) ==
  /\ task[f.task] # Absent /\ ~Mirrored(task[f.task])
  /\ task[f.task].sync = "staged" /\ task[f.task].filing = f.repo
  /\ \E n \in 1 .. Len(github[f.repo]) :
       NodeAt(f.repo, n) = f.node /\ github[f.repo][n].text = task[f.task].text
  /\ proc[f.task].pc \in {"idle", "scan", "created"}
  /\ proc[f.task].pc = "created" => proc[f.task].remote.node = f.node

Recorded ==
  Unmarked =>
    /\ \A t \in Tasks : Mirrored(task[t]) => task[t].sync # "staged"
    /\ \A f \in filed : NeverMoved(f.node) => Kept(f.node) \/ Waiting(f)

Inv == Rows /\ Snapshots /\ Scalars /\ Places /\ Commands /\ Keys /\ Homes /\ Recorded

-----------------------------------------------------------------------------
(* Rows.                                                                    *)

(* A row is not the absent one, which has a sync state of its own.          *)
LEMMA RowIsThere == ASSUME NEW row \in Row PROVE row # Absent
  BY DEF Row, Absent, Sync

(* reconcile_dirty_against_baseline touches the sync state alone, and moves *)
(* it between synced and dirty_local.                                       *)
LEMMA ReconciledIsGood ==
  ASSUME NEW row, GoodRow(row)
  PROVE  /\ GoodRow(Reconciled(row))
         /\ Reconciled(row).text = row.text /\ Reconciled(row).base = row.base
         /\ Reconciled(row).filing = row.filing /\ Reconciled(row).remote = row.remote
         /\ row.sync \notin {"synced", "dirty_local"} => Reconciled(row).sync = row.sync
         /\ Reconciled(row).sync = "staged" => row.sync = "staged"
<1>1. PICK s \in Sync : /\ Reconciled(row) = [row EXCEPT !.sync = s]
                        /\ row.sync \notin {"synced", "dirty_local"} => s = row.sync
                        /\ row.sync \in {"synced", "dirty_local"} => s \in {"synced", "dirty_local"}
  BY DEF Reconciled, GoodRow, Row, Sync
<1> DEFINE new == [row EXCEPT !.sync = s]
<1>2. /\ new \in Row /\ new.sync = s /\ new.text = row.text /\ new.base = row.base
      /\ new.filing = row.filing /\ new.remote = row.remote
  BY DEF GoodRow, Row
<1>3. GoodRow(new)
  BY <1>1, <1>2 DEF GoodRow, Sync
<1> HIDE DEF new
<1>4. QED
  BY <1>1, <1>2, <1>3 DEF new

(* confirm_synced on a row with a remote.                                   *)
LEMMA AlignedIsGood ==
  ASSUME NEW row \in Row, row.remote # NoIssue
  PROVE  /\ GoodRow(Aligned(row))
         /\ Aligned(row).remote = row.remote /\ Aligned(row).filing = row.filing
         /\ Aligned(row).text = row.text /\ Aligned(row).base # None /\ Aligned(row).sync = "synced"
  BY FilingAssumption DEF GoodRow, Aligned, Row, Sync

(* A row fits its own snapshot.                                             *)
LEMMA OwnSnapshotFits ==
  ASSUME NEW row, GoodRow(row)
  PROVE  VersionOf(row) \in Version /\ Fits(VersionOf(row), row)
  BY RowIsThere DEF GoodRow, Row, VersionOf, Version, Fits

(* What a save does to the snapshots.                                       *)
Snapped(t, row) ==
  \/ versions' = versions
  \/ versions' = [s \in Tasks |-> {}]
  \/ versions' = [versions EXCEPT ![t] = {v \in @ : v.remote # row.remote} \cup {VersionOf(row)}]

Stored(t, row) == KeyFree(t, row) /\ task' = [task EXCEPT ![t] = row] /\ Snapped(t, row)

(* A baseline that exists is never taken away.                              *)
KeepsBase(old, row) == old # Absent /\ old.base # None => row.base # None

(* One row is replaced.                                                     *)
LEMMA StoredRow ==
  ASSUME Rows, NEW t \in Tasks, NEW row, Stored(t, row)
  PROVE  task'[t] = row /\ \A s \in Tasks \ {t} : task'[s] = task[s]
  BY DEF Rows, Stored

(* Saving a good row keeps all rows and snapshots good.                     *)
LEMMA StoredKeepsRows ==
  ASSUME Rows, Snapshots, NEW t \in Tasks, NEW row, GoodRow(row), Stored(t, row),
         KeepsBase(task[t], row)
  PROVE  Rows' /\ Snapshots'
<1>1. /\ task' \in [Tasks -> Row \cup {Absent}]
      /\ task'[t] = row /\ \A s \in Tasks \ {t} : task'[s] = task[s]
  BY DEF Rows, Stored, GoodRow
<1>2. \A s \in Tasks : task'[s] # Absent => GoodRow(task'[s])
  BY <1>1 DEF Rows
<1>3. Rows'
  BY <1>1, <1>2 DEF Rows, GoodRow
<1>4. row # Absent
  BY RowIsThere DEF GoodRow
<1>5. \A s \in Tasks : task[s] # Absent /\ task[s].base # None => task'[s] # Absent /\ task'[s].base # None
  BY <1>1, <1>4 DEF KeepsBase
<1>6. ASSUME NEW s \in Tasks, NEW v \in versions'[s],
             versions' \in [Tasks -> SUBSET Version], v \in versions[s] \/ (s = t /\ v = VersionOf(row))
      PROVE  Fits(v, task'[s])
  <2>1. CASE v \in versions[s]
    BY <2>1, <1>5 DEF Snapshots, Fits
  <2>2. CASE s = t /\ v = VersionOf(row)
    BY <2>2, <1>1, OwnSnapshotFits
  <2>3. QED
    BY <2>1, <2>2, <1>6
<1>7. /\ versions' \in [Tasks -> SUBSET Version]
      /\ \A s \in Tasks : \A v \in versions'[s] : v \in versions[s] \/ (s = t /\ v = VersionOf(row))
  <2>1. VersionOf(row) \in Version
    BY OwnSnapshotFits
  <2>2. QED
    BY <2>1 DEF Stored, Snapped, Snapshots
<1>8. \A s \in Tasks : \A v \in versions'[s] : Fits(v, task'[s])
  BY <1>6, <1>7
<1>9. QED
  BY <1>3, <1>7, <1>8 DEF Snapshots, Fits

(* The unique key is kept by every save that asks for it.                   *)
LEMMA StoredKeepsKeys ==
  ASSUME Rows, Keys, NEW t \in Tasks, NEW row, Stored(t, row)
  PROVE  Keys'
<1>1. task'[t] = row /\ \A s \in Tasks \ {t} : task'[s] = task[s]
  BY StoredRow
<1>2. KeyFree(t, row)
  BY DEF Stored
<1>3. QED
  BY <1>1, <1>2 DEF Keys, KeyFree, Mirrored

(* The save that write_task_in_tx performs is such a save.                  *)
LEMMA SaveStores ==
  ASSUME NEW t \in Tasks, NEW row, Save(t, row) PROVE Stored(t, row)
  BY DEF Save, Stored, Snapped

(* A row that keeps its key may be saved.                                   *)
LEMMA SameKeyIsFree ==
  ASSUME Keys, NEW t \in Tasks, NEW row, Mirrored(row) => Mirrored(task[t]),
         row.filing = task[t].filing, row.remote.number = task[t].remote.number
  PROVE  KeyFree(t, row)
  BY DEF Keys, KeyFree

-----------------------------------------------------------------------------
(* GitHub: issues are added and moved, and never leave without a redirect.  *)

Grows ==
  \A r \in Repos : \A n \in 1 .. Len(github[r]) :
    /\ n \in 1 .. Len(github'[r])
    /\ github'[r][n].node = github[r][n].node
    /\ github[r][n].moved # None => github'[r][n].moved # None

(* Where a reference leads does not change.                                 *)
LEMMA LeadsOn ==
  ASSUME Grows, NEW r, NEW ref, Leads(github, r, ref)
  PROVE  Leads(github', r, ref)
  BY DEF Grows, Leads

(* What is known of a command and of a row is not lost to GitHub's users.   *)
LEMMA RunsOnStays ==
  ASSUME Grows, NEW p, NEW row, NEW mark, NEW mark2, RunsOn(p, row, mark, github),
         mark \subseteq mark2
  PROVE  RunsOn(p, row, mark2, github')
<1>1. IsClean(mark2) => IsClean(mark)
  BY DEF IsClean
<1>2. QED
  BY <1>1, LeadsOn DEF RunsOn

(* A row at home stays there while GitHub grows and marks are added.        *)
LEMMA AtHomeStays ==
  ASSUME Grows, NEW row, NEW mark, NEW mark2, AtHome(row, mark, github), mark \subseteq mark2
  PROVE  AtHome(row, mark2, github')
<1>1. IsClean(mark2) => IsClean(mark)
  BY DEF IsClean
<1>2. QED
  BY <1>1, LeadsOn DEF AtHome

(* An issue that is never moved was not moved before.                       *)
LEMMA NeverMovedBefore ==
  ASSUME Grows, NEW node, NeverMoved(node)' PROVE NeverMoved(node)
  BY DEF Grows, NeverMoved, NodeAt, HasMoved

(* A new issue: the next number of its repo, and a node of its own.         *)
LEMMA OpenedPlaces ==
  ASSUME Places, NEW r \in Repos, NEW text \in Texts, Opened(r, text)
  PROVE  /\ Places' /\ Grows
         /\ \A q \in Repos : \A n \in 1 .. Len(github[q]) : github'[q][n] = github[q][n]
         /\ Len(github'[r]) = Len(github[r]) + 1
         /\ github'[r][Len(github[r]) + 1] = [node |-> nodes + 1, text |-> text, moved |-> None]
<1> DEFINE new == [node |-> nodes + 1, text |-> text, moved |-> None]
           last == Len(github[r]) + 1
<1>1. /\ github \in [Repos -> Seq(Place)] /\ nodes \in Nat
      /\ nodes' = nodes + 1 /\ github' = [github EXCEPT ![r] = Append(@, new)]
  BY DEF Places, Opened
<1>2. new \in Place
  BY <1>1 DEF Place
<1>3. \A q \in Repos : github[q] \in Seq(Place) /\ Len(github[q]) \in Nat
  BY <1>1
<1>4. /\ github'[r] = Append(github[r], new)
      /\ \A q \in Repos \ {r} : github'[q] = github[q]
  BY <1>1
<1> HIDE DEF new
<1>5. /\ Append(github[r], new) \in Seq(Place) /\ Len(Append(github[r], new)) = last
      /\ Append(github[r], new)[last] = new
      /\ \A n \in 1 .. Len(github[r]) : Append(github[r], new)[n] = github[r][n]
  BY <1>2, <1>3
<1>6. github' \in [Repos -> Seq(Place)]
  BY <1>1, <1>4, <1>5
<1>7. \A q \in Repos : \A n \in 1 .. Len(github[q]) : n \in 1 .. Len(github'[q]) /\ github'[q][n] = github[q][n]
  BY <1>3, <1>4, <1>5
<1>8. Len(github'[r]) = last /\ github'[r][last] = new
  BY <1>4, <1>5
<1>9. \A q \in Repos : \A n \in 1 .. Len(github'[q]) : n \in 1 .. Len(github[q]) \/ (q = r /\ n = last)
  BY <1>3, <1>4, <1>5
<1>10. new.node = nodes + 1
  BY DEF new
<1>11. \A q \in Repos : \A n \in 1 .. Len(github[q]) : github[q][n].node \in 1 .. nodes
  BY DEF Places, NodeAt
<1>12. \A q \in Repos : \A n \in 1 .. Len(github'[q]) : github'[q][n].node \in 1 .. nodes'
  BY <1>1, <1>7, <1>8, <1>9, <1>10, <1>11
<1>13. \A q, p \in Repos : \A n \in 1 .. Len(github'[q]) : \A m \in 1 .. Len(github'[p]) :
         github'[q][n].node = github'[p][m].node /\ github'[q][n].moved = None /\ github'[p][m].moved = None
           => q = p /\ n = m
  <2> SUFFICES ASSUME NEW q \in Repos, NEW p \in Repos, NEW n \in 1 .. Len(github'[q]),
                      NEW m \in 1 .. Len(github'[p]), github'[q][n].node = github'[p][m].node,
                      github'[q][n].moved = None, github'[p][m].moved = None
               PROVE  q = p /\ n = m
    OBVIOUS
  <2>1. CASE n \in 1 .. Len(github[q]) /\ m \in 1 .. Len(github[p])
    <3>1. github'[q][n] = github[q][n] /\ github'[p][m] = github[p][m]
      BY <2>1, <1>7
    <3>2. QED
      BY <2>1, <3>1 DEF Places, NodeAt, HasMoved
  <2>2. CASE n \notin 1 .. Len(github[q]) \/ m \notin 1 .. Len(github[p])
    BY <2>2, <1>1, <1>7, <1>8, <1>9, <1>10, <1>11
  <2>3. QED
    BY <2>1, <2>2
<1>14. Places'
  BY <1>1, <1>6, <1>12, <1>13 DEF Places, NodeAt, HasMoved
<1>15. QED
  BY <1>7, <1>8, <1>14 DEF Grows, new

(* A move: the same issue at a new place, and a redirect at the old one.    *)
LEMMA MovedPlaces ==
  ASSUME Places, NEW r \in Repos, NEW dst \in Repos, NEW n \in 1 .. Len(github[r]),
         Moved(r, n, dst), nodes' = nodes
  PROVE  /\ Places' /\ Grows
         /\ Len(github'[dst]) = Len(github[dst]) + 1
         /\ github'[dst][Len(github[dst]) + 1].node = NodeAt(r, n)
         /\ HasMoved(r, n)'
         /\ \A q \in Repos : \A m \in 1 .. Len(github[q]) : github'[q][m].text = github[q][m].text
<1> DEFINE last == Len(github[dst]) + 1
           left == [github[r][n] EXCEPT !.moved = <<dst, last>>]
<1>1. /\ github \in [Repos -> Seq(Place)] /\ nodes \in Nat /\ r # dst /\ github[r][n].moved = None
  BY DEF Places, Moved, HasMoved
<1>2. \A q \in Repos : github[q] \in Seq(Place) /\ Len(github[q]) \in Nat
  BY <1>1
<1>3. /\ github'[dst] = Append(github[dst], github[r][n])
      /\ github'[r] = [github[r] EXCEPT ![n] = left]
      /\ \A q \in Repos \ {r, dst} : github'[q] = github[q]
      /\ DOMAIN github' = Repos /\ github' = [q \in Repos |-> github'[q]]
  BY <1>1 DEF Moved
<1>4. github[r][n] \in Place
  BY <1>2
<1>5. /\ left \in Place /\ left.node = github[r][n].node /\ left.text = github[r][n].text
      /\ left.moved # None
  <2>1. <<dst, last>> \in Repos \X Nat
    BY <1>2
  <2>2. <<dst, last>> # None
    BY <2>1, FilingAssumption
  <2> HIDE DEF last
  <2>3. QED
    BY <2>1, <2>2, <1>4 DEF Place
<1> HIDE DEF left
<1>6. /\ Append(github[dst], github[r][n]) \in Seq(Place) /\ Len(Append(github[dst], github[r][n])) = last
      /\ Append(github[dst], github[r][n])[last] = github[r][n]
      /\ \A m \in 1 .. Len(github[dst]) : Append(github[dst], github[r][n])[m] = github[dst][m]
  BY <1>2, <1>4
<1>7. /\ [github[r] EXCEPT ![n] = left] \in Seq(Place)
      /\ Len([github[r] EXCEPT ![n] = left]) = Len(github[r])
      /\ \A m \in 1 .. Len(github[r]) :
           [github[r] EXCEPT ![n] = left][m] = IF m = n THEN left ELSE github[r][m]
  BY <1>2, <1>5, ExceptSeq
<1>8. github' \in [Repos -> Seq(Place)]
  BY <1>1, <1>2, <1>3, <1>6, <1>7
<1>9. \A q \in Repos : \A m \in 1 .. Len(github[q]) :
        /\ m \in 1 .. Len(github'[q])
        /\ github'[q][m].node = github[q][m].node /\ github'[q][m].text = github[q][m].text
        /\ (q = r /\ m = n) \/ github'[q][m].moved = github[q][m].moved
  BY <1>2, <1>3, <1>5, <1>6, <1>7
<1>10. github'[r][n].moved # None
  BY <1>3, <1>5, <1>7
<1>11. Len(github'[dst]) = last /\ github'[dst][last] = github[r][n]
  BY <1>3, <1>6
<1>12. \A q \in Repos : \A m \in 1 .. Len(github'[q]) : m \in 1 .. Len(github[q]) \/ (q = dst /\ m = last)
  <2> SUFFICES ASSUME NEW q \in Repos, NEW m \in 1 .. Len(github'[q])
               PROVE  m \in 1 .. Len(github[q]) \/ (q = dst /\ m = last)
    OBVIOUS
  <2>1. CASE q = dst
    BY <2>1, <1>2, <1>11
  <2>2. CASE q # dst
    BY <2>2, <1>3, <1>7
  <2>3. QED
    BY <2>1, <2>2
<1>13. \A q \in Repos : \A m \in 1 .. Len(github[q]) : github[q][m].node \in 1 .. nodes
  BY DEF Places, NodeAt
<1>14. \A q \in Repos : \A m \in 1 .. Len(github'[q]) : github'[q][m].node \in 1 .. nodes'
  BY <1>9, <1>11, <1>12, <1>13
<1>15. \A q, p \in Repos : \A m \in 1 .. Len(github[q]) : \A k \in 1 .. Len(github[p]) :
         github[q][m].node = github[p][k].node /\ github[q][m].moved = None /\ github[p][k].moved = None
           => q = p /\ m = k
  BY DEF Places, NodeAt, HasMoved
<1>16. \A q, p \in Repos : \A m \in 1 .. Len(github'[q]) : \A k \in 1 .. Len(github'[p]) :
         github'[q][m].node = github'[p][k].node /\ github'[q][m].moved = None /\ github'[p][k].moved = None
           => q = p /\ m = k
  <2> SUFFICES ASSUME NEW q \in Repos, NEW p \in Repos, NEW m \in 1 .. Len(github'[q]),
                      NEW k \in 1 .. Len(github'[p]), github'[q][m].node = github'[p][k].node,
                      github'[q][m].moved = None, github'[p][k].moved = None
               PROVE  q = p /\ m = k
    OBVIOUS
  <2>1. ASSUME NEW u \in Repos, NEW i \in 1 .. Len(github[u]), github'[u][i].moved = None,
               github'[u][i].node = github[r][n].node
        PROVE  FALSE
    <3>1. u # r \/ i # n
      BY <2>1, <1>10
    <3>2. github[u][i].moved = None /\ github[u][i].node = github[r][n].node
      BY <2>1, <3>1, <1>9
    <3>3. QED
      BY <3>1, <3>2, <1>1, <1>15
  <2>2. CASE m \in 1 .. Len(github[q]) /\ k \in 1 .. Len(github[p])
    <3>1. ~(q = r /\ m = n) /\ ~(p = r /\ k = n)
      BY <1>10
    <3>2. /\ github'[q][m].node = github[q][m].node /\ github[q][m].moved = None
          /\ github'[p][k].node = github[p][k].node /\ github[p][k].moved = None
      BY <2>2, <3>1, <1>9
    <3>3. github[q][m].node = github[p][k].node
      BY <3>2
    <3>4. QED
      BY <2>2, <3>2, <3>3, <1>15
  <2>3. CASE m \notin 1 .. Len(github[q])
    BY <2>1, <2>3, <1>11, <1>12
  <2>4. CASE k \notin 1 .. Len(github[p])
    BY <2>1, <2>4, <1>11, <1>12
  <2>5. QED
    BY <2>2, <2>3, <2>4
<1>17. Places'
  BY <1>1, <1>8, <1>14, <1>16 DEF Places, NodeAt, HasMoved
<1>18. Grows
  BY <1>9, <1>10 DEF Grows
<1>19. QED
  BY <1>9, <1>10, <1>11, <1>17, <1>18 DEF NodeAt, HasMoved

(* A push changes the text of one issue.                                    *)
LEMMA PushedPlaces ==
  ASSUME Places, NEW r \in Repos, NEW n \in 1 .. Len(github[r]), NEW text \in Texts,
         github' = [github EXCEPT ![r][n].text = text], nodes' = nodes
  PROVE  /\ Places' /\ Grows
         /\ \A q \in Repos : \A m \in 1 .. Len(github[q]) :
              (q = r /\ m = n) \/ github'[q][m].text = github[q][m].text
<1> DEFINE new == [github[r][n] EXCEPT !.text = text]
<1>1. github \in [Repos -> Seq(Place)] /\ nodes \in Nat
  BY DEF Places
<1>2. \A q \in Repos : github[q] \in Seq(Place) /\ Len(github[q]) \in Nat
  BY <1>1
<1>3. /\ github'[r] = [github[r] EXCEPT ![n] = new]
      /\ \A q \in Repos \ {r} : github'[q] = github[q]
      /\ github' = [q \in Repos |-> github'[q]]
  BY <1>1
<1>4. github[r][n] \in Place
  BY <1>2
<1>5. new \in Place /\ new.node = github[r][n].node /\ new.moved = github[r][n].moved
  BY <1>4 DEF Place
<1> HIDE DEF new
<1>6. /\ [github[r] EXCEPT ![n] = new] \in Seq(Place)
      /\ Len([github[r] EXCEPT ![n] = new]) = Len(github[r])
      /\ \A m \in 1 .. Len(github[r]) :
           [github[r] EXCEPT ![n] = new][m] = IF m = n THEN new ELSE github[r][m]
  BY <1>2, <1>5, ExceptSeq
<1>7. github' \in [Repos -> Seq(Place)]
  BY <1>2, <1>3, <1>6
<1>8. \A q \in Repos :
        /\ Len(github'[q]) = Len(github[q])
        /\ \A m \in 1 .. Len(github[q]) :
             /\ github'[q][m].node = github[q][m].node /\ github'[q][m].moved = github[q][m].moved
             /\ (q = r /\ m = n) \/ github'[q][m].text = github[q][m].text
  BY <1>3, <1>5, <1>6
<1>9. Places'
  BY <1>1, <1>7, <1>8 DEF Places, NodeAt, HasMoved
<1>10. QED
  BY <1>8, <1>9 DEF Grows

-----------------------------------------------------------------------------
(* Steps that rewrite one row of a task at rest.                            *)

MarksGrow ==
  /\ marks' \in [Tasks -> SUBSET {"reworded", "restaged", "linked", "rolled_back"}]
  /\ \A t \in Tasks : marks[t] \subseteq marks'[t]

(* What a row may become in a run without marks: it keeps its issue, is not *)
(* staged once it has one, and a staged row keeps what a retry looks for.   *)
Continues(old, row) ==
  /\ Mirrored(row) => row.sync # "staged"
  /\ Mirrored(old) => Mirrored(row) /\ row.remote.node = old.remote.node
  /\ old # Absent /\ ~Mirrored(old) /\ old.sync = "staged" =>
       /\ ~Mirrored(row) /\ row.sync = "staged" /\ row.text = old.text
       /\ old.filing # None => row.filing = old.filing

(* A task without marks had none before.                                    *)
LEMMA UnmarkedBefore == ASSUME MarksGrow, Unmarked' PROVE Unmarked
  BY DEF MarksGrow, Unmarked

(* A kept issue stays kept as long as no row lets go of its issue.          *)
LEMMA KeptStays ==
  ASSUME NEW node, Kept(node),
         \A s \in Tasks : Mirrored(task[s]) =>
           Mirrored(task'[s]) /\ task'[s].remote.node = task[s].remote.node
  PROVE  Kept(node)'
  BY DEF Kept, Mirrored

(* A row of an idle task is replaced and GitHub is let alone.               *)
LEMMA LocalKeeps ==
  ASSUME Inv, NEW t \in Tasks, NEW row, Idle(t), Stored(t, row), GoodRow(row),
         KeepsBase(task[t], row), MarksGrow, \A s \in Tasks \ {t} : marks'[s] = marks[s],
         AtHome(row, marks'[t], github), Unmarked' => Continues(task[t], row),
         spent' \in [Budgets -> Nat], UNCHANGED <<default, github, nodes, proc, filed>>
  PROVE  Inv'
<1>1. Rows' /\ Snapshots'
  BY StoredKeepsRows DEF Inv
<1>2. Scalars'
  BY DEF Inv, Scalars, MarksGrow
<1>3. Places'
  BY DEF Inv, Places, NodeAt, HasMoved
<1>4. Keys'
  BY StoredKeepsKeys DEF Inv
<1>5. task'[t] = row /\ \A s \in Tasks \ {t} : task'[s] = task[s]
  BY StoredRow DEF Inv
<1>6. Commands'
  <2>1. ASSUME NEW s \in Tasks PROVE RunsOn(proc[s], task'[s], marks'[s], github)
    <3>1. CASE s = t
      BY <3>1 DEF Inv, Commands, RunsOn, Idle
    <3>2. CASE s # t
      BY <3>2, <1>5 DEF Inv, Commands
    <3>3. QED
      BY <3>1, <3>2
  <2>2. QED
    BY <2>1 DEF Inv, Commands, RunsOn
<1>7. Homes'
  <2>1. ASSUME NEW s \in Tasks PROVE AtHome(task'[s], marks'[s], github)
    BY <1>5 DEF Inv, Homes
  <2>2. QED
    BY <2>1 DEF Homes, AtHome
<1>8. Recorded'
  <2> SUFFICES ASSUME Unmarked'
               PROVE  /\ \A s \in Tasks : Mirrored(task'[s]) => task'[s].sync # "staged"
                      /\ \A f \in filed : NeverMoved(f.node)' => Kept(f.node)' \/ Waiting(f)'
    BY DEF Recorded
  <2>1. Unmarked /\ Continues(task[t], row)
    BY UnmarkedBefore
  <2>2. \A s \in Tasks : Mirrored(task'[s]) => task'[s].sync # "staged"
    BY <2>1, <1>5 DEF Inv, Recorded, Continues
  <2>3. ASSUME NEW f \in filed, NeverMoved(f.node)' PROVE Kept(f.node)' \/ Waiting(f)'
    <3>1. NeverMoved(f.node)
      BY <2>3 DEF NeverMoved, NodeAt, HasMoved
    <3>2. CASE Kept(f.node)
      BY <3>2, <2>1, <1>5, KeptStays DEF Continues
    <3>3. CASE Waiting(f)
      <4>1. f.task \in Tasks /\ f.repo \in Repos
        BY DEF Inv, Scalars
      <4>2. /\ task'[f.task] # Absent /\ ~Mirrored(task'[f.task]) /\ task'[f.task].sync = "staged"
            /\ task'[f.task].filing = f.repo /\ task'[f.task].text = task[f.task].text
        <5>1. CASE f.task = t
          BY <5>1, <4>1, <3>3, <2>1, <1>5, RowIsThere, FilingAssumption
             DEF Waiting, Continues, GoodRow
        <5>2. CASE f.task # t
          BY <5>2, <4>1, <3>3, <1>5 DEF Waiting
        <5>3. QED
          BY <5>1, <5>2
      <4>3. QED
        BY <4>1, <4>2, <3>3 DEF Waiting, NodeAt
    <3>4. QED
      BY <3>1, <3>2, <3>3, <2>1 DEF Inv, Recorded
  <2>4. QED
    BY <2>2, <2>3
<1>9. QED
  BY <1>1, <1>2, <1>3, <1>4, <1>6, <1>7, <1>8 DEF Inv


(* Marks and bounds only grow.                                              *)
LEMMA MarksKept == ASSUME Inv, UNCHANGED marks PROVE MarksGrow
  BY DEF Inv, Scalars, MarksGrow

(* A mark is added to one task, which from then on is an exception.         *)
LEMMA MarkAdds ==
  ASSUME Inv, NEW t \in Tasks, NEW m \in {"reworded", "restaged", "linked", "rolled_back"}, Mark(t, m)
  PROVE  /\ MarksGrow /\ m \in marks'[t] /\ ~Unmarked'
         /\ \A s \in Tasks \ {t} : marks'[s] = marks[s]
<1>1. /\ marks'[t] = marks[t] \cup {m} /\ \A s \in Tasks \ {t} : marks'[s] = marks[s]
      /\ marks' \in [Tasks -> SUBSET {"reworded", "restaged", "linked", "rolled_back"}]
  BY DEF Inv, Scalars, Mark
<1>2. QED
  BY <1>1 DEF MarksGrow, Unmarked

(* However a step counts against the bounds, they stay numbers.             *)
LEMMA SpendCounts ==
  ASSUME Inv, NEW t \in Tasks,
         \/ Command(t) \/ Unusual(t) \/ Spend("commands") \/ Spend("incidents") \/ UNCHANGED spent
  PROVE  spent' \in [Budgets -> Nat]
<1>1. spent \in [Budgets -> Nat] /\ "commands" \in Budgets /\ "incidents" \in Budgets
  BY DEF Inv, Scalars, Budgets
<1>2. ASSUME NEW b \in Budgets, Spend(b) PROVE spent' \in [Budgets -> Nat]
  BY <1>1, <1>2 DEF Spend
<1>3. CASE Unusual(t)
  BY <1>1, <1>3, FilingAssumption DEF Unusual
<1>4. QED
  BY <1>1, <1>2, <1>3 DEF Command

(* A task that does not exist runs no command.                              *)
LEMMA AbsentIsIdle == ASSUME Inv, NEW t \in Tasks, task[t] = Absent PROVE Idle(t)
  BY DEF Inv, Commands, RunsOn, Idle

(* A clean mirrored row has recorded where its issue is.                    *)
LEMMA CleanHome ==
  ASSUME Inv, NEW t \in Tasks, Mirrored(task[t]), IsClean(marks[t])
  PROVE  /\ Leads(github, task[t].filing, task[t].remote)
         /\ FilingRepoFor(task[t]) = task[t].filing /\ task[t].filing # None
  BY FilingAssumption DEF Inv, Homes, AtHome, Leads, FilingRepoFor, ResolveFilingRepo

(* TaskService::create.                                                     *)
LEMMA CreateKeeps == ASSUME Inv, NEW t \in Tasks, Create(t) PROVE Inv'
<1>1. PICK text \in Texts, logical \in MaybeRepo, override \in MaybeRepo :
        Local(t, [sync |-> "local_only", text |-> text, base |-> None, logical |-> logical,
                  filing |-> override, remote |-> NoIssue])
  BY DEF Create
<1> DEFINE row == [sync |-> "local_only", text |-> text, base |-> None, logical |-> logical,
                   filing |-> override, remote |-> NoIssue]
<1>2. GoodRow(row) /\ row.remote = NoIssue
  BY DEF GoodRow, Row, Sync, NoIssue, RemoteRef
<1>3. Save(t, row) /\ UNCHANGED <<default, github, nodes, proc, filed, marks, spent>>
  BY <1>1 DEF Local, Create
<1> HIDE DEF row
<1>4. Stored(t, row)
  BY <1>3, SaveStores
<1>5. task[t] = Absent
  BY DEF Create
<1>6. Continues(task[t], row) /\ KeepsBase(task[t], row)
  BY <1>2, <1>5 DEF Continues, Mirrored, KeepsBase
<1>7. AtHome(row, marks'[t], github)
  BY <1>2 DEF AtHome, Mirrored
<1>8. QED
  BY <1>2, <1>3, <1>4, <1>5, <1>6, <1>7, LocalKeeps, MarksKept, SpendCounts, AbsentIsIdle

(* import_one.                                                              *)
LEMMA ImportKeeps == ASSUME Inv, NEW t \in Tasks, Import(t) PROVE Inv'
<1>a. PICK r \in Repos : \E n \in 1 .. Len(github[r]) :
        Local(t, [sync |-> "synced", text |-> github[r][n].text, base |-> github[r][n].text,
                  logical |-> r, filing |-> r,
                  remote |-> [number |-> n, node |-> NodeAt(r, n), cached |-> 0]])
  BY DEF Import
<1>1. PICK n \in 1 .. Len(github[r]) :
        Local(t, [sync |-> "synced", text |-> github[r][n].text, base |-> github[r][n].text,
                  logical |-> r, filing |-> r,
                  remote |-> [number |-> n, node |-> NodeAt(r, n), cached |-> 0]])
  BY <1>a
<1> DEFINE ref == [number |-> n, node |-> NodeAt(r, n), cached |-> 0]
           text == github[r][n].text
           row == [sync |-> "synced", text |-> text, base |-> text,
                   logical |-> r, filing |-> r, remote |-> ref]
<1>2. github[r] \in Seq(Place)
  BY DEF Inv, Places
<1>3. n \in Nat /\ n # 0 /\ github[r][n] \in Place
  BY <1>2
<1>4. text \in Texts /\ ref \in RemoteRef /\ ref # NoIssue
  BY <1>3 DEF Place, RemoteRef, NoIssue, NodeAt
<1>5. Leads(github, r, ref)
  BY DEF Leads, NodeAt
<1>6. Save(t, row) /\ UNCHANGED <<default, github, nodes, proc, filed, marks>> /\ Command(t) /\ task[t] = Absent
  BY <1>1 DEF Local, Import
<1> HIDE DEF ref, text
<1>7. GoodRow(row) /\ row.filing = r /\ row.remote = ref /\ row.sync = "synced"
  <2>1. r \in MaybeRepo /\ text # None
    BY <1>4, FilingAssumption DEF MaybeRepo
  <2>2. QED
    BY <1>4, <2>1 DEF GoodRow, Row, Sync
<1> HIDE DEF row
<1>8. Stored(t, row)
  BY <1>6, SaveStores
<1>9. Continues(task[t], row) /\ KeepsBase(task[t], row)
  BY <1>6, <1>7 DEF Continues, Mirrored, KeepsBase
<1>10. AtHome(row, marks'[t], github)
  BY <1>5, <1>7 DEF AtHome
<1>11. QED
  BY <1>6, <1>7, <1>8, <1>9, <1>10, LocalKeeps, MarksKept, SpendCounts, AbsentIsIdle

(* A row of a task is a good row, and has its fields.                       *)
LEMMA TaskRow ==
  ASSUME Inv, NEW t \in Tasks, task[t] # Absent
  PROVE  /\ GoodRow(task[t]) /\ task[t] \in Row
         /\ (Mirrored(task[t]) <=> task[t].remote # NoIssue)
         /\ AtHome(task[t], marks[t], github)
         /\ Unmarked /\ Mirrored(task[t]) => task[t].sync # "staged"
  BY DEF Inv, Rows, GoodRow, Mirrored, Homes, Recorded

(* A row at home is at home with other contents, and with more marks.       *)
LEMMA SameHome ==
  ASSUME NEW old, NEW row, NEW mark, NEW mark2, AtHome(old, mark, github), old # Absent,
         row.filing = old.filing, row.remote = old.remote, mark \subseteq mark2
  PROVE  AtHome(row, mark2, github)
  BY DEF AtHome, Mirrored, IsClean

(* TaskService::update, the text.                                           *)
LEMMA EditTextKeeps == ASSUME Inv, NEW t \in Tasks, EditText(t) PROVE Inv'
<1>1. PICK text \in Texts : Local(t, Reconciled([task[t] EXCEPT !.text = text]))
  BY DEF EditText
<1> DEFINE edited == [task[t] EXCEPT !.text = text]
<1>2. task[t] # Absent
  BY DEF EditText
<1>3. GoodRow(edited) /\ edited.remote = task[t].remote /\ edited.filing = task[t].filing
      /\ edited.base = task[t].base /\ edited.sync = task[t].sync
  BY <1>2, TaskRow DEF GoodRow, Row
<1>4. Save(t, Reconciled(edited)) /\ UNCHANGED <<default, github, nodes, proc, filed>>
  BY <1>1 DEF Local
<1> HIDE DEF edited
<1> DEFINE row == Reconciled(edited)
<1>5. /\ GoodRow(row) /\ row # Absent /\ row.remote = task[t].remote /\ row.filing = task[t].filing
      /\ row.base = task[t].base
      /\ row.sync = "staged" => task[t].sync = "staged"
  BY <1>3, ReconciledIsGood, RowIsThere DEF GoodRow
<1> HIDE DEF row
<1>6. Stored(t, row) /\ KeepsBase(task[t], row)
  BY <1>4, <1>5, SaveStores DEF row, KeepsBase
<1>7. /\ Idle(t) /\ MarksGrow /\ spent' \in [Budgets -> Nat]
      /\ \A s \in Tasks \ {t} : marks'[s] = marks[s]
      /\ Unmarked' => task[t].sync # "staged"
  BY MarksKept, MarkAdds, SpendCounts DEF EditText, Command, Unusual
<1>8. AtHome(row, marks'[t], github)
  BY <1>2, <1>5, <1>7, TaskRow, SameHome DEF MarksGrow
<1>9. Unmarked' => Continues(task[t], row)
  BY <1>2, <1>5, <1>7 DEF Continues, Mirrored
<1>10. QED
  BY <1>4, <1>5, <1>6, <1>7, <1>8, <1>9, LocalKeeps

(* set_repo_id.                                                             *)
LEMMA EditRepoKeeps == ASSUME Inv, NEW t \in Tasks, EditRepo(t) PROVE Inv'
<1>1. PICK r \in Repos : Local(t, [task[t] EXCEPT !.logical = r])
  BY DEF EditRepo
<1> DEFINE row == [task[t] EXCEPT !.logical = r]
<1>2. task[t] # Absent /\ Command(t) /\ UNCHANGED marks
  BY DEF EditRepo
<1>3. GoodRow(row) /\ row.remote = task[t].remote /\ row.filing = task[t].filing
      /\ row.base = task[t].base /\ row.sync = task[t].sync /\ row.text = task[t].text
  BY <1>2, TaskRow DEF GoodRow, Row, MaybeRepo
<1>4. Save(t, row) /\ UNCHANGED <<default, github, nodes, proc, filed>>
  BY <1>1 DEF Local
<1> HIDE DEF row
<1>5. Stored(t, row) /\ KeepsBase(task[t], row) /\ row # Absent
  BY <1>3, <1>4, SaveStores, RowIsThere DEF KeepsBase, GoodRow
<1>6. Idle(t) /\ MarksGrow /\ spent' \in [Budgets -> Nat]
  BY <1>2, MarksKept, SpendCounts DEF Command
<1>7. AtHome(row, marks'[t], github)
  BY <1>2, <1>3, TaskRow, SameHome
<1>8. Unmarked' => Continues(task[t], row)
  BY <1>2, <1>3, <1>5, <1>6, TaskRow, UnmarkedBefore DEF Continues, Mirrored
<1>9. QED
  BY <1>2, <1>3, <1>4, <1>5, <1>6, <1>7, <1>8, LocalKeeps

(* The filing repo, recorded once: a clean mirrored row has one already.    *)
LEMMA EditFilingKeeps == ASSUME Inv, NEW t \in Tasks, EditFiling(t) PROVE Inv'
<1>1. PICK r \in Repos : Local(t, [task[t] EXCEPT !.filing = r])
  BY DEF EditFiling
<1> DEFINE row == [task[t] EXCEPT !.filing = r]
<1>2. task[t] # Absent /\ Command(t) /\ UNCHANGED marks /\ task[t].filing = None
  BY DEF EditFiling
<1>3. GoodRow(row) /\ row.remote = task[t].remote
      /\ row.base = task[t].base /\ row.sync = task[t].sync /\ row.text = task[t].text
  BY <1>2, TaskRow DEF GoodRow, Row, MaybeRepo
<1>4. Save(t, row) /\ UNCHANGED <<default, github, nodes, proc, filed>>
  BY <1>1 DEF Local
<1> HIDE DEF row
<1>5. Stored(t, row) /\ KeepsBase(task[t], row) /\ row # Absent
  BY <1>3, <1>4, SaveStores, RowIsThere DEF KeepsBase, GoodRow
<1>6. Idle(t) /\ MarksGrow /\ spent' \in [Budgets -> Nat]
  BY <1>2, MarksKept, SpendCounts DEF Command
<1>7. ~(Mirrored(task[t]) /\ IsClean(marks[t]))
  BY <1>2, CleanHome
<1>8. AtHome(row, marks'[t], github)
  BY <1>2, <1>3, <1>7 DEF AtHome, Mirrored
<1>9. Unmarked' => Continues(task[t], row)
  BY <1>2, <1>3, <1>5, <1>6, TaskRow, UnmarkedBefore DEF Continues, Mirrored
<1>10. QED
  BY <1>2, <1>3, <1>4, <1>5, <1>6, <1>8, <1>9, LocalKeeps

(* stage, of a task that was never filed or of a dirty mirrored one.        *)
LEMMA StageKeeps == ASSUME Inv, NEW t \in Tasks, Stage(t) PROVE Inv'
<1> DEFINE row == [task[t] EXCEPT !.sync = "staged"]
<1>1. task[t] # Absent /\ Local(t, row)
  BY DEF Stage
<1>2. GoodRow(row) /\ row.remote = task[t].remote /\ row.filing = task[t].filing
      /\ row.base = task[t].base /\ row.sync = "staged" /\ row.text = task[t].text
  BY <1>1, TaskRow DEF GoodRow, Row, Sync
<1>3. Save(t, row) /\ UNCHANGED <<default, github, nodes, proc, filed>>
  BY <1>1 DEF Local
<1> HIDE DEF row
<1>4. Stored(t, row) /\ KeepsBase(task[t], row) /\ row # Absent
  BY <1>2, <1>3, SaveStores, RowIsThere DEF KeepsBase, GoodRow
<1>5. /\ Idle(t) /\ MarksGrow /\ spent' \in [Budgets -> Nat]
      /\ \A s \in Tasks \ {t} : marks'[s] = marks[s]
      /\ Unmarked' => task[t].sync = "local_only"
  BY MarksKept, MarkAdds, SpendCounts DEF Stage, Command, Unusual
<1>6. AtHome(row, marks'[t], github)
  BY <1>1, <1>2, <1>5, TaskRow, SameHome DEF MarksGrow
<1>7. Unmarked' => Continues(task[t], row)
  BY <1>1, <1>2, <1>4, <1>5, TaskRow DEF Continues, Mirrored, GoodRow
<1>8. QED
  BY <1>2, <1>3, <1>4, <1>5, <1>6, <1>7, LocalKeeps

(* link_to_remote: the mark says that the address may be another's.         *)
LEMMA LinkKeeps == ASSUME Inv, NEW t \in Tasks, Link(t) PROVE Inv'
<1>a. PICK r \in Repos : \E n \in 1 .. Len(github[r]) :
        Local(t, [task[t] EXCEPT !.sync = "conflict", !.logical = r,
                    !.remote = [number |-> n, node |-> NodeAt(r, n), cached |-> 0]])
  BY DEF Link
<1>1. PICK n \in 1 .. Len(github[r]) :
        Local(t, [task[t] EXCEPT !.sync = "conflict", !.logical = r,
                    !.remote = [number |-> n, node |-> NodeAt(r, n), cached |-> 0]])
  BY <1>a
<1> DEFINE ref == [number |-> n, node |-> NodeAt(r, n), cached |-> 0]
           row == [task[t] EXCEPT !.sync = "conflict", !.logical = r, !.remote = ref]
<1>2. github[r] \in Seq(Place)
  BY DEF Inv, Places
<1>3. n \in Nat /\ n # 0 /\ github[r][n] \in Place
  BY <1>2
<1>4. ref \in RemoteRef /\ ref # NoIssue
  BY <1>3 DEF Place, RemoteRef, NoIssue, NodeAt
<1>5. task[t] # Absent /\ Unusual(t) /\ Mark(t, "linked")
  BY DEF Link
<1>6. Save(t, row) /\ UNCHANGED <<default, github, nodes, proc, filed>>
  BY <1>1 DEF Local
<1> HIDE DEF ref
<1>7. GoodRow(row) /\ row.base = task[t].base
  BY <1>4, <1>5, TaskRow DEF GoodRow, Row, Sync, MaybeRepo
<1> HIDE DEF row
<1>8. Stored(t, row) /\ KeepsBase(task[t], row)
  BY <1>6, <1>7, SaveStores DEF KeepsBase
<1>9. /\ Idle(t) /\ MarksGrow /\ spent' \in [Budgets -> Nat] /\ "linked" \in marks'[t]
      /\ ~Unmarked' /\ \A s \in Tasks \ {t} : marks'[s] = marks[s]
  BY <1>5, MarkAdds, SpendCounts DEF Unusual
<1>10. AtHome(row, marks'[t], github)
  BY <1>9 DEF AtHome, IsClean
<1>11. QED
  BY <1>6, <1>7, <1>8, <1>9, <1>10, LocalKeeps

(* relink, which follows one redirect and adopts what is there.             *)
LEMMA RelinkKeeps == ASSUME Inv, NEW t \in Tasks, Relink(t) PROVE Inv'
<1>a. PICK r \in Repos : \E n \in 1 .. Len(github[r]) :
        Local(t, Aligned([task[t] EXCEPT !.text = github[r][n].text, !.logical = r,
                    !.remote = [number |-> n, node |-> NodeAt(r, n), cached |-> NodeAt(r, n)]]))
  BY DEF Relink
<1>1. PICK n \in 1 .. Len(github[r]) :
        Local(t, Aligned([task[t] EXCEPT !.text = github[r][n].text, !.logical = r,
                    !.remote = [number |-> n, node |-> NodeAt(r, n), cached |-> NodeAt(r, n)]]))
  BY <1>a
<1> DEFINE ref == [number |-> n, node |-> NodeAt(r, n), cached |-> NodeAt(r, n)]
           new == [task[t] EXCEPT !.text = github[r][n].text, !.logical = r, !.remote = ref]
<1>2. github[r] \in Seq(Place)
  BY DEF Inv, Places
<1>3. n \in Nat /\ n # 0 /\ github[r][n] \in Place
  BY <1>2
<1>4. ref \in RemoteRef /\ ref # NoIssue /\ github[r][n].text \in Texts
  BY <1>3 DEF Place, RemoteRef, NoIssue, NodeAt
<1>5. task[t] # Absent /\ Unusual(t) /\ Mark(t, "linked")
  BY DEF Relink, Mirrored
<1>6. Save(t, Aligned(new)) /\ UNCHANGED <<default, github, nodes, proc, filed>>
  BY <1>1 DEF Local
<1> HIDE DEF ref
<1>7. new \in Row /\ new.remote = ref
  BY <1>4, <1>5, TaskRow DEF Row, Sync, MaybeRepo
<1> HIDE DEF new
<1> DEFINE row == Aligned(new)
<1>8. GoodRow(row) /\ row.base # None
  BY <1>4, <1>7, AlignedIsGood
<1> HIDE DEF row
<1>9. Stored(t, row) /\ KeepsBase(task[t], row)
  BY <1>6, <1>8, SaveStores DEF KeepsBase, row
<1>10. /\ Idle(t) /\ MarksGrow /\ spent' \in [Budgets -> Nat] /\ "linked" \in marks'[t]
      /\ ~Unmarked' /\ \A s \in Tasks \ {t} : marks'[s] = marks[s]
  BY <1>5, MarkAdds, SpendCounts DEF Unusual
<1>11. AtHome(row, marks'[t], github)
  BY <1>10 DEF AtHome, IsClean
<1>12. QED
  BY <1>6, <1>8, <1>9, <1>10, <1>11, LocalKeeps

(* rollback: a snapshot fits the row it is restored into, because its       *)
(* baseline, which a snapshot does not have, is never taken away.           *)
LEMMA RollbackKeeps == ASSUME Inv, NEW t \in Tasks, Rollback(t) PROVE Inv'
<1>1. PICK v \in versions[t] : Local(t, Restored(task[t], v))
  BY DEF Rollback
<1> DEFINE old == [task[t] EXCEPT !.sync = v.sync, !.text = v.text, !.logical = v.logical,
                                  !.remote = v.remote]
<1>2. task[t] # Absent /\ Unusual(t) /\ Mark(t, "rolled_back")
  BY DEF Rollback
<1>3. v \in Version /\ Fits(v, task[t])
  BY DEF Inv, Snapshots
<1>4. GoodRow(old) /\ old.base = task[t].base
  <2>1. task[t] \in Row /\ task[t].remote \in RemoteRef
    BY <1>2, TaskRow DEF Row
  <2>2. /\ old \in Row /\ old.sync = v.sync /\ old.remote = v.remote /\ old.base = task[t].base
    BY <1>3, <2>1 DEF Row, Version
  <2> HIDE DEF old
  <2>3. QED
    BY <1>3, <2>2 DEF GoodRow, Fits
<1>5. Save(t, Reconciled(old)) /\ UNCHANGED <<default, github, nodes, proc, filed>>
  BY <1>1 DEF Local, Restored
<1> HIDE DEF old
<1> DEFINE row == Reconciled(old)
<1>6. GoodRow(row) /\ row.base = task[t].base
  BY <1>4, ReconciledIsGood
<1> HIDE DEF row
<1>7. Stored(t, row) /\ KeepsBase(task[t], row)
  BY <1>5, <1>6, SaveStores DEF KeepsBase, row
<1>8. /\ Idle(t) /\ MarksGrow /\ spent' \in [Budgets -> Nat] /\ "rolled_back" \in marks'[t]
      /\ ~Unmarked' /\ \A s \in Tasks \ {t} : marks'[s] = marks[s]
  BY <1>2, MarkAdds, SpendCounts DEF Unusual
<1>9. AtHome(row, marks'[t], github)
  BY <1>8 DEF AtHome, IsClean
<1>10. QED
  BY <1>5, <1>6, <1>7, <1>8, <1>9, LocalKeeps

(* pull: the node id that it learns is that of the issue at the address.    *)
LEMMA PullKeeps == ASSUME Inv, NEW t \in Tasks, Pull(t) PROVE Inv'
<1>a. PICK r \in Repos : \E n \in 1 .. Len(github[r]) :
        /\ AtIssue(task[t], r, n)
        /\ LET text == github[r][n].text
               row  == [task[t] EXCEPT !.remote.cached = IF @ = 0 THEN NodeAt(r, n) ELSE @]
           IN  \/ Save(t, Aligned([row EXCEPT !.text = text]))
               \/ task' = [task EXCEPT ![t] = row] /\ UNCHANGED versions
  BY DEF Pull
<1>1. PICK n \in 1 .. Len(github[r]) :
        /\ AtIssue(task[t], r, n)
        /\ LET text == github[r][n].text
               row  == [task[t] EXCEPT !.remote.cached = IF @ = 0 THEN NodeAt(r, n) ELSE @]
           IN  \/ Save(t, Aligned([row EXCEPT !.text = text]))
               \/ task' = [task EXCEPT ![t] = row] /\ UNCHANGED versions
  BY <1>a
<1> DEFINE ref == [task[t].remote EXCEPT !.cached = IF @ = 0 THEN NodeAt(r, n) ELSE @]
           learnt == [task[t] EXCEPT !.remote = ref]
           adopted == [learnt EXCEPT !.text = github[r][n].text]
<1>2. /\ Mirrored(task[t]) /\ task[t] # Absent /\ task[t].sync # "staged"
      /\ Command(t) /\ UNCHANGED <<default, github, nodes, proc, filed, marks>>
  BY DEF Pull, Mirrored
<1>3. r = FilingRepoFor(task[t]) /\ n = task[t].remote.number
  BY <1>1 DEF AtIssue
<1>4. github[r] \in Seq(Place)
  BY DEF Inv, Places
<1>5. n \in Nat /\ n # 0 /\ github[r][n] \in Place
  BY <1>4
<1>6. github[r][n].text \in Texts /\ NodeAt(r, n) \in Nat
  BY <1>5 DEF Place, NodeAt
<1>7. task[t] \in Row /\ task[t].remote \in RemoteRef /\ GoodRow(task[t])
  BY <1>2, TaskRow DEF Row
<1>8. /\ ref \in RemoteRef /\ ref.number = n /\ ref.node = task[t].remote.node /\ ref # NoIssue
      /\ ref.cached \in {task[t].remote.cached, NodeAt(r, n)}
  BY <1>3, <1>5, <1>6, <1>7 DEF RemoteRef, NoIssue
<1>9. \/ Save(t, Aligned(adopted))
      \/ task' = [task EXCEPT ![t] = learnt] /\ UNCHANGED versions
  BY <1>1, <1>7 DEF Row, RemoteRef
<1> HIDE DEF ref
<1>10. /\ learnt \in Row /\ learnt.remote = ref /\ learnt.filing = task[t].filing
       /\ learnt.base = task[t].base /\ learnt.sync = task[t].sync
  BY <1>7, <1>8 DEF Row
<1>11. GoodRow(learnt)
  BY <1>2, <1>7, <1>8, <1>10 DEF GoodRow, Mirrored
<1> HIDE DEF learnt
<1>12. adopted \in Row /\ adopted.remote = ref /\ adopted.filing = task[t].filing
  BY <1>6, <1>10 DEF Row
<1> HIDE DEF adopted
<1>13. PICK row \in {learnt, Aligned(adopted)} : Stored(t, row) 
  <2>1. CASE Save(t, Aligned(adopted))
    BY <2>1, SaveStores
  <2>2. CASE task' = [task EXCEPT ![t] = learnt] /\ UNCHANGED versions
    <3>1. KeyFree(t, learnt)
      BY <1>2, <1>3, <1>8, <1>10, SameKeyIsFree DEF Inv
    <3>2. QED
      BY <2>2, <3>1 DEF Stored, Snapped
  <2>3. QED
    BY <1>9, <2>1, <2>2
<1>14. /\ GoodRow(row) /\ row.remote = ref /\ row.filing = task[t].filing /\ row.sync # "staged"
       /\ KeepsBase(task[t], row)
  BY <1>2, <1>8, <1>10, <1>11, <1>12, AlignedIsGood DEF KeepsBase
<1>15. AtHome(row, marks'[t], github)
  <2> SUFFICES ASSUME IsClean(marks[t]) PROVE Leads(github, task[t].filing, ref)
    BY <1>2, <1>14 DEF AtHome
  <2>1. Leads(github, task[t].filing, task[t].remote) /\ r = task[t].filing
    BY <1>2, <1>3, CleanHome
  <2>2. QED
    BY <2>1, <1>3, <1>8 DEF Leads, NodeAt
<1>16. Continues(task[t], row)
  BY <1>2, <1>8, <1>14, RowIsThere DEF Continues, Mirrored, GoodRow
<1>17. Idle(t) /\ MarksGrow /\ spent' \in [Budgets -> Nat]
  BY <1>2, MarksKept, SpendCounts DEF Command
<1>18. QED
  BY <1>2, <1>13, <1>14, <1>15, <1>16, <1>17, LocalKeeps

-----------------------------------------------------------------------------
(* Steps of a command, and of other people on GitHub.                       *)

(* A step that replaces at most one row, one command and adds to GitHub.    *)
LEMMA StillKeeps ==
  ASSUME Inv, UNCHANGED <<task, versions, marks>>, Places', Grows, Recorded',
         default' \in MaybeRepo, spent' \in [Budgets -> Nat],
         filed' \subseteq [task : Tasks, repo : Repos, node : Nat],
         proc' \in [Tasks -> Running],
         \A t \in Tasks : RunsOn(proc'[t], task[t], marks[t], github')
  PROVE  Inv'
<1>1. Rows' /\ Keys' /\ Snapshots'
  BY DEF Inv, Rows, Keys, Snapshots
<1>2. Scalars'
  BY DEF Inv, Scalars
<1>3. Commands'
  BY DEF Commands, RunsOn
<1>4. Homes'
  BY AtHomeStays DEF Inv, Homes, AtHome
<1>5. QED
  BY <1>1, <1>2, <1>3, <1>4 DEF Inv

(* A step of one task that lets the marks alone and may add to GitHub.      *)
LEMMA StepKeeps ==
  ASSUME Inv, NEW t \in Tasks, NEW row, Stored(t, row), GoodRow(row), KeepsBase(task[t], row),
         UNCHANGED <<default, filed, marks>>, spent' \in [Budgets -> Nat], Places', Grows, Recorded',
         AtHome(row, marks[t], github'),
         proc' \in [Tasks -> Running], \A s \in Tasks \ {t} : proc'[s] = proc[s],
         RunsOn(proc'[t], row, marks[t], github')
  PROVE  Inv'
<1>1. Rows' /\ Snapshots'
  BY StoredKeepsRows DEF Inv
<1>2. Keys'
  BY StoredKeepsKeys DEF Inv
<1>3. Scalars'
  BY DEF Inv, Scalars
<1>4. task'[t] = row /\ \A s \in Tasks \ {t} : task'[s] = task[s]
  BY StoredRow DEF Inv
<1>5. ASSUME NEW s \in Tasks
      PROVE  RunsOn(proc'[s], task'[s], marks[s], github') /\ AtHome(task'[s], marks[s], github')
  <2>1. CASE s = t
    BY <2>1, <1>4
  <2>2. CASE s # t
    BY <2>2, <1>4, RunsOnStays, AtHomeStays DEF Inv, Commands, Homes
  <2>3. QED
    BY <2>1, <2>2
<1>6. Commands' /\ Homes'
  BY <1>5 DEF Commands, Homes, RunsOn, AtHome
<1>7. QED
  BY <1>1, <1>2, <1>3, <1>6 DEF Inv

(* Without marks, what was filed stays recorded as long as no row lets go   *)
(* of its issue and every waiting issue is kept or waits on.                *)
LEMMA RecordedStays ==
  ASSUME Inv, UNCHANGED marks, Grows,
         Unmarked => \A f \in filed' : f \in filed \/ Waiting(f)',
         Unmarked => \A s \in Tasks :
           /\ Mirrored(task'[s]) => task'[s].sync # "staged"
           /\ Mirrored(task[s]) => Mirrored(task'[s]) /\ task'[s].remote.node = task[s].remote.node,
         \A f \in filed : Unmarked /\ NeverMoved(f.node)' /\ Waiting(f) => Kept(f.node)' \/ Waiting(f)'
  PROVE  Recorded'
<1> SUFFICES ASSUME Unmarked'
             PROVE  /\ \A s \in Tasks : Mirrored(task'[s]) => task'[s].sync # "staged"
                    /\ \A f \in filed' : NeverMoved(f.node)' => Kept(f.node)' \/ Waiting(f)'
  BY DEF Recorded
<1>1. Unmarked
  BY DEF Unmarked
<1>2. ASSUME NEW f \in filed, NeverMoved(f.node)' PROVE Kept(f.node)' \/ Waiting(f)'
  <2>1. Kept(f.node) \/ Waiting(f)
    BY <1>1, <1>2, NeverMovedBefore DEF Inv, Recorded
  <2>2. CASE Kept(f.node)
    BY <2>2, <1>1, KeptStays
  <2>3. CASE Waiting(f)
    BY <2>3, <1>1, <1>2
  <2>4. QED
    BY <2>1, <2>2, <2>3
<1>3. QED
  BY <1>1, <1>2

(* A waiting issue waits on as long as its task and its text are let alone  *)
(* and no other command of the task has it.                                 *)
LEMMA WaitingStays ==
  ASSUME Inv, NEW f \in filed, Waiting(f), Grows,
         task'[f.task] # Absent, ~Mirrored(task'[f.task]), task'[f.task].sync = "staged",
         task'[f.task].filing = task[f.task].filing, task'[f.task].text = task[f.task].text,
         \A n \in 1 .. Len(github[f.repo]) :
           NodeAt(f.repo, n) = f.node => github'[f.repo][n].text = github[f.repo][n].text,
         proc'[f.task].pc \in {"idle", "scan", "created"},
         proc'[f.task].pc = "created" => proc'[f.task].remote.node = f.node
  PROVE  Waiting(f)'
<1>1. f.repo \in Repos
  BY DEF Inv, Scalars
<1>2. PICK n \in 1 .. Len(github[f.repo]) :
        NodeAt(f.repo, n) = f.node /\ github[f.repo][n].text = task[f.task].text
  BY DEF Waiting
<1>3. /\ n \in 1 .. Len(github'[f.repo]) /\ github'[f.repo][n].node = f.node
      /\ github'[f.repo][n].text = task'[f.task].text
  BY <1>1, <1>2 DEF Grows, NodeAt
<1>4. QED
  BY <1>3 DEF Waiting, NodeAt

(* Nothing happened to GitHub.                                              *)
LEMMA NothingGrows ==
  ASSUME Inv, UNCHANGED <<github, nodes>> PROVE Places' /\ Grows
  BY DEF Inv, Places, Grows, NodeAt, HasMoved

(* A filed record names a task and a repo.                                  *)
LEMMA FiledOf == ASSUME Inv, NEW f \in filed PROVE f.task \in Tasks /\ f.repo \in Repos
  BY DEF Inv, Scalars

(* The rows of a step that leaves all rows alone.                           *)
LEMMA RowsAlone ==
  ASSUME Inv, UNCHANGED task
  PROVE  Unmarked => \A s \in Tasks :
           /\ Mirrored(task'[s]) => task'[s].sync # "staged"
           /\ Mirrored(task[s]) => Mirrored(task'[s]) /\ task'[s].remote.node = task[s].remote.node
  BY DEF Inv, Recorded

(* A step that leaves rows and commands alone and keeps the texts.          *)
LEMMA WaitingAlone ==
  ASSUME Inv, UNCHANGED task, Grows, NEW f \in filed, Waiting(f),
         \A q \in Repos : \A n \in 1 .. Len(github[q]) : github'[q][n].text = github[q][n].text,
         proc'[f.task] = proc[f.task] \/ proc'[f.task].pc = "idle"
  PROVE  Waiting(f)'
  BY WaitingStays, FiledOf DEF Waiting

(* set_filing_repo of a workspace: no row depends on the default alone.     *)
LEMMA SetDefaultKeeps == ASSUME Inv, SetDefault PROVE Inv'
<1>1. /\ UNCHANGED <<task, versions, github, nodes, proc, filed, marks>> /\ default' \in MaybeRepo
      /\ Spend("commands")
  BY DEF SetDefault
<1>2. Places' /\ Grows
  BY <1>1, NothingGrows
<1>3. spent' \in [Budgets -> Nat]
  BY <1>1, SpendCounts DEF Inv, Scalars, Spend, Budgets
<1>4. Recorded'
  BY <1>1, <1>2, RowsAlone, WaitingAlone, RecordedStays
<1>5. QED
  BY <1>1, <1>2, <1>3, <1>4, StillKeeps DEF Inv, Commands, Scalars

(* A process is killed, or its call fails.                                  *)
LEMMA KillKeeps == ASSUME Inv, NEW t \in Tasks, Kill(t) PROVE Inv'
<1>1. /\ UNCHANGED <<task, versions, default, github, nodes, filed, marks>>
      /\ proc' = [proc EXCEPT ![t] = Rest] /\ Spend("incidents")
  BY DEF Kill
<1>2. Places' /\ Grows
  BY <1>1, NothingGrows
<1>3. spent' \in [Budgets -> Nat]
  BY <1>1, SpendCounts
<1>4. /\ proc' \in [Tasks -> Running] /\ proc'[t] = Rest
      /\ \A s \in Tasks \ {t} : proc'[s] = proc[s]
  BY <1>1 DEF Inv, Commands, Running
<1>5. \A s \in Tasks : RunsOn(proc'[s], task[s], marks[s], github')
  <2>1. RunsOn(Rest, task[t], marks[t], github')
    BY DEF RunsOn, Rest, Running
  <2>2. QED
    BY <2>1, <1>1, <1>4 DEF Inv, Commands
<1>6. \A f \in filed : proc'[f.task] = proc[f.task] \/ proc'[f.task].pc = "idle"
  BY <1>4, FiledOf DEF Rest
<1>7. Recorded'
  BY <1>1, <1>2, <1>6, RowsAlone, WaitingAlone, RecordedStays
<1>8. QED
  BY <1>1, <1>2, <1>3, <1>4, <1>5, <1>7, StillKeeps DEF Inv, Scalars

(* A command of another task goes on while GitHub grows.                    *)
LEMMA OthersGoOn ==
  ASSUME Inv, Grows, NEW s \in Tasks PROVE RunsOn(proc[s], task[s], marks[s], github')
  BY RunsOnStays DEF Inv, Commands

(* Somebody opens an issue by hand.                                         *)
LEMMA UiOpenKeeps == ASSUME Inv, UiOpen PROVE Inv'
<1>1. PICK r \in Repos, text \in Texts : Opened(r, text)
  BY DEF UiOpen
<1>2. UNCHANGED <<task, versions, default, proc, filed, marks>> /\ Spend("incidents")
  BY DEF UiOpen
<1>3. /\ Places' /\ Grows
      /\ \A q \in Repos : \A n \in 1 .. Len(github[q]) : github'[q][n] = github[q][n]
  BY <1>1, OpenedPlaces DEF Inv
<1>4. spent' \in [Budgets -> Nat]
  BY <1>2, FilingAssumption DEF Inv, Scalars, Spend, Budgets
<1>5. Recorded'
  BY <1>2, <1>3, RowsAlone, WaitingAlone, RecordedStays
<1>6. QED
  BY <1>2, <1>3, <1>4, <1>5, OthersGoOn, StillKeeps DEF Inv, Commands, Scalars

(* Somebody moves an issue by hand.                                         *)
LEMMA UiTransferKeeps == ASSUME Inv, UiTransfer PROVE Inv'
<1>1. PICK r \in Repos, dst \in Repos : \E n \in 1 .. Len(github[r]) : Moved(r, n, dst)
  BY DEF UiTransfer
<1>2. PICK n \in 1 .. Len(github[r]) : Moved(r, n, dst)
  BY <1>1
<1>3. UNCHANGED <<task, versions, default, nodes, proc, filed, marks>> /\ Spend("incidents")
  BY DEF UiTransfer
<1>4. /\ Places' /\ Grows
      /\ \A q \in Repos : \A m \in 1 .. Len(github[q]) : github'[q][m].text = github[q][m].text
  BY <1>2, <1>3, MovedPlaces DEF Inv
<1>5. spent' \in [Budgets -> Nat]
  BY <1>3, FilingAssumption DEF Inv, Scalars, Spend, Budgets
<1>6. Recorded'
  BY <1>3, <1>4, RowsAlone, WaitingAlone, RecordedStays
<1>7. QED
  BY <1>3, <1>4, <1>5, <1>6, OthersGoOn, StillKeeps DEF Inv, Commands, Scalars

(* What a command in hand says of its row.                                  *)
LEMMA InHand ==
  ASSUME Inv, NEW t \in Tasks, ~Idle(t)
  PROVE  /\ proc[t] \in Running /\ proc[t] # Rest
         /\ task[t] # Absent /\ proc[t].copy = task[t] /\ GoodRow(task[t]) /\ task[t] \in Row
         /\ RunsOn(proc[t], task[t], marks[t], github)
  BY TaskRow DEF Inv, Commands, RunsOn, Idle, Rest

(* A command reaches its next step: rows and marks are let alone.           *)
LEMMA NextStep ==
  ASSUME Inv, NEW t \in Tasks, NEW p, proc' = [proc EXCEPT ![t] = p], Grows,
         RunsOn(p, task[t], marks[t], github')
  PROVE  /\ proc' \in [Tasks -> Running] /\ proc'[t] = p
         /\ \A s \in Tasks \ {t} : proc'[s] = proc[s]
         /\ \A s \in Tasks : RunsOn(proc'[s], task[s], marks[s], github')
<1>1. p \in Running /\ proc \in [Tasks -> Running]
  BY DEF RunsOn, Inv, Commands
<1>2. proc'[t] = p /\ \A s \in Tasks \ {t} : proc'[s] = proc[s]
  BY <1>1
<1>3. QED
  BY <1>1, <1>2, OthersGoOn

(* find_promoted_orphan: a waiting issue that nobody keeps is among what it *)
(* finds, so that it creates no second one and adopts no other.             *)
LEMMA PromoteScanKeeps == ASSUME Inv, NEW t \in Tasks, PromoteScan(t) PROVE Inv'
<1> DEFINE copy == proc[t].copy
           found == UntrackedMatches(copy.filing, copy.text)
<1>1. /\ proc[t].pc = "scan" /\ ~Idle(t)
      /\ UNCHANGED <<task, versions, default, github, nodes, spent, filed, marks>>
      /\ \/ found = {} /\ proc' = [proc EXCEPT ![t].pc = "create"]
         \/ \E n \in found :
              /\ found = {n}
              /\ proc' = [proc EXCEPT ![t] = Holding("created", copy, n, NodeAt(copy.filing, n))]
         \/ Cardinality(found) > 1 /\ proc' = [proc EXCEPT ![t] = Rest]
  BY DEF PromoteScan, Idle
<1>2. /\ copy = task[t] /\ task[t] # Absent /\ task[t] \in Row /\ task[t].sync = "staged"
      /\ task[t].filing \in Repos /\ proc[t] \in Running /\ RunsOn(proc[t], task[t], marks[t], github)
  BY <1>1, InHand DEF RunsOn
<1>3. Places' /\ Grows
  BY <1>1, NothingGrows
<1> HIDE DEF found, copy
<1>4. ASSUME NEW f \in filed, Unmarked, NeverMoved(f.node), Waiting(f), f.task = t
      PROVE  Kept(f.node) \/ \E n \in found : NodeAt(f.repo, n) = f.node
  <2>1. PICK n \in 1 .. Len(github[f.repo]) :
          NodeAt(f.repo, n) = f.node /\ github[f.repo][n].text = task[t].text
    BY <1>4 DEF Waiting
  <2>2. f.repo = task[t].filing /\ f.repo \in Repos
    BY <1>4, <1>2 DEF Waiting
  <2>3. ~HasMoved(f.repo, n)
    BY <1>4, <2>1, <2>2 DEF NeverMoved
  <2>4. CASE Tracked(f.repo, n)
    <3>1. PICK s \in Tasks : Mirrored(task[s]) /\ task[s].filing = f.repo /\ task[s].remote.number = n
      BY <2>4 DEF Tracked
    <3>2. IsClean(marks[s])
      BY <1>4 DEF Unmarked, IsClean
    <3>3. Leads(github, task[s].filing, task[s].remote)
      BY <3>1, <3>2, CleanHome
    <3>4. QED
      BY <3>1, <3>3, <2>1 DEF Leads, NodeAt, Kept
  <2>5. CASE ~Tracked(f.repo, n)
    BY <2>1, <2>2, <2>3, <2>5, <1>2 DEF found, UntrackedMatches
  <2>6. QED
    BY <2>4, <2>5
<1>5. ASSUME NEW p, proc' = [proc EXCEPT ![t] = p], RunsOn(p, task[t], marks[t], github),
             \A f \in filed : Unmarked /\ NeverMoved(f.node) /\ Waiting(f) /\ f.task = t =>
               \/ Kept(f.node)
               \/ p.pc \in {"idle", "scan", "created"} /\ (p.pc = "created" => p.remote.node = f.node)
      PROVE  Inv'
  <2>1. /\ proc' \in [Tasks -> Running] /\ proc'[t] = p
        /\ \A s \in Tasks \ {t} : proc'[s] = proc[s]
        /\ \A s \in Tasks : RunsOn(proc'[s], task[s], marks[s], github')
    BY <1>1, <1>3, <1>5, NextStep
  <2>2. ASSUME NEW f \in filed, Unmarked, NeverMoved(f.node)', Waiting(f)
        PROVE  Kept(f.node)' \/ Waiting(f)'
    <3>1. NeverMoved(f.node)
      BY <2>2, <1>3, NeverMovedBefore
    <3>2. CASE Kept(f.node)
      BY <3>2, <1>1 DEF Kept
    <3>3. CASE f.task # t
      BY <3>3, <2>1, <2>2, <1>1, <1>3, WaitingAlone, FiledOf
    <3>4. CASE f.task = t /\ ~Kept(f.node)
      BY <3>1, <3>4, <2>1, <2>2, <1>1, <1>3, <1>5, WaitingStays DEF Waiting
    <3>5. QED
      BY <3>2, <3>3, <3>4
  <2>3. Recorded'
    BY <1>1, <1>3, <2>2, RowsAlone, RecordedStays
  <2>4. QED
    BY <1>1, <1>3, <2>1, <2>3, StillKeeps DEF Inv, Scalars
<1>6. CASE found = {} /\ proc' = [proc EXCEPT ![t].pc = "create"]
  <2> DEFINE p == [proc[t] EXCEPT !.pc = "create"]
  <2>1. proc' = [proc EXCEPT ![t] = p]
    BY <1>6
  <2>2. proc[t] \in [pc : {"scan", "create"}, copy : Row]
    BY <1>1, <1>2 DEF Running, Rest
  <2>3. p \in [pc : {"scan", "create"}, copy : Row] /\ p.pc = "create" /\ p.copy = task[t]
    BY <2>2, <1>2 DEF copy
  <2> HIDE DEF p
  <2>4. RunsOn(p, task[t], marks[t], github)
    BY <2>3, <1>2 DEF RunsOn, Running
  <2>5. QED
    BY <1>4, <1>5, <1>6, <2>1, <2>4
<1>7. ASSUME NEW n \in found, found = {n},
             proc' = [proc EXCEPT ![t] = Holding("created", copy, n, NodeAt(copy.filing, n))]
      PROVE  Inv'
  <2> DEFINE ref == [number |-> n, node |-> NodeAt(copy.filing, n), cached |-> NodeAt(copy.filing, n)]
             p == Holding("created", copy, n, NodeAt(copy.filing, n))
  <2>1. n \in 1 .. Len(github[task[t].filing]) /\ copy.filing = task[t].filing
    BY <1>2 DEF found, UntrackedMatches
  <2>2. github[task[t].filing] \in Seq(Place)
    BY <1>2 DEF Inv, Places
  <2>3. n \in Nat /\ github[task[t].filing][n] \in Place
    BY <2>1, <2>2
  <2>4. ref \in RemoteRef /\ Leads(github, task[t].filing, ref) /\ ref.node = NodeAt(task[t].filing, n)
    BY <2>1, <2>3, <1>2 DEF RemoteRef, Leads, NodeAt, Place
  <2> HIDE DEF ref
  <2>5. p = [pc |-> "created", copy |-> task[t], remote |-> ref]
    BY <1>2 DEF ref, Holding
  <2> HIDE DEF p
  <2>6. p \in Running /\ p.pc = "created" /\ p.copy = task[t] /\ p.remote = ref
    BY <2>4, <2>5, <1>2 DEF Running
  <2>7. RunsOn(p, task[t], marks[t], github)
    BY <2>4, <2>6, <1>2 DEF RunsOn
  <2>8. ASSUME NEW f \in filed, Unmarked, NeverMoved(f.node), Waiting(f), f.task = t
        PROVE  Kept(f.node) \/ p.remote.node = f.node
    <3>1. f.repo = task[t].filing
      BY <2>8 DEF Waiting
    <3>2. QED
      BY <2>4, <2>6, <2>8, <3>1, <1>4, <1>7
  <2>9. QED
    BY <1>5, <1>7, <2>6, <2>7, <2>8 DEF p
<1>8. CASE proc' = [proc EXCEPT ![t] = Rest]
  <2>1. RunsOn(Rest, task[t], marks[t], github)
    BY DEF RunsOn, Rest, Running
  <2>2. Rest.pc = "idle"
    BY DEF Rest
  <2>3. QED
    BY <1>5, <1>8, <2>1, <2>2
<1>9. QED
  BY <1>1, <1>6, <1>7, <1>8

(* create_remote: the new issue is what the task now waits for.             *)
LEMMA PromoteCreateKeeps == ASSUME Inv, NEW t \in Tasks, PromoteCreate(t) PROVE Inv'
<1> DEFINE r == proc[t].copy.filing
           text == proc[t].copy.text
           last == Len(github[r]) + 1
           ref == [number |-> last, node |-> nodes + 1, cached |-> nodes + 1]
           p == Holding("created", proc[t].copy, last, nodes + 1)
           new == [task |-> t, repo |-> r, node |-> nodes + 1]
<1>1. /\ proc[t].pc = "create" /\ ~Idle(t) /\ Opened(r, text)
      /\ UNCHANGED <<task, versions, default, spent, marks>>
      /\ filed' = filed \cup {new} /\ proc' = [proc EXCEPT ![t] = p]
  BY DEF PromoteCreate, Idle
<1>2. /\ proc[t].copy = task[t] /\ task[t] # Absent /\ task[t] \in Row /\ GoodRow(task[t])
      /\ task[t].sync = "staged" /\ task[t].filing \in Repos
  BY <1>1, InHand DEF RunsOn
<1>3. r \in Repos /\ text \in Texts /\ r = task[t].filing /\ text = task[t].text
  BY <1>2 DEF Row
<1>4. p = [pc |-> "created", copy |-> task[t], remote |-> ref]
  BY <1>2 DEF Holding
<1> HIDE DEF r, text, p
<1>5. /\ Places' /\ Grows
      /\ \A q \in Repos : \A n \in 1 .. Len(github[q]) : github'[q][n] = github[q][n]
      /\ Len(github'[r]) = last
      /\ github'[r][last] = [node |-> nodes + 1, text |-> text, moved |-> None]
  BY <1>1, <1>3, OpenedPlaces DEF Inv
<1>6. github[r] \in Seq(Place) /\ nodes \in Nat
  BY <1>3 DEF Inv, Places
<1>7. last \in Nat /\ last \in 1 .. Len(github'[r]) /\ ref \in RemoteRef
  BY <1>5, <1>6 DEF RemoteRef
<1> HIDE DEF last
<1>8. Leads(github', r, ref) /\ ref.node = nodes + 1
  BY <1>3, <1>5, <1>7 DEF Leads
<1> HIDE DEF ref
<1>9. p \in Running /\ p.pc = "created" /\ p.copy = task[t] /\ p.remote = ref
  BY <1>2, <1>4, <1>7 DEF Running
<1>10. RunsOn(p, task[t], marks[t], github')
  BY <1>2, <1>3, <1>8, <1>9 DEF RunsOn
<1>11. /\ proc' \in [Tasks -> Running] /\ proc'[t] = p
       /\ \A s \in Tasks \ {t} : proc'[s] = proc[s]
       /\ \A s \in Tasks : RunsOn(proc'[s], task[s], marks[s], github')
  BY <1>1, <1>5, <1>10, NextStep
<1>12. filed' \subseteq [task : Tasks, repo : Repos, node : Nat]
  BY <1>1, <1>3, <1>6 DEF Inv, Scalars
<1>13. ASSUME NEW f, f = new, Unmarked PROVE Waiting(f)'
  <2>1. ~Mirrored(task[t])
    BY <1>2, <1>13, TaskRow
  <2>2. github'[r][last].node = nodes + 1 /\ github'[r][last].text = task[t].text
    BY <1>3, <1>5
  <2>3. f.task = t /\ f.repo = r /\ f.node = nodes + 1
    BY <1>13
  <2> HIDE DEF new
  <2>4. QED
    BY <1>1, <1>2, <1>3, <1>7, <1>8, <1>9, <1>11, <2>1, <2>2, <2>3 DEF Waiting, NodeAt
<1>14. \A f \in filed : Waiting(f) => f.task # t
  BY <1>1 DEF Waiting
<1>15. \A f \in filed : Waiting(f) => Waiting(f)'
  BY <1>1, <1>5, <1>11, <1>14, WaitingAlone, FiledOf
<1>16. Recorded'
  <2>1. Unmarked => \A f \in filed' : f \in filed \/ Waiting(f)'
    BY <1>1, <1>13
  <2>2. QED
    BY <1>1, <1>5, <1>15, <2>1, RowsAlone, RecordedStays
<1>17. QED
  BY <1>1, <1>5, <1>11, <1>12, <1>16, StillKeeps DEF Inv, Scalars

(* transfer, before the remote call.                                        *)
LEMMA TransferBeginKeeps == ASSUME Inv, NEW t \in Tasks, TransferBegin(t) PROVE Inv'
<1> DEFINE r == FilingRepoFor(task[t])
           n == task[t].remote.number
           held == IF task[t].remote.cached # 0 THEN task[t].remote.cached ELSE NodeAt(r, n)
<1>1. /\ Mirrored(task[t]) /\ task[t] # Absent /\ task[t].sync = "synced" /\ Command(t)
      /\ UNCHANGED <<task, versions, default, github, nodes, filed, marks>>
  BY DEF TransferBegin, Mirrored
<1>2. PICK dst \in Repos :
        /\ Exists(r, n)
        /\ proc' = [proc EXCEPT ![t] = [pc |-> "transfer", copy |-> task[t], dst |-> dst, node |-> held]]
  BY DEF TransferBegin
<1> DEFINE p == [pc |-> "transfer", copy |-> task[t], dst |-> dst, node |-> held]
<1>3. task[t] \in Row /\ task[t].remote \in RemoteRef
  BY <1>1, TaskRow DEF Row
<1>4. held \in Nat
  <2>1. r \in Repos /\ n \in 1 .. Len(github[r])
    BY <1>2 DEF Exists
  <2>2. NodeAt(r, n) \in Nat
    BY <2>1 DEF Inv, Places
  <2>3. QED
    BY <1>3, <2>2 DEF RemoteRef
<1>5. IsClean(marks[t]) => held = task[t].remote.node
  BY <1>1, CleanHome DEF Leads, NodeAt
<1> HIDE DEF held
<1>6. p \in Running
  BY <1>3, <1>4 DEF Running
<1>7. RunsOn(p, task[t], marks[t], github)
  BY <1>1, <1>5, <1>6 DEF RunsOn
<1> HIDE DEF p
<1>8. Places' /\ Grows
  BY <1>1, NothingGrows
<1>9. /\ proc' \in [Tasks -> Running] /\ proc'[t] = p
      /\ \A s \in Tasks \ {t} : proc'[s] = proc[s]
      /\ \A s \in Tasks : RunsOn(proc'[s], task[s], marks[s], github')
  BY <1>1, <1>2, <1>7, <1>8, NextStep DEF p
<1>10. \A f \in filed : Waiting(f) => f.task # t
  BY <1>1 DEF Waiting
<1>11. \A f \in filed : Waiting(f) => Waiting(f)'
  BY <1>1, <1>8, <1>9, <1>10, WaitingAlone, FiledOf
<1>12. Recorded'
  BY <1>1, <1>8, <1>11, RowsAlone, RecordedStays
<1>13. spent' \in [Budgets -> Nat]
  BY <1>1, SpendCounts
<1>14. QED
  BY <1>1, <1>8, <1>9, <1>12, <1>13, StillKeeps DEF Inv, Scalars

(* transferIssue on GitHub: the command learns the new address.             *)
LEMMA TransferSendKeeps == ASSUME Inv, NEW t \in Tasks, TransferSend(t) PROVE Inv'
<1>a. PICK r \in Repos : \E n \in 1 .. Len(github[r]) :
       /\ NodeAt(r, n) = proc[t].node /\ Moved(r, n, proc[t].dst)
       /\ proc' = [proc EXCEPT ![t] =
            [pc |-> "transferred", copy |-> proc[t].copy, dst |-> proc[t].dst,
             remote |-> [number |-> Len(github[proc[t].dst]) + 1, node |-> proc[t].node,
                         cached |-> proc[t].node]]]
  BY DEF TransferSend
<1> DEFINE dst == proc[t].dst
           last == Len(github[dst]) + 1
           ref == [number |-> last, node |-> proc[t].node, cached |-> proc[t].node]
           p == [pc |-> "transferred", copy |-> proc[t].copy, dst |-> dst, remote |-> ref]
<1>1. PICK n \in 1 .. Len(github[r]) :
       NodeAt(r, n) = proc[t].node /\ Moved(r, n, dst) /\ proc' = [proc EXCEPT ![t] = p]
  BY <1>a
<1>2. /\ proc[t].pc = "transfer" /\ ~Idle(t)
      /\ UNCHANGED <<task, versions, default, nodes, spent, filed, marks>>
  BY DEF TransferSend, Idle
<1>3. /\ proc[t].copy = task[t] /\ task[t] # Absent /\ task[t] \in Row /\ proc[t] \in Running
      /\ Mirrored(task[t]) /\ task[t].sync = "synced"
      /\ IsClean(marks[t]) => proc[t].node = task[t].remote.node
  BY <1>2, InHand DEF RunsOn
<1>4. proc[t] \in [pc : {"transfer"}, copy : Row, dst : Repos, node : Nat]
  BY <1>2, <1>3 DEF Running, Rest
<1>5. dst \in Repos /\ proc[t].node \in Nat
  BY <1>4
<1> HIDE DEF dst
<1>6. /\ Places' /\ Grows /\ Len(github'[dst]) = last /\ github'[dst][last].node = NodeAt(r, n)
      /\ \A q \in Repos : \A m \in 1 .. Len(github[q]) : github'[q][m].text = github[q][m].text
  BY <1>1, <1>2, <1>5, MovedPlaces DEF Inv
<1>7. last \in Nat /\ last \in 1 .. Len(github'[dst])
  <2>1. github[dst] \in Seq(Place)
    BY <1>5 DEF Inv, Places
  <2>2. QED
    BY <2>1, <1>6
<1> HIDE DEF last
<1>8. ref \in RemoteRef /\ Leads(github', dst, ref) /\ ref.node = proc[t].node
  BY <1>1, <1>5, <1>6, <1>7 DEF RemoteRef, Leads
<1> HIDE DEF ref
<1>9. p \in Running /\ p.pc = "transferred" /\ p.copy = task[t] /\ p.dst = dst /\ p.remote = ref
  BY <1>3, <1>5, <1>8 DEF Running
<1> HIDE DEF p
<1>10. RunsOn(p, task[t], marks[t], github')
  BY <1>3, <1>8, <1>9 DEF RunsOn
<1>11. /\ proc' \in [Tasks -> Running] /\ proc'[t] = p
       /\ \A s \in Tasks \ {t} : proc'[s] = proc[s]
       /\ \A s \in Tasks : RunsOn(proc'[s], task[s], marks[s], github')
  BY <1>1, <1>6, <1>10, NextStep
<1>12. \A f \in filed : Waiting(f) => f.task # t
  BY <1>3 DEF Waiting
<1>13. \A f \in filed : Waiting(f) => Waiting(f)'
  BY <1>2, <1>6, <1>11, <1>12, WaitingAlone, FiledOf
<1>14. Recorded'
  BY <1>2, <1>6, <1>13, RowsAlone, RecordedStays
<1>15. QED
  BY <1>2, <1>6, <1>11, <1>14, StillKeeps DEF Inv, Scalars

(* promote, before the remote call: the filing repo is recorded, and the    *)
(* row staged, once the call may have been made.                            *)
LEMMA PromoteBeginKeeps == ASSUME Inv, NEW t \in Tasks, PromoteBegin(t) PROVE Inv'
<1> DEFINE row == [task[t] EXCEPT !.sync = "staged", !.filing = FilingRepoFor(task[t])]
           pc == IF task[t].sync = "staged" THEN "scan" ELSE "create"
           p == [pc |-> pc, copy |-> row]
<1>1. /\ task[t] # Absent /\ Command(t) /\ task[t].sync \in {"local_only", "staged"}
      /\ FilingRepoFor(task[t]) # None
      /\ SavedBeforeCreate(t, row) /\ proc' = [proc EXCEPT ![t] = p]
      /\ UNCHANGED <<default, github, nodes, filed, marks>>
  BY DEF PromoteBegin
<1>2. /\ task[t] \in Row /\ GoodRow(task[t])
  BY <1>1, TaskRow
<1>3. FilingRepoFor(task[t]) \in Repos
  BY <1>1, <1>2 DEF Row, FilingRepoFor, ResolveFilingRepo, MaybeRepo, Inv, Scalars
<1>4. /\ row \in Row /\ row.sync = "staged" /\ row.filing \in Repos /\ row.text = task[t].text
      /\ row.base = task[t].base /\ row.remote = task[t].remote
      /\ row.filing = FilingRepoFor(task[t])
  BY <1>2, <1>3 DEF Row, Sync, MaybeRepo
<1> HIDE DEF row
<1>5. GoodRow(row) /\ KeepsBase(task[t], row) /\ row # Absent
  BY <1>2, <1>4, RowIsThere DEF GoodRow, KeepsBase
<1>6. Stored(t, row)
  <2>1. CASE Save(t, row)
    BY <2>1, SaveStores
  <2>2. CASE task[t] = row /\ UNCHANGED <<task, versions>>
    <3>1. KeyFree(t, row)
      BY <2>2, SameKeyIsFree DEF Inv
    <3>2. task' = [task EXCEPT ![t] = row]
      BY <2>2 DEF Inv, Rows
    <3>3. QED
      BY <2>2, <3>1, <3>2 DEF Stored, Snapped
  <2>3. QED
    BY <1>1, <2>1, <2>2 DEF SavedBeforeCreate
<1>7. Places' /\ Grows
  BY <1>1, NothingGrows
<1>8. pc \in {"scan", "create"} /\ (task[t].sync = "staged" => pc = "scan")
  OBVIOUS
<1> HIDE DEF pc
<1>9. p \in Running /\ p.pc = pc /\ p.copy = row
  BY <1>4, <1>8 DEF Running
<1> HIDE DEF p
<1>10. RunsOn(p, row, marks[t], github')
  BY <1>4, <1>5, <1>8, <1>9 DEF RunsOn
<1>11. /\ proc' \in [Tasks -> Running] /\ proc'[t] = p /\ \A s \in Tasks \ {t} : proc'[s] = proc[s]
  BY <1>1, <1>9 DEF Inv, Commands
<1>12. task'[t] = row /\ \A s \in Tasks \ {t} : task'[s] = task[s]
  BY <1>6, StoredRow DEF Inv
<1>13. AtHome(row, marks[t], github')
  <2> SUFFICES ASSUME Mirrored(task[t]), IsClean(marks[t]) PROVE Leads(github', row.filing, row.remote)
    BY <1>1, <1>4 DEF AtHome, Mirrored
  <2>1. QED
    BY <1>4, <1>7, CleanHome, LeadsOn
<1>14. Unmarked => ~Mirrored(task[t]) /\ ~Mirrored(row)
  BY <1>1, <1>2, <1>4, TaskRow DEF Mirrored, GoodRow
<1>15. ASSUME NEW f \in filed, Unmarked, Waiting(f) PROVE Waiting(f)'
  <2>1. CASE f.task # t
    BY <1>1, <1>7, <1>11, <1>12, <1>15, <2>1, FiledOf, WaitingStays DEF Waiting
  <2>2. CASE f.task = t
    <3>1. task[t].sync = "staged" /\ task[t].filing = f.repo /\ f.repo \in Repos
      BY <1>15, <2>2, FiledOf DEF Waiting
    <3>2. FilingRepoFor(task[t]) = task[t].filing /\ p.pc = "scan"
      BY <3>1, <1>8, <1>9, FilingAssumption DEF FilingRepoFor, ResolveFilingRepo
    <3>3. QED
      BY <1>1, <1>4, <1>5, <1>7, <1>11, <1>12, <1>14, <1>15, <2>2, <3>2, WaitingStays
  <2>3. QED
    BY <2>1, <2>2
<1>16. Recorded'
  <2>1. Unmarked => \A s \in Tasks :
           /\ Mirrored(task'[s]) => task'[s].sync # "staged"
           /\ Mirrored(task[s]) => Mirrored(task'[s]) /\ task'[s].remote.node = task[s].remote.node
    BY <1>12, <1>14, RowsAlone DEF Inv, Recorded
  <2>2. QED
    BY <1>1, <1>7, <1>15, <2>1, RecordedStays
<1>17. QED
  BY <1>1, <1>5, <1>6, <1>7, <1>10, <1>11, <1>13, <1>16, SpendCounts, StepKeeps

(* The end of a command: its process rests, whether or not it could save.   *)
LEMMA ConcludeKeeps ==
  ASSUME Inv, NEW t \in Tasks, ~Idle(t), NEW row, GoodRow(row), row.base # None, Conclude(t, row),
         row.sync # "staged", AtHome(row, marks[t], github),
         Unmarked /\ Mirrored(task[t]) => Mirrored(row) /\ row.remote.node = task[t].remote.node,
         \A f \in filed : Unmarked /\ Waiting(f) /\ f.task = t =>
           Mirrored(row) /\ row.remote.node = f.node /\ Leads(github, row.filing, row.remote)
  PROVE  Inv'
<1>1. /\ proc' = [proc EXCEPT ![t] = Rest]
      /\ UNCHANGED <<default, github, nodes, spent, filed, marks>>
  BY DEF Conclude
<1>2. Places' /\ Grows
  BY <1>1, NothingGrows
<1>3. proc' \in [Tasks -> Running] /\ proc'[t] = Rest /\ \A s \in Tasks \ {t} : proc'[s] = proc[s]
  BY <1>1 DEF Inv, Commands, Running
<1>4. \A q : RunsOn(Rest, q, marks[t], github')
  BY DEF RunsOn, Rest, Running
<1>5. spent' \in [Budgets -> Nat]
  BY <1>1 DEF Inv, Scalars
<1>6. CASE KeyFree(t, row)
  <2>1. Stored(t, row)
    BY <1>6, SaveStores DEF Conclude
  <2>2. task'[t] = row /\ \A s \in Tasks \ {t} : task'[s] = task[s]
    BY <2>1, StoredRow DEF Inv
  <2>3. KeepsBase(task[t], row)
    BY DEF KeepsBase
  <2>4. Unmarked => \A s \in Tasks :
           /\ Mirrored(task'[s]) => task'[s].sync # "staged"
           /\ Mirrored(task[s]) => Mirrored(task'[s]) /\ task'[s].remote.node = task[s].remote.node
    BY <2>2 DEF Inv, Recorded
  <2>5. ASSUME NEW f \in filed, Unmarked, Waiting(f) PROVE Kept(f.node)' \/ Waiting(f)'
    <3>1. CASE f.task = t
      BY <2>2, <2>5, <3>1 DEF Kept, Mirrored
    <3>2. CASE f.task # t
      BY <1>1, <1>2, <1>3, <2>2, <2>5, <3>2, FiledOf, WaitingStays DEF Waiting
    <3>3. QED
      BY <3>1, <3>2
  <2>6. Recorded'
    BY <1>1, <1>2, <2>4, <2>5, RecordedStays
  <2>7. AtHome(row, marks[t], github')
    BY <1>1
  <2>8. QED
    BY <1>1, <1>2, <1>3, <1>4, <1>5, <2>1, <2>3, <2>6, <2>7, StepKeeps
<1>7. CASE ~KeyFree(t, row)
  <2>1. UNCHANGED <<task, versions>>
    BY <1>7 DEF Conclude
  <2>2. PICK s \in Tasks : /\ Mirrored(task[s]) /\ task[s].filing = row.filing
                           /\ task[s].remote.number = row.remote.number
    BY <1>7 DEF KeyFree
  <2>3. ASSUME NEW f \in filed, Unmarked, Waiting(f) PROVE Kept(f.node)' \/ Waiting(f)'
    <3>1. CASE f.task = t
      <4>1. IsClean(marks[s])
        BY <2>3 DEF Unmarked, IsClean
      <4>2. Leads(github, task[s].filing, task[s].remote)
        BY <2>2, <4>1, CleanHome
      <4>3. task[s].remote.node = f.node
        BY <2>2, <2>3, <3>1, <4>2 DEF Leads
      <4>4. QED
        BY <2>1, <2>2, <4>3 DEF Kept
    <3>2. CASE f.task # t
      BY <1>1, <1>2, <1>3, <2>1, <2>3, <3>2, FiledOf, WaitingStays DEF Waiting
    <3>3. QED
      BY <3>1, <3>2
  <2>4. Recorded'
    BY <1>1, <1>2, <2>1, <2>3, RowsAlone, RecordedStays
  <2>5. \A u \in Tasks : RunsOn(proc'[u], task[u], marks[u], github')
    BY <1>2, <1>3, <1>4, OthersGoOn
  <2>6. QED
    BY <1>1, <1>2, <1>3, <1>5, <2>1, <2>4, <2>5, StillKeeps DEF Inv, Scalars
<1>8. QED
  BY <1>6, <1>7

(* A reference that leads somewhere is not the one of an unfiled task.      *)
LEMMA LeadingIsIssue == ASSUME NEW r, NEW ref, Leads(github, r, ref) PROVE ref # NoIssue
  BY DEF Leads, NoIssue

(* The final save of promote: what waited is now kept, by this task or by   *)
(* the one whose row has the key.                                           *)
LEMMA PromoteSaveKeeps == ASSUME Inv, NEW t \in Tasks, PromoteSave(t) PROVE Inv'
<1> DEFINE ref == proc[t].remote
           new == [task[t] EXCEPT !.remote = ref]
           row == Aligned(new)
<1>1. proc[t].pc = "created" /\ ~Idle(t)
  BY DEF PromoteSave, Idle
<1>2. /\ proc[t].copy = task[t] /\ task[t] # Absent /\ task[t] \in Row /\ GoodRow(task[t])
      /\ task[t].sync = "staged" /\ task[t].filing \in Repos /\ proc[t] \in Running
      /\ Leads(github, task[t].filing, ref)
  BY <1>1, InHand DEF RunsOn
<1>3. Conclude(t, row)
  BY <1>2 DEF PromoteSave
<1>4. ref \in RemoteRef
  <2>1. proc[t] \in [pc : {"created"}, copy : Row, remote : RemoteRef]
    BY <1>1, <1>2 DEF Running, Rest
  <2>2. QED
    BY <2>1
<1>5. ref # NoIssue
  BY <1>2, LeadingIsIssue
<1> HIDE DEF ref
<1>6. new \in Row /\ new.remote = ref /\ new.filing = task[t].filing
  BY <1>2, <1>4 DEF Row
<1> HIDE DEF new
<1>7. /\ GoodRow(row) /\ row.remote = ref /\ row.filing = task[t].filing /\ row.base # None
      /\ row.sync = "synced" /\ row # Absent
  BY <1>5, <1>6, AlignedIsGood, RowIsThere DEF GoodRow
<1> HIDE DEF row
<1>8. AtHome(row, marks[t], github) /\ Mirrored(row)
  BY <1>2, <1>5, <1>7 DEF AtHome, Mirrored
<1>9. ~(Unmarked /\ Mirrored(task[t]))
  BY <1>2, TaskRow
<1>10. \A f \in filed : Waiting(f) /\ f.task = t => row.remote.node = f.node
  BY <1>1, <1>7 DEF Waiting, ref
<1>11. QED
  BY <1>1, <1>2, <1>3, <1>7, <1>8, <1>9, <1>10, ConcludeKeeps

(* The final save of transfer: the same issue at its new address.           *)
LEMMA TransferSaveKeeps == ASSUME Inv, NEW t \in Tasks, TransferSave(t) PROVE Inv'
<1> DEFINE ref == proc[t].remote
           dst == proc[t].dst
           new == Repointed(task[t], ref, dst)
           row == Aligned(new)
<1>1. proc[t].pc = "transferred" /\ ~Idle(t)
  BY DEF TransferSave, Idle
<1>2. /\ proc[t].copy = task[t] /\ task[t] # Absent /\ task[t] \in Row /\ GoodRow(task[t])
      /\ task[t].sync = "synced" /\ Mirrored(task[t]) /\ proc[t] \in Running
      /\ Leads(github, dst, ref) /\ (IsClean(marks[t]) => ref.node = task[t].remote.node)
  BY <1>1, InHand DEF RunsOn
<1>3. Conclude(t, row)
  BY <1>2 DEF TransferSave
<1>4. ref \in RemoteRef /\ dst \in Repos
  <2>1. proc[t] \in [pc : {"transferred"}, copy : Row, dst : Repos, remote : RemoteRef]
    BY <1>1, <1>2 DEF Running, Rest
  <2>2. QED
    BY <2>1
<1>5. ref # NoIssue
  BY <1>2, LeadingIsIssue
<1> HIDE DEF ref, dst
<1>6. new \in Row /\ new.remote = ref /\ new.filing = dst
  BY <1>2, <1>4 DEF Row, Repointed, MaybeRepo
<1> HIDE DEF new
<1>7. /\ GoodRow(row) /\ row.remote = ref /\ row.filing = dst /\ row.base # None
      /\ row.sync = "synced" /\ row # Absent
  BY <1>5, <1>6, AlignedIsGood, RowIsThere DEF GoodRow
<1> HIDE DEF row
<1>8. AtHome(row, marks[t], github) /\ Mirrored(row)
  BY <1>2, <1>5, <1>7 DEF AtHome, Mirrored
<1>9. Unmarked => IsClean(marks[t])
  BY DEF Unmarked, IsClean
<1>10. \A f \in filed : ~(Waiting(f) /\ f.task = t)
  BY <1>1 DEF Waiting
<1>11. QED
  BY <1>1, <1>2, <1>3, <1>7, <1>8, <1>9, <1>10, ConcludeKeeps

(* push: it writes into the issue that the task stands for, so that no      *)
(* waiting issue loses the text by which a retry knows it.                  *)
LEMMA PushKeeps == ASSUME Inv, NEW t \in Tasks, Push(t) PROVE Inv'
<1>a. PICK r \in Repos : \E n \in 1 .. Len(github[r]) :
        /\ AtIssue(task[t], r, n)
        /\ github' = [github EXCEPT ![r][n].text =
                         IF task[t].sync = "conflict" \/ task[t].text # task[t].base
                         THEN task[t].text ELSE @]
  BY DEF Push
<1>1. PICK n \in 1 .. Len(github[r]) :
        /\ AtIssue(task[t], r, n)
        /\ github' = [github EXCEPT ![r][n].text =
                         IF task[t].sync = "conflict" \/ task[t].text # task[t].base
                         THEN task[t].text ELSE @]
  BY <1>a
<1> DEFINE text == IF task[t].sync = "conflict" \/ task[t].text # task[t].base
                   THEN task[t].text ELSE github[r][n].text
           row == Aligned(task[t])
<1>2. /\ Mirrored(task[t]) /\ task[t] # Absent /\ Command(t) /\ Save(t, row)
      /\ UNCHANGED <<default, nodes, proc, filed, marks>>
  BY DEF Push, Mirrored
<1>3. r = FilingRepoFor(task[t]) /\ n = task[t].remote.number
  BY <1>1 DEF AtIssue
<1>4. github[r] \in Seq(Place) /\ github \in [Repos -> Seq(Place)]
  BY DEF Inv, Places
<1>5. github[r][n] \in Place
  BY <1>4
<1>6. task[t] \in Row /\ GoodRow(task[t]) /\ task[t].remote # NoIssue
  BY <1>2, TaskRow
<1>7. text \in Texts
  BY <1>5, <1>6 DEF Row, Place
<1>8. github' = [github EXCEPT ![r][n].text = text]
  BY <1>1
<1> HIDE DEF text
<1>9. /\ Places' /\ Grows
      /\ \A q \in Repos : \A m \in 1 .. Len(github[q]) :
           (q = r /\ m = n) \/ github'[q][m].text = github[q][m].text
  BY <1>2, <1>7, <1>8, PushedPlaces DEF Inv
<1>10. /\ GoodRow(row) /\ row.remote = task[t].remote /\ row.filing = task[t].filing
       /\ row.base # None /\ row.sync = "synced" /\ row # Absent
  BY <1>6, AlignedIsGood, RowIsThere DEF GoodRow
<1> HIDE DEF row
<1>11. Stored(t, row) /\ KeepsBase(task[t], row)
  BY <1>2, <1>10, SaveStores DEF KeepsBase
<1>12. task'[t] = row /\ \A s \in Tasks \ {t} : task'[s] = task[s]
  BY <1>11, StoredRow DEF Inv
<1>13. Idle(t) /\ spent' \in [Budgets -> Nat]
  BY <1>2, SpendCounts DEF Command
<1>14. AtHome(row, marks[t], github')
  <2>1. AtHome(task[t], marks[t], github')
    BY <1>2, <1>9, TaskRow, AtHomeStays
  <2>2. QED
    BY <1>2, <1>10, <2>1 DEF AtHome, Mirrored
<1>15. RunsOn(proc[t], row, marks[t], github')
  BY <1>13 DEF Inv, Commands, RunsOn, Idle
<1>16. Unmarked => \A s \in Tasks :
           /\ Mirrored(task'[s]) => task'[s].sync # "staged"
           /\ Mirrored(task[s]) => Mirrored(task'[s]) /\ task'[s].remote.node = task[s].remote.node
  BY <1>6, <1>10, <1>12 DEF Inv, Recorded, Mirrored
<1>17. ASSUME NEW f \in filed, Unmarked, Waiting(f) PROVE Kept(f.node)' \/ Waiting(f)'
  <2>1. CASE f.node = task[t].remote.node
    BY <1>6, <1>10, <1>12, <2>1 DEF Kept, Mirrored
  <2>2. CASE f.node # task[t].remote.node
    <3>1. f.task # t /\ f.task \in Tasks /\ f.repo \in Repos
      BY <1>2, <1>17, FiledOf DEF Waiting
    <3>2. IsClean(marks[t])
      BY <1>17 DEF Unmarked, IsClean
    <3>3. NodeAt(r, n) = task[t].remote.node
      BY <1>2, <1>3, <3>2, CleanHome DEF Leads, NodeAt
    <3>4. \A m \in 1 .. Len(github[f.repo]) :
            NodeAt(f.repo, m) = f.node => github'[f.repo][m].text = github[f.repo][m].text
      BY <1>9, <2>2, <3>1, <3>3
    <3>5. QED
      BY <1>2, <1>9, <1>12, <1>17, <3>1, <3>4, WaitingStays DEF Waiting
  <2>3. QED
    BY <2>1, <2>2
<1>18. Recorded'
  BY <1>2, <1>9, <1>16, <1>17, RecordedStays
<1>19. QED
  BY <1>2, <1>9, <1>10, <1>11, <1>13, <1>14, <1>15, <1>18, StepKeeps DEF Inv, Commands

-----------------------------------------------------------------------------
(* The theorems.                                                            *)

(* Nothing is tracked, filed or running at first.                           *)
LEMMA InitInv == ASSUME Init PROVE Inv
<1>1. /\ \A t \in Tasks : task[t] = Absent /\ versions[t] = {} /\ proc[t] = Rest /\ marks[t] = {}
      /\ \A r \in Repos : github[r] = <<>>
  BY DEF Init
<1>2. Rows /\ Snapshots /\ Scalars
  BY <1>1 DEF Init, Rows, Snapshots, Scalars, MaybeRepo
<1>3. Places
  <2>1. github \in [Repos -> Seq(Place)] /\ nodes \in Nat
    BY DEF Init
  <2>2. \A r \in Repos : 1 .. Len(github[r]) = {}
    BY <1>1
  <2>3. QED
    BY <2>1, <2>2 DEF Places
<1>4. Commands
  BY <1>1 DEF Init, Commands, RunsOn, Running, Rest
<1>5. Keys /\ Homes
  BY <1>1 DEF Keys, Homes, AtHome, Mirrored
<1>6. Recorded
  BY <1>1 DEF Init, Recorded, Mirrored
<1>7. QED
  BY <1>2, <1>3, <1>4, <1>5, <1>6 DEF Inv

(* A step that changes no variable.                                         *)
LEMMA StutterKeeps == ASSUME Inv, UNCHANGED vars PROVE Inv'
<1>1. /\ UNCHANGED <<task, versions, default, github, nodes, proc, spent, filed, marks>>
  BY DEF vars
<1>2. Places' /\ Grows
  BY <1>1, NothingGrows
<1>3. Recorded'
  BY <1>1, <1>2, RowsAlone, WaitingAlone, RecordedStays
<1>4. QED
  BY <1>1, <1>2, <1>3, OthersGoOn, StillKeeps DEF Inv, Commands, Scalars

(* Every command, every step of one and every change on GitHub.             *)
LEMMA NextInv == ASSUME Inv, [Next]_vars PROVE Inv'
<1>1. ASSUME NEW t \in Tasks,
             \/ Create(t) \/ Import(t) \/ EditText(t) \/ EditRepo(t) \/ EditFiling(t) \/ Stage(t)
             \/ Pull(t) \/ Link(t) \/ Relink(t) \/ Rollback(t)
      PROVE  Inv'
  BY <1>1, CreateKeeps, ImportKeeps, EditTextKeeps, EditRepoKeeps, EditFilingKeeps, StageKeeps,
     PullKeeps, LinkKeeps, RelinkKeeps, RollbackKeeps
<1>2. ASSUME NEW t \in Tasks,
             \/ PromoteBegin(t) \/ PromoteScan(t) \/ PromoteCreate(t) \/ PromoteSave(t)
             \/ TransferBegin(t) \/ TransferSend(t) \/ TransferSave(t) \/ Push(t) \/ Kill(t)
      PROVE  Inv'
  BY <1>2, PromoteBeginKeeps, PromoteScanKeeps, PromoteCreateKeeps, PromoteSaveKeeps,
     TransferBeginKeeps, TransferSendKeeps, TransferSaveKeeps, PushKeeps, KillKeeps
<1>3. CASE SetDefault \/ UiOpen \/ UiTransfer
  BY <1>3, SetDefaultKeeps, UiOpenKeeps, UiTransferKeeps
<1>4. CASE UNCHANGED vars
  BY <1>4, StutterKeeps
<1>5. QED
  BY <1>1, <1>2, <1>3, <1>4 DEF Next

(* The invariant of every run of Filing.                                    *)
LEMMA SpecInv == Spec => []Inv
<1>1. Init => Inv
  BY InitInv
<1>2. Inv /\ [Next]_vars => Inv'
  BY NextInv
<1>3. QED
  BY <1>1, <1>2, PTL DEF Spec

(* Rows, places and commands keep their types, and a row's sync state fits  *)
(* its remote and its baseline, after every command and every rollback      *)
(* (Task::with_filing and the transitions of domain-task).                  *)
THEOREM FilingTypeOK == Spec => []TypeOK
<1>1. Inv => TypeOK
  <2> SUFFICES ASSUME Inv PROVE TypeOK
    OBVIOUS
  <2>1. task \in [Tasks -> Row \cup {Absent}]
    BY DEF Inv, Rows
  <2>2. ASSUME NEW t \in Tasks, task[t] # Absent
        PROVE  IF Mirrored(task[t]) THEN task[t].sync # "local_only"
                                    ELSE task[t].sync \in {"local_only", "staged"}
    BY <2>2, TaskRow DEF GoodRow
  <2>3. ASSUME NEW t \in Tasks, task[t].sync \in {"synced", "dirty_local"} PROVE task[t].base # None
    <3>1. task[t] # Absent
      BY <2>3 DEF Absent
    <3>2. QED
      BY <2>3, <3>1, TaskRow DEF GoodRow
  <2>4. /\ \A t \in Tasks : versions[t] \subseteq Version
        /\ default \in MaybeRepo /\ nodes \in Nat /\ spent \in [Budgets -> Nat]
    BY DEF Inv, Snapshots, Scalars, Places
  <2>5. ASSUME NEW r \in Repos, NEW n \in 1 .. Len(github[r]) PROVE github[r][n] \in Place
    <3>1. github[r] \in Seq(Place)
      BY DEF Inv, Places
    <3>2. QED
      BY <3>1
  <2>6. \A t \in Tasks : proc[t].pc \in {"idle", "scan", "create", "created", "transfer", "transferred"}
    BY DEF Inv, Commands, Running, Rest
  <2>7. QED
    BY <2>1, <2>2, <2>3, <2>4, <2>5, <2>6 DEF TypeOK
<1>2. QED
  BY <1>1, SpecInv, PTL

(* filing_repo_id and number of a mirrored task lead to the issue it stands *)
(* for, whatever promotes, transfers, crashes, new defaults and moves on    *)
(* GitHub come in between (filing_canonical_for).                           *)
THEOREM FilingHomeIsStable == Spec => []HomeIsStable
<1>1. Inv => HomeIsStable
  <2> SUFFICES ASSUME Inv, NEW t \in Tasks, Mirrored(task[t]),
                      marks[t] \cap {"linked", "rolled_back"} = {}
               PROVE  OwnAddress(task[t])
    BY DEF HomeIsStable
  <2>1. Leads(github, task[t].filing, task[t].remote) /\ FilingRepoFor(task[t]) = task[t].filing
    BY CleanHome DEF IsClean
  <2>2. QED
    BY <2>1 DEF Leads, OwnAddress, Exists, NodeAt
<1>2. QED
  BY <1>1, SpecInv, PTL

(* No two tasks stand for one issue: the unique key of remote_mappings is   *)
(* enough, because a clean mirrored row leads to its issue's own place.     *)
THEOREM FilingOneTaskPerIssue == Spec => []OneTaskPerIssue
<1>1. Inv => OneTaskPerIssue
  <2> SUFFICES ASSUME Inv, NEW s \in Tasks, NEW t \in Tasks, s # t,
                      Mirrored(task[s]), Mirrored(task[t]),
                      (marks[s] \cup marks[t]) \cap {"linked", "rolled_back"} = {},
                      ~MovedAway(task[s]), ~MovedAway(task[t]),
                      task[s].remote.node = task[t].remote.node
               PROVE  FALSE
    BY DEF OneTaskPerIssue
  <2>1. /\ Leads(github, task[s].filing, task[s].remote) /\ FilingRepoFor(task[s]) = task[s].filing
        /\ Leads(github, task[t].filing, task[t].remote) /\ FilingRepoFor(task[t]) = task[t].filing
    BY CleanHome DEF IsClean
  <2>2. /\ ~HasMoved(task[s].filing, task[s].remote.number)
        /\ ~HasMoved(task[t].filing, task[t].remote.number)
    BY <2>1 DEF MovedAway
  <2>3. task[s].filing = task[t].filing /\ task[s].remote.number = task[t].remote.number
    <3> DEFINE r == task[s].filing
               q == task[t].filing
               n == task[s].remote.number
               m == task[t].remote.number
    <3>1. /\ r \in Repos /\ n \in 1 .. Len(github[r]) /\ NodeAt(r, n) = task[s].remote.node
          /\ q \in Repos /\ m \in 1 .. Len(github[q]) /\ NodeAt(q, m) = task[t].remote.node
      BY <2>1 DEF Leads, NodeAt
    <3>2. ~HasMoved(r, n) /\ ~HasMoved(q, m)
      BY <2>2
    <3> HIDE DEF r, q, n, m
    <3>3. r = q /\ n = m
      BY <3>1, <3>2 DEF Inv, Places
    <3>4. QED
      BY <3>3 DEF r, q, n, m
  <2>4. QED
    BY <2>3 DEF Inv, Keys
<1>2. QED
  BY <1>1, SpecInv, PTL

(* An issue that promote created is mirrored, or its task is still staged:  *)
(* the durable record that the retry starts from (find_promoted_orphan).    *)
THEOREM FilingFiledIsTracked == Spec => []FiledIsTracked
<1>1. Inv => FiledIsTracked
  BY DEF Inv, Recorded, Unmarked, Kept, Waiting, FiledIsTracked
<1>2. QED
  BY <1>1, SpecInv, PTL

-----------------------------------------------------------------------------
(***************************************************************************)
(* Projects as rows.                                                       *)
(***************************************************************************)

Function(m) == m = [k \in DOMAIN m |-> m[k]]

\* A project as the commands hold it: its fields are finitely many, their options
\* are lists, and it passes its own validation.
Valid(project) ==
  /\ DOMAIN project = {"kinds", "options", "status", "priority"}
  /\ Function(project)
  /\ IsFiniteSet(DOMAIN project.kinds)
  /\ Function(project.kinds)
  /\ DOMAIN project.options = DOMAIN project.kinds /\ Function(project.options)
  /\ \A f \in DOMAIN project.kinds : project.options[f] \in Seq(Range(project.options[f]))
  /\ Function(project.status) /\ Function(project.priority)
  /\ Revalidated(project) = {project}

Own(rows, p) == {r \in rows : r[1] = p}

\* The rows of p are those of project.
InRows(t, p, project) ==
  /\ Own(t.fields, p) = FieldRows(p, project)
  /\ Own(t.options, p) = OptionRows(p, project)
  /\ Own(t.status, p) = MappingRows(p, project, "Status", project.status)
  /\ Own(t.priority, p) = MappingRows(p, project, "Priority", project.priority)

Listed(p, f, s) == {<<p, f, i, s[i]>> : i \in DOMAIN s}

\* Options come back in the order in which they were written.
LEMMA OptionsComeBack ==
  ASSUME NEW p, NEW f, NEW S, NEW s \in Seq(S)
  PROVE  InOrdinalOrder(Listed(p, f, s)) = s
<1> DEFINE rows == Listed(p, f, s)
           n == Len(s)
           row(i) == <<p, f, i, s[i]>>
           before(i) == {r \in rows : r[3] < i}
<1>1. n \in Nat /\ DOMAIN s = 1..n /\ s = [i \in 1..n |-> s[i]]
  OBVIOUS
<1>2. \A i \in 1..n : row(i) \in rows /\ row(i)[3] = i /\ row(i)[4] = s[i]
  BY <1>1 DEF Listed
<1>3. \A r \in rows : \E i \in 1..n : r = row(i)
  BY <1>1 DEF Listed
<1> HIDE DEF rows
<1>4. ASSUME NEW m \in 0..n  PROVE Cardinality({r \in rows : r[3] <= m}) = m
  <2> DEFINE T == {r \in rows : r[3] <= m}
             b == [i \in 1..m |-> row(i)]
  <2>1. 1..m \subseteq 1..n
    BY <1>1
  <2>2. b \in [1..m -> T]
    BY <1>2, <2>1
  <2>3. \A i, j \in 1..m : b[i] = b[j] => i = j
    BY <1>2, <2>1
  <2>4. \A r \in T : \E i \in 1..m : b[i] = r
    BY <1>1, <1>2, <1>3
  <2> HIDE DEF b, T
  <2>5. b \in Bijection(1..m, T)
    BY <2>2, <2>3, <2>4 DEF Bijection, Injection, Surjection, IsInjective
  <2>6. ExistsBijection(1..m, T)
    BY <2>5 DEF ExistsBijection
  <2>7. m \in Nat
    BY <1>1
  <2> QED
    BY <2>6, <2>7, FS_CountingElements DEF T
<1>5. Cardinality(rows) = n
  <2>1. {r \in rows : r[3] <= n} = rows
    <3> HIDE DEF n, row
    <3> QED
      BY <1>1, <1>2, <1>3
  <2>2. n \in 0..n
    BY <1>1
  <2> QED
    BY <1>4, <2>1, <2>2
<1>6. ASSUME NEW i \in 1..n  PROVE Cardinality({r \in rows : r[3] < row(i)[3]}) = i - 1
  <2>1. {r \in rows : r[3] < row(i)[3]} = {r \in rows : r[3] <= i - 1}
    BY <1>1, <1>2, <1>3
  <2>2. i - 1 \in 0..n
    BY <1>1
  <2> QED
    BY <1>4, <2>1, <2>2
<1>7. ASSUME NEW i \in 1..n
      PROVE  (CHOOSE r \in rows : Cardinality({q \in rows : q[3] < r[3]}) = i - 1)[4] = s[i]
  <2>1. ASSUME NEW r \in rows, Cardinality({q \in rows : q[3] < r[3]}) = i - 1
        PROVE  r[4] = s[i]
    <3>1. PICK j \in 1..n : r = row(j)
      BY <1>3
    <3>2. j - 1 = i - 1
      BY <1>6, <2>1, <3>1
    <3> QED
      BY <1>1, <1>2, <3>1, <3>2
  <2>2. row(i) \in rows /\ Cardinality({q \in rows : q[3] < row(i)[3]}) = i - 1
    BY <1>2, <1>6
  <2> HIDE DEF row
  <2> QED
    BY <2>1, <2>2
<1> QED
  BY <1>1, <1>5, <1>7 DEF InOrdinalOrder, rows

\* So do mappings, which are those of one field or empty.
LEMMA MappingsComeBack ==
  ASSUME NEW p, NEW project, NEW kind, NEW m, Function(m),
         DOMAIN m = {} \/ \E f : FieldOf(project, kind) = {f},
         NEW rows, Own(rows, p) = MappingRows(p, project, kind, m)
  PROVE  LoadMappings(rows, p) = m
<1> DEFINE own == {r \in rows : r[1] = p}
           F == FieldOf(project, kind)
<1>1. own = {<<p, f, k, m[k]>> : f \in F, k \in DOMAIN m}
  BY DEF Own, MappingRows
<1>2. LoadMappings(rows, p) = [k \in {r[3] : r \in own} |-> (CHOOSE r \in own : r[3] = k)[4]]
  BY DEF LoadMappings
<1> HIDE DEF own, F
<1>3. \A r \in own : \E k \in DOMAIN m : r[3] = k /\ r[4] = m[k]
  BY <1>1
<1>4. \A k \in DOMAIN m : \E r \in own : r[3] = k
  <2>1. CASE DOMAIN m = {}
    BY <2>1
  <2>2. ASSUME NEW f, F = {f}, NEW k \in DOMAIN m  PROVE \E r \in own : r[3] = k
    <3>1. <<p, f, k, m[k]>> \in own
      BY <1>1, <2>2
    <3> QED
      BY <3>1
  <2> QED
    BY <2>1, <2>2 DEF F
<1>5. {r[3] : r \in own} = DOMAIN m
  <2>1. \A k \in {r[3] : r \in own} : k \in DOMAIN m
    BY <1>3
  <2>2. \A k \in DOMAIN m : k \in {r[3] : r \in own}
    BY <1>4
  <2> QED
    BY <2>1, <2>2
<1>6. \A k \in DOMAIN m : (CHOOSE r \in own : r[3] = k)[4] = m[k]
  BY <1>3, <1>4
<1> QED
  BY <1>2, <1>5, <1>6 DEF Function

LEMMA FieldsComeBack ==
  ASSUME NEW t, NEW p, NEW project, Valid(project), InRows(t, p, project)
  PROVE  LoadFields(t, p).kinds = project.kinds /\ LoadFields(t, p).options = project.options
<1> DEFINE own == {r \in t.fields : r[1] = p}
           D == DOMAIN project.kinds
           of(f) == {r \in t.options : r[1] = p /\ r[2] = f}
           kind(f) == (CHOOSE r \in own : r[2] = f)[3]
<1>1. own = {<<p, f, project.kinds[f]>> : f \in D}
  BY DEF InRows, Own, FieldRows
<1>2. LoadFields(t, p).kinds = [f \in {r[2] : r \in own} |-> kind(f)]
      /\ LoadFields(t, p).options = [f \in {r[2] : r \in own} |-> InOrdinalOrder(of(f))]
  BY DEF LoadFields
<1>3. ASSUME NEW f \in D  PROVE InOrdinalOrder(of(f)) = project.options[f]
  <2> DEFINE s == project.options[f]
  <2>1. of(f) = {r \in OptionRows(p, project) : r[2] = f}
    BY DEF InRows, Own
  <2>2. of(f) = Listed(p, f, s)
    BY <2>1 DEF OptionRows, Listed
  <2>3. s \in Seq(Range(s))
    BY DEF Valid
  <2> HIDE DEF of, s
  <2>4. InOrdinalOrder(of(f)) = s
    BY <2>2, <2>3, OptionsComeBack
  <2> QED
    BY <2>4 DEF s
<1> HIDE DEF own, of, D
<1>4. ASSUME NEW r \in own  PROVE r[2] \in D /\ r[3] = project.kinds[r[2]]
  <2>1. PICK f \in D : r = <<p, f, project.kinds[f]>>
    BY <1>1
  <2> QED
    BY <2>1
<1>5. ASSUME NEW f \in D  PROVE \E r \in own : r[2] = f
  <2>1. <<p, f, project.kinds[f]>> \in own
    BY <1>1
  <2> QED
    BY <2>1
<1>6. {r[2] : r \in own} = D
  <2>1. \A f \in {r[2] : r \in own} : f \in D
    BY <1>4
  <2>2. \A f \in D : f \in {r[2] : r \in own}
    BY <1>5
  <2> QED
    BY <2>1, <2>2
<1>7. \A f \in D : kind(f) = project.kinds[f]
  BY <1>4, <1>5
<1> HIDE DEF kind
<1>8. LoadFields(t, p).kinds = [f \in D |-> project.kinds[f]]
  BY <1>2, <1>6, <1>7
<1>9. LoadFields(t, p).options = [f \in D |-> project.options[f]]
  BY <1>2, <1>3, <1>6
<1>10. project.kinds = [f \in D |-> project.kinds[f]] /\ project.options = [f \in D |-> project.options[f]]
  BY DEF Valid, D, Function
<1> QED
  BY <1>8, <1>9, <1>10

\* A field kind that a valid project maps has one field.
LEMMA OneMappedField ==
  ASSUME NEW project, Valid(project), NEW kind, NEW m,
         \/ kind = "Status" /\ m = project.status
         \/ kind = "Priority" /\ m = project.priority
  PROVE  DOMAIN m = {} \/ \E f : FieldOf(project, kind) = {f}
<1> DEFINE F == FieldOf(project, kind)
<1>1. IsFiniteSet(F)
  BY FS_Subset DEF Valid, FieldOf
<1>2. Cardinality(F) \in {0, 1} /\ \A k \in DOMAIN m : m[k] \in OwnOptions(project, kind)
  <2>1. /\ Cardinality(FieldOf(project, "Status")) = (IF DOMAIN project.kinds = {} THEN 0 ELSE 1)
        /\ Cardinality(FieldOf(project, "Priority")) <= 1
        /\ \A b \in DOMAIN project.status : project.status[b] \in OwnOptions(project, "Status")
        /\ \A q \in DOMAIN project.priority : project.priority[q] \in OwnOptions(project, "Priority")
    BY DEF Valid, Revalidated
  <2>2. Cardinality(F) \in Nat
    BY <1>1, FS_CardinalityType
  <2>3. CASE kind = "Status" /\ m = project.status
    BY <2>1, <2>3
  <2>4. CASE kind = "Priority" /\ m = project.priority
    BY <2>1, <2>2, <2>4
  <2> QED
    BY <2>3, <2>4
<1>3. CASE Cardinality(F) = 0
  <2>1. F = {}
    BY <1>1, <1>3, FS_EmptySet
  <2>2. OwnOptions(project, kind) = {}
    BY <2>1 DEF OwnOptions
  <2> QED
    BY <1>2, <2>2
<1>4. CASE Cardinality(F) = 1
  BY <1>1, <1>4, FS_Singleton
<1> QED
  BY <1>2, <1>3, <1>4

\* A project whose rows are there is what a load makes of them.
LEMMA RowsAreLoaded ==
  ASSUME NEW t, NEW p, NEW project, Valid(project), InRows(t, p, project)
  PROVE  RowToProject(t, p) = {project}
<1>1. LoadMappings(t.status, p) = project.status
  <2>1. DOMAIN project.status = {} \/ \E f : FieldOf(project, "Status") = {f}
    BY OneMappedField
  <2>2. Function(project.status) /\ Own(t.status, p) = MappingRows(p, project, "Status", project.status)
    BY DEF Valid, InRows
  <2> QED
    BY <2>1, <2>2, MappingsComeBack
<1>2. LoadMappings(t.priority, p) = project.priority
  <2>1. DOMAIN project.priority = {} \/ \E f : FieldOf(project, "Priority") = {f}
    BY OneMappedField
  <2>2. Function(project.priority) /\ Own(t.priority, p) = MappingRows(p, project, "Priority", project.priority)
    BY DEF Valid, InRows
  <2> QED
    BY <2>1, <2>2, MappingsComeBack
<1>3. LoadFields(t, p).kinds = project.kinds /\ LoadFields(t, p).options = project.options
  BY FieldsComeBack
<1> DEFINE loaded == [kinds |-> LoadFields(t, p).kinds, options |-> LoadFields(t, p).options,
                      status |-> LoadMappings(t.status, p), priority |-> LoadMappings(t.priority, p)]
<1>4. RowToProject(t, p) = Revalidated(loaded)
  BY DEF RowToProject
<1>5. loaded = project
  <2>1. loaded = [kinds |-> project.kinds, options |-> project.options, status |-> project.status,
                  priority |-> project.priority]
    BY <1>1, <1>2, <1>3
  <2> QED
    BY <2>1 DEF Valid, Function
<1> QED
  BY <1>4, <1>5 DEF Valid

-----------------------------------------------------------------------------
(***************************************************************************)
(* What the tables and the commands claim.                                 *)
(***************************************************************************)

Shaped(t) ==
  DOMAIN t = {"workspaces", "projects", "fields", "options", "status", "priority", "types"}
WorkspaceRow(r) == DOMAIN r = {"name", "status", "project", "filing", "standalone", "sub"}

ProjectsFit(t) ==
  /\ \A p \in t.projects : \E project : Valid(project) /\ InRows(t, p, project)
  /\ \A rows \in {t.fields, t.options, t.status, t.priority} : \A r \in rows : r[1] \in t.projects
WorkspacesFit(t) ==
  /\ \A w \in DOMAIN t.workspaces : /\ WorkspaceRow(t.workspaces[w])
                                    /\ t.workspaces[w].project \in t.projects \cup {"null"}
  /\ \A v, w \in DOMAIN t.workspaces : t.workspaces[v].name = t.workspaces[w].name => v = w

\* How one command changes a workspace.
Changed(old, new) == {f \in DOMAIN old : old[f] # new[f]} \ {"sub"}
Changes(old, new) ==
  /\ old.status = "archived" => new.status \in {"archived", "active"}
  /\ new.status = "created" => old.status = "created"
  /\ new.status = "paused" => old.status \in {"active", "paused"}
  /\ "null" \in {old.project, new.project} \/ old.project = new.project
  /\ \E f : Changed(old, new) \subseteq {f}

CommandFits(x) ==
  /\ x.pc \in {"resolve", "name", "save"} =>
       /\ {"pc", "copy"} \subseteq DOMAIN x
       /\ WorkspaceRow(x.base) /\ WorkspaceRow(x.copy) /\ Changes(x.base, x.copy)
  /\ x.pc = "resolve" => x.copy = x.base
  /\ x.pc = "project" => Valid(x.copy)

StoreInv ==
  /\ Shaped(tables) /\ ProjectsFit(tables) /\ WorkspacesFit(tables)
  /\ DOMAIN cmd = StoreProcs /\ \A c \in StoreProcs : CommandFits(cmd[c])

\* A save of a project puts its rows in place of the old ones, and no other.
LEMMA SavedRows ==
  ASSUME NEW rows, NEW p, NEW new, \A r \in new : r[1] = p
  PROVE  /\ Own(OtherProjects(rows, p) \cup new, p) = new
         /\ \A q : q # p => Own(OtherProjects(rows, p) \cup new, q) = Own(rows, q)
         /\ \A r \in OtherProjects(rows, p) \cup new : r[1] = p \/ r \in rows
BY DEF Own, OtherProjects

LEMMA SaveProjectFacts ==
  ASSUME NEW t, Shaped(t), NEW p, NEW project, NEW u, u = SaveProject(t, p, project)
  PROVE  /\ Shaped(u) /\ u.projects = t.projects \cup {p} /\ u.workspaces = t.workspaces
         /\ InRows(u, p, project)
         /\ \A q, other : q # p /\ InRows(t, q, other) => InRows(u, q, other)
         /\ \A rows \in {u.fields, u.options, u.status, u.priority} : \A r \in rows :
              \/ r[1] = p
              \/ \E old \in {t.fields, t.options, t.status, t.priority} : r \in old
<1> DEFINE fields == OtherProjects(t.fields, p) \cup FieldRows(p, project)
           options == OtherProjects(t.options, p) \cup OptionRows(p, project)
           status == OtherProjects(t.status, p) \cup MappingRows(p, project, "Status", project.status)
           priority == OtherProjects(t.priority, p) \cup MappingRows(p, project, "Priority", project.priority)
<1>1. /\ Shaped(u) /\ u.projects = t.projects \cup {p} /\ u.workspaces = t.workspaces
      /\ u.fields = fields /\ u.options = options /\ u.status = status /\ u.priority = priority
  BY DEF SaveProject, Shaped
<1>2. \A r \in FieldRows(p, project) : r[1] = p
  BY DEF FieldRows
<1>3. \A r \in OptionRows(p, project) : r[1] = p
  BY DEF OptionRows
<1>4. \A kind, m : \A r \in MappingRows(p, project, kind, m) : r[1] = p
  BY DEF MappingRows
<1>5. InRows(u, p, project)
  BY <1>1, <1>2, <1>3, <1>4, SavedRows DEF InRows
<1>6. (\A q : q # p => Own(fields, q) = Own(t.fields, q)) /\ \A r \in fields : r[1] = p \/ r \in t.fields
  <2>1. \A q : q # p => Own(fields, q) = Own(t.fields, q)
    BY <1>2 DEF Own, OtherProjects
  <2>2. \A r \in fields : r[1] = p \/ r \in t.fields
    BY <1>2 DEF OtherProjects
  <2> QED
    BY <2>1, <2>2
<1>7. (\A q : q # p => Own(options, q) = Own(t.options, q)) /\ \A r \in options : r[1] = p \/ r \in t.options
  <2>1. \A q : q # p => Own(options, q) = Own(t.options, q)
    BY <1>3 DEF Own, OtherProjects
  <2>2. \A r \in options : r[1] = p \/ r \in t.options
    BY <1>3 DEF OtherProjects
  <2> QED
    BY <2>1, <2>2
<1>8. (\A q : q # p => Own(status, q) = Own(t.status, q)) /\ \A r \in status : r[1] = p \/ r \in t.status
  <2>1. \A q : q # p => Own(status, q) = Own(t.status, q)
    BY <1>4 DEF Own, OtherProjects
  <2>2. \A r \in status : r[1] = p \/ r \in t.status
    BY <1>4 DEF OtherProjects
  <2> QED
    BY <2>1, <2>2
<1>9. (\A q : q # p => Own(priority, q) = Own(t.priority, q)) /\ \A r \in priority : r[1] = p \/ r \in t.priority
  <2>1. \A q : q # p => Own(priority, q) = Own(t.priority, q)
    BY <1>4 DEF Own, OtherProjects
  <2>2. \A r \in priority : r[1] = p \/ r \in t.priority
    BY <1>4 DEF OtherProjects
  <2> QED
    BY <2>1, <2>2
<1> HIDE DEF fields, options, status, priority
<1>10. ASSUME NEW q, NEW other, q # p, InRows(t, q, other)  PROVE InRows(u, q, other)
  <2>1. /\ Own(u.fields, q) = Own(t.fields, q) /\ Own(u.options, q) = Own(t.options, q)
        /\ Own(u.status, q) = Own(t.status, q) /\ Own(u.priority, q) = Own(t.priority, q)
    BY <1>1, <1>6, <1>7, <1>8, <1>9, <1>10
  <2> QED
    BY <1>10, <2>1 DEF InRows
<1>11. /\ \A r \in u.fields : r[1] = p \/ r \in t.fields
       /\ \A r \in u.options : r[1] = p \/ r \in t.options
       /\ \A r \in u.status : r[1] = p \/ r \in t.status
       /\ \A r \in u.priority : r[1] = p \/ r \in t.priority
  BY <1>1, <1>6, <1>7, <1>8, <1>9
<1> QED
  BY <1>1, <1>5, <1>10, <1>11

\* Linking a project again, or mapping one of its options, keeps the tables.
LEMMA SaveProjectFits ==
  ASSUME NEW t, Shaped(t), ProjectsFit(t), WorkspacesFit(t), NEW p, NEW project, Valid(project),
         NEW u, u = SaveProject(t, p, project)
  PROVE  Shaped(u) /\ ProjectsFit(u) /\ WorkspacesFit(u)
<1>1. /\ Shaped(u) /\ u.projects = t.projects \cup {p} /\ u.workspaces = t.workspaces
      /\ InRows(u, p, project)
      /\ \A q, other : q # p /\ InRows(t, q, other) => InRows(u, q, other)
      /\ \A rows \in {u.fields, u.options, u.status, u.priority} : \A r \in rows :
           \/ r[1] = p
           \/ \E old \in {t.fields, t.options, t.status, t.priority} : r \in old
  BY SaveProjectFacts
<1>2. ASSUME NEW q \in u.projects  PROVE \E other : Valid(other) /\ InRows(u, q, other)
  <2>1. CASE q = p
    BY <1>1, <2>1
  <2>2. CASE q # p
    <3>1. PICK other : Valid(other) /\ InRows(t, q, other)
      BY <1>1, <2>2 DEF ProjectsFit
    <3> QED
      BY <1>1, <2>2, <3>1
  <2> QED
    BY <2>1, <2>2
<1>3. ASSUME NEW rows \in {u.fields, u.options, u.status, u.priority}, NEW r \in rows
      PROVE  r[1] \in u.projects
  <2>1. r[1] = p \/ \E old \in {t.fields, t.options, t.status, t.priority} : r \in old
    BY <1>1, <1>3
  <2>2. \A old \in {t.fields, t.options, t.status, t.priority} : r \in old => r[1] \in t.projects
    BY DEF ProjectsFit
  <2> QED
    BY <1>1, <2>1, <2>2
<1>4. WorkspacesFit(u)
  BY <1>1 DEF WorkspacesFit
<1> QED
  BY <1>1, <1>2, <1>3, <1>4 DEF ProjectsFit

\* So does unlinking it: its rows and the references to it go with it.
LEMMA DeleteProjectFits ==
  ASSUME NEW t, Shaped(t), ProjectsFit(t), WorkspacesFit(t), NEW p, NEW u, u = DeleteProject(t, p)
  PROVE  Shaped(u) /\ ProjectsFit(u) /\ WorkspacesFit(u)
<1>1. /\ Shaped(u) /\ u.projects = t.projects \ {p}
      /\ u.fields = OtherProjects(t.fields, p) /\ u.options = OtherProjects(t.options, p)
      /\ u.status = OtherProjects(t.status, p) /\ u.priority = OtherProjects(t.priority, p)
      /\ u.workspaces = [w \in DOMAIN t.workspaces |->
                           IF t.workspaces[w].project = p THEN [t.workspaces[w] EXCEPT !.project = "null"]
                           ELSE t.workspaces[w]]
  BY DEF DeleteProject, Shaped
<1>2. \A rows, q : q # p => Own(OtherProjects(rows, p), q) = Own(rows, q)
  BY DEF Own, OtherProjects
<1>3. ASSUME NEW q \in u.projects  PROVE \E other : Valid(other) /\ InRows(u, q, other)
  <2>1. PICK other : Valid(other) /\ InRows(t, q, other)
    BY <1>1 DEF ProjectsFit
  <2>2. InRows(u, q, other)
    BY <1>1, <1>2, <2>1 DEF InRows
  <2> QED
    BY <2>1, <2>2
<1>4. /\ \A r \in u.fields : r \in t.fields /\ r[1] # p
      /\ \A r \in u.options : r \in t.options /\ r[1] # p
      /\ \A r \in u.status : r \in t.status /\ r[1] # p
      /\ \A r \in u.priority : r \in t.priority /\ r[1] # p
  BY <1>1 DEF OtherProjects
<1>5. ProjectsFit(u)
  BY <1>1, <1>3, <1>4 DEF ProjectsFit
<1>6. ASSUME NEW w \in DOMAIN u.workspaces
      PROVE  /\ w \in DOMAIN t.workspaces /\ WorkspaceRow(u.workspaces[w])
             /\ u.workspaces[w].project \in u.projects \cup {"null"}
             /\ u.workspaces[w].name = t.workspaces[w].name
  BY <1>1 DEF WorkspacesFit, WorkspaceRow
<1> QED
  BY <1>1, <1>5, <1>6 DEF WorkspacesFit

\* A workspace is saved under a name that is free and with a project that is there.
LEMMA SaveWorkspaceFits ==
  ASSUME NEW t, Shaped(t), ProjectsFit(t), WorkspacesFit(t), NEW w, NEW row, WorkspaceRow(row),
         NEW u \in SaveWorkspace(t, w, row)
  PROVE  /\ Shaped(u) /\ ProjectsFit(u) /\ WorkspacesFit(u)
         /\ w \in DOMAIN u.workspaces /\ u.workspaces[w] = row
<1>1. /\ \A v \in DOMAIN t.workspaces \ {w} : t.workspaces[v].name # row.name
      /\ row.project \in t.projects \cup {"null"}
      /\ u = [t EXCEPT !.workspaces = [v \in DOMAIN @ \cup {w} |-> IF v = w THEN row ELSE @[v]]]
  BY DEF SaveWorkspace
<1>2. /\ Shaped(u) /\ u.projects = t.projects /\ u.fields = t.fields /\ u.options = t.options
      /\ u.status = t.status /\ u.priority = t.priority
      /\ u.workspaces = [v \in DOMAIN t.workspaces \cup {w} |-> IF v = w THEN row ELSE t.workspaces[v]]
  BY <1>1 DEF Shaped
<1>3. ProjectsFit(u)
  BY <1>2 DEF ProjectsFit, InRows
<1>4. WorkspacesFit(u)
  BY <1>1, <1>2 DEF WorkspacesFit
<1> QED
  BY <1>2, <1>3, <1>4

-----------------------------------------------------------------------------
(***************************************************************************)
(* The commands.                                                           *)
(***************************************************************************)

\* A command goes on in a state that fits, with tables that fit.
LEMMA CommandMoves ==
  ASSUME StoreInv, NEW c \in StoreProcs, NEW x, CommandFits(x), cmd' = [cmd EXCEPT ![c] = x],
         Shaped(tables') /\ ProjectsFit(tables') /\ WorkspacesFit(tables')
  PROVE  StoreInv'
<1>1. DOMAIN cmd' = StoreProcs /\ \A d \in StoreProcs : cmd'[d] = IF d = c THEN x ELSE cmd[d]
  BY DEF StoreInv
<1>2. \A d \in StoreProcs : CommandFits(cmd'[d])
  BY <1>1 DEF StoreInv
<1> QED
  BY <1>1, <1>2 DEF StoreInv

LEMMA CommandBegins ==
  ASSUME StoreInv, NEW c \in StoreProcs, NEW x, CommandFits(x), Begin(c, x)  PROVE StoreInv'
<1>1. cmd' = [cmd EXCEPT ![c] = x] /\ tables' = tables
  BY DEF Begin
<1>2. Shaped(tables') /\ ProjectsFit(tables') /\ WorkspacesFit(tables')
  BY <1>1 DEF StoreInv
<1> QED
  BY <1>1, <1>2, CommandMoves

LEMMA GiveUpKeepsStore == ASSUME StoreInv, NEW c \in StoreProcs, GiveUp(c)  PROVE StoreInv'
<1>1. cmd' = [cmd EXCEPT ![c] = Done] /\ tables' = tables
  BY DEF GiveUp, Move
<1>2. Shaped(tables') /\ ProjectsFit(tables') /\ WorkspacesFit(tables')
  BY <1>1 DEF StoreInv
<1>3. CommandFits(Done)
  BY DEF CommandFits, Done
<1> QED
  BY <1>1, <1>2, <1>3, CommandMoves

LEMMA NoChange == ASSUME NEW r, WorkspaceRow(r)  PROVE Changes(r, r)
BY DEF Changes, Changed

\* A copy with one field set, whatever the verb.
LEMMA OneField ==
  ASSUME NEW r, WorkspaceRow(r), NEW v
  PROVE  /\ LET x == [r EXCEPT !.name = v] IN WorkspaceRow(x) /\ Changes(r, x)
         /\ LET x == [r EXCEPT !.filing = v] IN WorkspaceRow(x) /\ Changes(r, x)
<1>1. LET x == [r EXCEPT !.name = v] IN WorkspaceRow(x) /\ Changes(r, x)
  <2> DEFINE x == [r EXCEPT !.name = v]
  <2>1. WorkspaceRow(x) /\ x.status = r.status /\ x.project = r.project /\ Changed(r, x) \subseteq {"name"}
    BY DEF WorkspaceRow, Changed
  <2> HIDE DEF x
  <2>2. WorkspaceRow(x) /\ Changes(r, x)
    BY <2>1 DEF Changes
  <2> QED
    BY <2>2 DEF x
<1>2. LET x == [r EXCEPT !.filing = v] IN WorkspaceRow(x) /\ Changes(r, x)
  <2> DEFINE x == [r EXCEPT !.filing = v]
  <2>1. WorkspaceRow(x) /\ x.status = r.status /\ x.project = r.project /\ Changed(r, x) \subseteq {"filing"}
    BY DEF WorkspaceRow, Changed
  <2> HIDE DEF x
  <2>2. WorkspaceRow(x) /\ Changes(r, x)
    BY <2>1 DEF Changes
  <2> QED
    BY <2>2 DEF x
<1> QED
  BY <1>1, <1>2

LEMMA ChangeRowKeeps ==
  ASSUME StoreInv, NEW c \in StoreProcs, NEW w \in DOMAIN tables.workspaces, NEW copy,
         WorkspaceRow(copy), Changes(tables.workspaces[w], copy), ChangeRow(c, w, copy)
  PROVE  StoreInv'
<1> DEFINE x == [pc |-> "save", ws |-> w, base |-> tables.workspaces[w], copy |-> copy]
<1>1. WorkspaceRow(tables.workspaces[w])
  BY DEF StoreInv, WorkspacesFit
<1>2. CommandFits(x)
  BY <1>1 DEF CommandFits
<1> QED
  BY <1>2, CommandBegins DEF ChangeRow

LEMMA StartTransitionKeeps == ASSUME StoreInv, NEW c \in StoreProcs, StartTransition(c)  PROVE StoreInv'
<1> PICK w \in DOMAIN tables.workspaces, verb \in DOMAIN From :
      \E copy \in Transition(tables.workspaces[w], verb) : ChangeRow(c, w, copy)
  BY DEF StartTransition
<1> PICK copy \in Transition(tables.workspaces[w], verb) : ChangeRow(c, w, copy)
  OBVIOUS
<1> DEFINE r == tables.workspaces[w]
<1>1. WorkspaceRow(r)
  BY DEF StoreInv, WorkspacesFit
<1>2. r.status \in From[verb] /\ copy = [r EXCEPT !.status = Into[verb]]
  BY DEF Transition
<1> HIDE DEF r
<1>3. /\ Into[verb] \in {"active", "paused", "archived"}
      /\ Into[verb] = "paused" => r.status = "active"
      /\ r.status = "archived" => Into[verb] = "active"
  BY <1>2 DEF From, Into
<1>4. WorkspaceRow(copy) /\ copy.status = Into[verb] /\ copy.project = r.project /\ Changed(r, copy) \subseteq {"status"}
  BY <1>1, <1>2 DEF WorkspaceRow, Changed
<1>5. Changes(r, copy)
  BY <1>3, <1>4 DEF Changes
<1> QED
  BY <1>4, <1>5, ChangeRowKeeps DEF r

LEMMA StartSetFilingRepoKeeps == ASSUME StoreInv, NEW c \in StoreProcs, StartSetFilingRepo(c)  PROVE StoreInv'
<1> PICK w \in DOMAIN tables.workspaces, origin \in {"origin", "null"} :
      ChangeRow(c, w, [tables.workspaces[w] EXCEPT !.filing = origin])
  BY DEF StartSetFilingRepo
<1>1. WorkspaceRow(tables.workspaces[w])
  BY DEF StoreInv, WorkspacesFit
<1>2. LET x == [tables.workspaces[w] EXCEPT !.filing = origin]
      IN  WorkspaceRow(x) /\ Changes(tables.workspaces[w], x)
  BY <1>1, OneField
<1> QED
  BY <1>2, ChangeRowKeeps

LEMMA StartSetDefaultTypeKeeps == ASSUME StoreInv, NEW c \in StoreProcs, StartSetDefaultType(c)  PROVE StoreInv'
<1> PICK w \in DOMAIN tables.workspaces, s \in {"leave", "null", "Bug"}, b \in {"leave", "null", "Bug"} :
      ChangeRow(c, w, SetDefaultIssueTypes(tables.workspaces[w], s, b))
  BY DEF StartSetDefaultType
<1> DEFINE r == tables.workspaces[w]
           x == SetDefaultIssueTypes(r, s, b)
<1>1. WorkspaceRow(r)
  BY DEF StoreInv, WorkspacesFit
<1>2. WorkspaceRow(x) /\ x.status = r.status /\ x.project = r.project /\ Changed(r, x) \subseteq {"standalone"}
  BY <1>1 DEF WorkspaceRow, Changed, SetDefaultIssueTypes
<1>3. ChangeRow(c, w, x)
  OBVIOUS
<1> HIDE DEF x
<1>4. Changes(r, x)
  BY <1>2 DEF Changes
<1> QED
  BY <1>2, <1>3, <1>4, ChangeRowKeeps

LEMMA StartWorkspaceKeeps ==
  ASSUME StoreInv, NEW c \in StoreProcs, StartCreate(c) \/ StartEdit(c) \/ StartSetProject(c)
  PROVE  StoreInv'
<1>1. CASE StartCreate(c)
  <2> PICK w \in WorkspaceIds, name \in Names, p \in ProjectIds \cup {"null"} :
        Begin(c, [pc |-> "resolve", ws |-> w, base |-> NewWorkspace(name), copy |-> NewWorkspace(name), to |-> p])
    BY <1>1 DEF StartCreate
  <2> DEFINE x == [pc |-> "resolve", ws |-> w, base |-> NewWorkspace(name), copy |-> NewWorkspace(name), to |-> p]
  <2>1. WorkspaceRow(NewWorkspace(name))
    BY DEF WorkspaceRow, NewWorkspace
  <2>2. CommandFits(x)
    BY <2>1, NoChange DEF CommandFits
  <2> QED
    BY <2>2, CommandBegins
<1>2. CASE StartEdit(c)
  <2> PICK w \in DOMAIN tables.workspaces, name \in Names :
        Begin(c, [pc |-> "name", ws |-> w, base |-> tables.workspaces[w],
                  copy |-> [tables.workspaces[w] EXCEPT !.name = name]])
    BY <1>2 DEF StartEdit
  <2> DEFINE r == tables.workspaces[w]
             y == [r EXCEPT !.name = name]
             x == [pc |-> "name", ws |-> w, base |-> r, copy |-> y]
  <2>1. WorkspaceRow(r)
    BY DEF StoreInv, WorkspacesFit
  <2>2. WorkspaceRow(y) /\ Changes(r, y)
    BY <2>1, OneField
  <2>3. Begin(c, x)
    OBVIOUS
  <2> HIDE DEF r, y
  <2>4. CommandFits(x)
    BY <2>1, <2>2 DEF CommandFits
  <2> QED
    BY <2>3, <2>4, CommandBegins
<1>3. CASE StartSetProject(c)
  <2> PICK w \in DOMAIN tables.workspaces, p \in ProjectIds \cup {"null"} :
        Begin(c, [pc |-> "resolve", ws |-> w, base |-> tables.workspaces[w], copy |-> tables.workspaces[w], to |-> p])
    BY <1>3 DEF StartSetProject
  <2> DEFINE r == tables.workspaces[w]
             x == [pc |-> "resolve", ws |-> w, base |-> r, copy |-> r, to |-> p]
  <2>1. WorkspaceRow(r)
    BY DEF StoreInv, WorkspacesFit
  <2>2. Begin(c, x)
    OBVIOUS
  <2> HIDE DEF r
  <2>3. CommandFits(x)
    BY <2>1, NoChange DEF CommandFits
  <2> QED
    BY <2>2, <2>3, CommandBegins
<1> QED
  BY <1>1, <1>2, <1>3

\* What a board gives, linked, is a valid project.
LEMMA LinkedIsValid ==
  ASSUME StoresConstants, NEW board \in Boards, NEW project \in Linked(board)  PROVE Valid(project)
<1> DEFINE ids == {board[i].id : i \in DOMAIN board}
           at(f) == CHOOSE i \in DOMAIN board : board[i].id = f
           kinds == [f \in ids |-> AssignFieldKinds(board)[at(f)]]
           options == [f \in ids |-> board[at(f)].options]
           status == DeriveStatusMappings(OptionsOf(board, "Status"))
           priority == DerivePriorityMappings(OptionsOf(board, "Priority"))
           made == [kinds |-> kinds, options |-> options, status |-> status, priority |-> priority]
<1>1. board \in Seq(Range(board)) /\ \A i \in DOMAIN board : board[i].options \in Seq(Range(board[i].options))
  BY DEF StoresConstants
<1>2. project \in Revalidated(made)
  BY DEF Linked
<1>3. project = made /\ Revalidated(made) = {made}
  BY <1>2 DEF Revalidated
<1>4. IsFiniteSet(ids)
  <2>1. DOMAIN board = 1..Len(board) /\ Len(board) \in Nat
    BY <1>1
  <2>2. IsFiniteSet(DOMAIN board)
    BY <2>1, FS_Interval
  <2> DEFINE idOf == [i \in DOMAIN board |-> board[i].id]
  <2>3. idOf \in Surjection(DOMAIN board, ids)
    BY DEF Surjection
  <2> QED
    BY <2>2, <2>3, FS_Surjection
<1>5. \A f \in ids : options[f] \in Seq(Range(options[f]))
  <2>1. \A f \in ids : at(f) \in DOMAIN board
    OBVIOUS
  <2> QED
    BY <1>1, <2>1
<1>6. Function(status)
  BY DEF Function, DeriveStatusMappings
<1>7. Function(priority)
  BY DEF Function, DerivePriorityMappings
<1>8. Function(kinds) /\ DOMAIN kinds = ids /\ Function(options) /\ DOMAIN options = ids
  BY DEF Function
<1> HIDE DEF ids, kinds, options, status, priority
<1>9. Function(made) /\ DOMAIN made = {"kinds", "options", "status", "priority"}
  BY DEF Function
<1> QED
  BY <1>3, <1>4, <1>5, <1>6, <1>7, <1>8, <1>9 DEF Valid

\* So is a valid one with one more mapping, if it passes its validation.
LEMMA MappedIsValid ==
  ASSUME NEW project, Valid(project), NEW k, NEW option, NEW made,
         \/ made \in Revalidated(WithStatus(project, k, option))
         \/ made \in Revalidated(WithPriority(project, k, option))
  PROVE  Valid(made)
<1> DEFINE m(old) == [j \in DOMAIN old \cup {k} |-> IF j = k THEN option ELSE old[j]]
<1>1. \A old : Function(m(old))
  BY DEF Function
<1>2. CASE made \in Revalidated(WithStatus(project, k, option))
  <2>1. made = WithStatus(project, k, option) /\ Revalidated(made) = {made}
    BY <1>2 DEF Revalidated
  <2>2. made = [project EXCEPT !.status = m(project.status)]
    BY <2>1 DEF WithStatus, Valid
  <2> HIDE DEF m
  <2>3. /\ made.kinds = project.kinds /\ made.options = project.options /\ made.priority = project.priority
        /\ made.status = m(project.status) /\ DOMAIN made = DOMAIN project /\ Function(made)
    BY <2>2 DEF Valid, Function
  <2> QED
    BY <1>1, <2>1, <2>3 DEF Valid
<1>3. CASE made \in Revalidated(WithPriority(project, k, option))
  <2>1. made = WithPriority(project, k, option) /\ Revalidated(made) = {made}
    BY <1>3 DEF Revalidated
  <2>2. made = [project EXCEPT !.priority = m(project.priority)]
    BY <2>1 DEF WithPriority, Valid
  <2> HIDE DEF m
  <2>3. /\ made.kinds = project.kinds /\ made.options = project.options /\ made.status = project.status
        /\ made.priority = m(project.priority) /\ DOMAIN made = DOMAIN project /\ Function(made)
    BY <2>2 DEF Valid, Function
  <2> QED
    BY <1>1, <2>1, <2>3 DEF Valid
<1> QED
  BY <1>2, <1>3

\* What a command reads is valid.
LEMMA ReadIsValid ==
  ASSUME NEW t, ProjectsFit(t), NEW p, NEW byNumber, NEW project \in ResolveProject(t, p, byNumber)
  PROVE  Valid(project)
<1>1. p \in t.projects /\ project \in RowToProject(t, p)
  BY DEF ResolveProject, GetProject
<1>2. PICK other : Valid(other) /\ InRows(t, p, other)
  BY <1>1 DEF ProjectsFit
<1> QED
  BY <1>1, <1>2, RowsAreLoaded

LEMMA StartProjectKeeps ==
  ASSUME StoresConstants, StoreInv, NEW c \in StoreProcs,
         \/ StartLink(c) \/ StartMapStatus(c) \/ StartMapPriority(c) \/ StartFetchTypes(c) \/ StartUnlink(c)
  PROVE  StoreInv'
<1>1. ASSUME NEW p, NEW project, Valid(project), NEW link,
             Begin(c, [pc |-> "project", ws |-> "none", id |-> p, copy |-> project, link |-> link])
      PROVE  StoreInv'
  <2> DEFINE x == [pc |-> "project", ws |-> "none", id |-> p, copy |-> project, link |-> link]
  <2>1. x.pc = "project" /\ x.copy = project
    OBVIOUS
  <2>2. CommandFits(x)
    BY <1>1, <2>1 DEF CommandFits
  <2> QED
    BY <1>1, <2>2, CommandBegins
<1>2. CASE StartLink(c)
  <2> PICK p \in ProjectIds, board \in Boards : \E project \in Linked(board) :
        Begin(c, [pc |-> "project", ws |-> "none", id |-> p, copy |-> project, link |-> TRUE])
    BY <1>2 DEF StartLink
  <2> QED
    BY <1>1, LinkedIsValid
<1>3. ASSUME NEW p, NEW kind, NEW option, NEW project, Valid(project), NEW copy, NEW k,
             copy = WithStatus(project, k, option) \/ copy = WithPriority(project, k, option),
             StartMap(c, p, kind, option, copy)
      PROVE  StoreInv'
  <2>1. PICK made \in Revalidated(copy) :
          Begin(c, [pc |-> "project", ws |-> "none", id |-> p, copy |-> made, link |-> FALSE])
    BY <1>3 DEF StartMap
  <2>2. Valid(made)
    BY <1>3, MappedIsValid
  <2> QED
    BY <1>1, <2>1, <2>2
<1>4. ProjectsFit(tables)
  BY DEF StoreInv
<1>5. CASE StartMapStatus(c)
  <2>1. PICK p \in ProjectIds, byNumber \in BOOLEAN :
          \E project \in ResolveProject(tables, p, byNumber), option \in {"a", "b"} :
            StartMap(c, p, "Status", option, WithStatus(project, TRUE, option))
    BY <1>5 DEF StartMapStatus
  <2>2. PICK project \in ResolveProject(tables, p, byNumber), option \in {"a", "b"} :
          StartMap(c, p, "Status", option, WithStatus(project, TRUE, option))
    BY <2>1
  <2>3. Valid(project)
    BY <1>4, ReadIsValid
  <2> QED
    BY <1>3, <2>2, <2>3
<1>6. CASE StartMapPriority(c)
  <2>1. PICK p \in ProjectIds, byNumber \in BOOLEAN :
          \E project \in ResolveProject(tables, p, byNumber), option \in {"a", "b"} :
            StartMap(c, p, "Priority", option, WithPriority(project, 0, option))
    BY <1>6 DEF StartMapPriority
  <2>2. PICK project \in ResolveProject(tables, p, byNumber), option \in {"a", "b"} :
          StartMap(c, p, "Priority", option, WithPriority(project, 0, option))
    BY <2>1
  <2>3. Valid(project)
    BY <1>4, ReadIsValid
  <2> QED
    BY <1>3, <2>2, <2>3
<1>7. CASE StartFetchTypes(c)
  <2>1. CommandFits([pc |-> "types", ws |-> "none"])
    BY DEF CommandFits
  <2> QED
    BY <1>7, <2>1, CommandBegins DEF StartFetchTypes
<1>8. CASE StartUnlink(c)
  <2>1. PICK p \in ProjectIds : Begin(c, [pc |-> "delete", ws |-> "none", id |-> p])
    BY <1>8 DEF StartUnlink
  <2>2. CommandFits([pc |-> "delete", ws |-> "none", id |-> p])
    BY DEF CommandFits
  <2> QED
    BY <2>1, <2>2, CommandBegins
<1> QED
  BY <1>2, <1>5, <1>6, <1>7, <1>8

LEMMA SameTables ==
  ASSUME StoreInv, tables' = tables
  PROVE  Shaped(tables') /\ ProjectsFit(tables') /\ WorkspacesFit(tables')
BY DEF StoreInv

LEMMA CheckNameKeeps == ASSUME StoreInv, NEW c \in StoreProcs, CheckName(c)  PROVE StoreInv'
<1> DEFINE x == [cmd[c] EXCEPT !.pc = "save"]
<1>1. CommandFits(cmd[c]) /\ cmd[c].pc = "name"
  BY DEF StoreInv, CheckName
<1>2. /\ x.pc = "save" /\ x.base = cmd[c].base /\ x.copy = cmd[c].copy /\ DOMAIN x = DOMAIN cmd[c]
  BY <1>1 DEF CommandFits
<1> HIDE DEF x
<1>3. CommandFits(x)
  BY <1>1, <1>2 DEF CommandFits
<1>4. GiveUp(c) \/ (cmd' = [cmd EXCEPT ![c] = x] /\ tables' = tables)
  BY DEF CheckName, Move, x
<1> QED
  BY <1>3, <1>4, GiveUpKeepsStore, CommandMoves, SameTables

LEMMA ResolveBoardKeeps == ASSUME StoreInv, NEW c \in StoreProcs, ResolveBoard(c)  PROVE StoreInv'
<1>1. CommandFits(cmd[c]) /\ cmd[c].pc = "resolve"
  BY DEF StoreInv, ResolveBoard
<1>2. GiveUp(c) \/ \E y \in SetProject(cmd[c].copy, cmd[c].to) :
                     cmd' = [cmd EXCEPT ![c] = [cmd[c] EXCEPT !.pc = "save", !.copy = y]] /\ tables' = tables
  BY DEF ResolveBoard, Move
<1>3. ASSUME NEW y \in SetProject(cmd[c].copy, cmd[c].to),
             cmd' = [cmd EXCEPT ![c] = [cmd[c] EXCEPT !.pc = "save", !.copy = y]], tables' = tables
      PROVE  StoreInv'
  <2> DEFINE x == [cmd[c] EXCEPT !.pc = "save", !.copy = y]
             r == cmd[c].base
             to == cmd[c].to
  <2>1. WorkspaceRow(r) /\ cmd[c].copy = r /\ {"pc", "copy"} \subseteq DOMAIN cmd[c]
    BY <1>1 DEF CommandFits
  <2>2. y = [r EXCEPT !.project = to] /\ ("null" \in {r.project, to} \/ r.project = to)
    BY <1>3, <2>1 DEF SetProject
  <2>3. x.pc = "save" /\ x.base = r /\ x.copy = y /\ DOMAIN x = DOMAIN cmd[c]
    BY <2>1
  <2> HIDE DEF x, r, to
  <2>4. WorkspaceRow(y) /\ y.status = r.status /\ y.project = to /\ Changed(r, y) \subseteq {"project"}
    BY <2>1, <2>2 DEF WorkspaceRow, Changed
  <2>5. Changes(r, y)
    BY <2>2, <2>4 DEF Changes
  <2>6. CommandFits(x)
    BY <2>1, <2>3, <2>4, <2>5 DEF CommandFits
  <2> QED
    BY <1>3, <2>6, CommandMoves, SameTables DEF x
<1> QED
  BY <1>2, <1>3, GiveUpKeepsStore

LEMMA DoneFits == CommandFits(Done)
BY DEF CommandFits, Done

LEMMA SaveCopyKeeps == ASSUME StoreInv, NEW c \in StoreProcs, SaveCopy(c)  PROVE StoreInv'
<1>1. WorkspaceRow(cmd[c].copy)
  BY DEF StoreInv, SaveCopy, CommandFits
<1>2. GiveUp(c) \/ (tables' \in SaveWorkspace(tables, cmd[c].ws, cmd[c].copy) /\ cmd' = [cmd EXCEPT ![c] = Done])
  BY DEF SaveCopy, Move
<1>3. CASE tables' \in SaveWorkspace(tables, cmd[c].ws, cmd[c].copy) /\ cmd' = [cmd EXCEPT ![c] = Done]
  <2>1. Shaped(tables') /\ ProjectsFit(tables') /\ WorkspacesFit(tables')
    BY <1>1, <1>3, SaveWorkspaceFits DEF StoreInv
  <2> QED
    BY <1>3, <2>1, DoneFits, CommandMoves
<1> QED
  BY <1>2, <1>3, GiveUpKeepsStore

LEMMA SaveProjectCopyKeeps == ASSUME StoreInv, NEW c \in StoreProcs, SaveProjectCopy(c)  PROVE StoreInv'
<1> DEFINE x == IF cmd[c].link THEN [pc |-> "types", ws |-> "none"] ELSE Done
<1>1. cmd' = [cmd EXCEPT ![c] = x] /\ tables' = SaveProject(tables, cmd[c].id, cmd[c].copy) /\ Valid(cmd[c].copy)
  BY DEF SaveProjectCopy, Move, StoreInv, CommandFits
<1>2. CommandFits(x)
  <2>1. CommandFits([pc |-> "types", ws |-> "none"])
    BY DEF CommandFits
  <2> QED
    BY <2>1, DoneFits
<1>3. Shaped(tables') /\ ProjectsFit(tables') /\ WorkspacesFit(tables')
  BY <1>1, SaveProjectFits DEF StoreInv
<1> HIDE DEF x
<1> QED
  BY <1>1, <1>2, <1>3, CommandMoves

LEMMA RefreshKeeps == ASSUME StoreInv, NEW c \in StoreProcs, RefreshOrgIssueTypes(c)  PROVE StoreInv'
<1>1. CASE GiveUp(c)
  BY <1>1, GiveUpKeepsStore
<1>2. ASSUME NEW fetched, tables' = [tables EXCEPT !.types = fetched], cmd' = [cmd EXCEPT ![c] = Done]
      PROVE  StoreInv'
  <2>1. /\ Shaped(tables') /\ tables'.projects = tables.projects /\ tables'.workspaces = tables.workspaces
        /\ tables'.fields = tables.fields /\ tables'.options = tables.options
        /\ tables'.status = tables.status /\ tables'.priority = tables.priority
    BY <1>2 DEF StoreInv, Shaped
  <2>2. ProjectsFit(tables') /\ WorkspacesFit(tables')
    BY <2>1 DEF StoreInv, ProjectsFit, WorkspacesFit, InRows
  <2> QED
    BY <1>2, <2>1, <2>2, DoneFits, CommandMoves
<1> QED
  BY <1>1, <1>2 DEF RefreshOrgIssueTypes, Move

LEMMA UnlinkKeeps == ASSUME StoreInv, NEW c \in StoreProcs, Unlink(c)  PROVE StoreInv'
<1>1. cmd' = [cmd EXCEPT ![c] = Done] /\ tables' = DeleteProject(tables, cmd[c].id)
  BY DEF Unlink, Move
<1>2. Shaped(tables') /\ ProjectsFit(tables') /\ WorkspacesFit(tables')
  BY <1>1, DeleteProjectFits DEF StoreInv
<1> QED
  BY <1>1, <1>2, DoneFits, CommandMoves

-----------------------------------------------------------------------------
(***************************************************************************)
(* The theorem.                                                            *)
(***************************************************************************)

LEMMA StoreInvInit == StoresInit => StoreInv
<1> SUFFICES ASSUME StoresInit  PROVE StoreInv
  OBVIOUS
<1>1. /\ Shaped(tables) /\ tables.projects = {} /\ DOMAIN tables.workspaces = {}
      /\ tables.fields = {} /\ tables.options = {} /\ tables.status = {} /\ tables.priority = {}
  BY DEF StoresInit, Shaped
<1>2. ProjectsFit(tables) /\ WorkspacesFit(tables)
  BY <1>1 DEF ProjectsFit, WorkspacesFit
<1>3. DOMAIN cmd = StoreProcs /\ \A c \in StoreProcs : cmd[c] = Done
  BY DEF StoresInit
<1> QED
  BY <1>1, <1>2, <1>3, DoneFits DEF StoreInv

LEMMA StoreInvStep == ASSUME StoresConstants, StoreInv, [StoresNext]_storeVars  PROVE StoreInv'
<1>1. CASE UNCHANGED storeVars
  <2>1. tables' = tables /\ cmd' = cmd
    BY <1>1 DEF storeVars
  <2> QED
    BY <2>1, SameTables DEF StoreInv
<1>2. CASE StoresNext
  <2> PICK c \in StoreProcs :
        \/ /\ Ready(c)
           /\ \/ StartTransition(c) \/ StartSetFilingRepo(c) \/ StartSetDefaultType(c) \/ StartCreate(c)
              \/ StartEdit(c) \/ StartSetProject(c) \/ StartLink(c) \/ StartMapStatus(c)
              \/ StartMapPriority(c) \/ StartFetchTypes(c) \/ StartUnlink(c)
        \/ CheckName(c) \/ ResolveBoard(c) \/ SaveCopy(c) \/ SaveProjectCopy(c)
        \/ RefreshOrgIssueTypes(c) \/ Unlink(c)
    BY <1>2 DEF StoresNext
  <2> QED
    BY StartTransitionKeeps, StartSetFilingRepoKeeps, StartSetDefaultTypeKeeps, StartWorkspaceKeeps,
       StartProjectKeeps, CheckNameKeeps, ResolveBoardKeeps, SaveCopyKeeps, SaveProjectCopyKeeps,
       RefreshKeeps, UnlinkKeeps
<1> QED
  BY <1>1, <1>2

LEMMA StoreInvShows == StoreInv => StoreIsReadable
<1> SUFFICES ASSUME StoreInv  PROVE StoreIsReadable
  OBVIOUS
<1>1. ASSUME NEW p \in tables.projects  PROVE RowToProject(tables, p) # {}
  <2>1. PICK project : Valid(project) /\ InRows(tables, p, project)
    BY DEF StoreInv, ProjectsFit
  <2> QED
    BY <2>1, RowsAreLoaded
<1>2. ListAll(tables) = tables.projects
  BY <1>1 DEF ListAll
<1>3. ASSUME NEW w \in DOMAIN tables.workspaces
      PROVE  /\ tables.workspaces[w].project \in tables.projects \cup {"null"}
             /\ FindByName(tables, tables.workspaces[w].name) = {w}
  BY DEF StoreInv, WorkspacesFit, FindByName
<1> QED
  BY <1>2, <1>3 DEF StoreIsReadable, StoreInv, ProjectsFit

\* Only its own step moves a command.
LEMMA OneMoves ==
  ASSUME StoreInv, [StoresNext]_storeVars, NEW c \in StoreProcs, cmd'[c] # cmd[c]
  PROVE  /\ cmd[c].pc = "project" => SaveProjectCopy(c)
         /\ cmd[c].pc = "save" => SaveCopy(c)
<1>1. StoresNext
  BY DEF storeVars
<1>2. PICK d \in StoreProcs :
        \/ /\ Ready(d)
           /\ \/ StartTransition(d) \/ StartSetFilingRepo(d) \/ StartSetDefaultType(d) \/ StartCreate(d)
              \/ StartEdit(d) \/ StartSetProject(d) \/ StartLink(d) \/ StartMapStatus(d)
              \/ StartMapPriority(d) \/ StartFetchTypes(d) \/ StartUnlink(d)
        \/ CheckName(d) \/ ResolveBoard(d) \/ SaveCopy(d) \/ SaveProjectCopy(d)
        \/ RefreshOrgIssueTypes(d) \/ Unlink(d)
  BY <1>1 DEF StoresNext
<1>3. \E x : cmd' = [cmd EXCEPT ![d] = x]
  <2>1. CASE \/ StartTransition(d) \/ StartSetFilingRepo(d) \/ StartSetDefaultType(d) \/ StartCreate(d)
             \/ StartEdit(d) \/ StartSetProject(d) \/ StartFetchTypes(d) \/ StartUnlink(d)
    BY <2>1 DEF StartTransition, StartSetFilingRepo, StartSetDefaultType, StartCreate, StartEdit, StartSetProject,
                StartFetchTypes, StartUnlink, ChangeRow, Begin
  <2>2. CASE StartLink(d) \/ StartMapStatus(d) \/ StartMapPriority(d)
    BY <2>2 DEF StartLink, StartMapStatus, StartMapPriority, StartMap, Begin
  <2>3. CASE CheckName(d) \/ ResolveBoard(d) \/ SaveCopy(d)
    BY <2>3 DEF CheckName, ResolveBoard, SaveCopy, GiveUp, Move
  <2>4. CASE SaveProjectCopy(d) \/ RefreshOrgIssueTypes(d) \/ Unlink(d)
    BY <2>4 DEF SaveProjectCopy, RefreshOrgIssueTypes, Unlink, GiveUp, Move
  <2> QED
    BY <1>2, <2>1, <2>2, <2>3, <2>4
<1>4. d = c
  BY <1>3 DEF StoreInv
<1> QED
  BY <1>2, <1>4 DEF Ready, CheckName, ResolveBoard, SaveCopy, SaveProjectCopy, RefreshOrgIssueTypes, Unlink

LEMMA ProjectIsSavedHolds ==
  ASSUME StoreInv, [StoresNext]_storeVars, NEW c \in StoreProcs  PROVE ProjectIsSaved(c)
<1> SUFFICES ASSUME cmd[c].pc = "project", cmd'[c] # cmd[c]
             PROVE  /\ RowToProject(tables', cmd[c].id) = {cmd[c].copy}
                    /\ \A p \in tables.projects \ {cmd[c].id} : RowToProject(tables', p) = RowToProject(tables, p)
  BY DEF ProjectIsSaved
<1>1. tables' = SaveProject(tables, cmd[c].id, cmd[c].copy) /\ Valid(cmd[c].copy)
  BY OneMoves DEF SaveProjectCopy, StoreInv, CommandFits
<1>2. /\ InRows(tables', cmd[c].id, cmd[c].copy)
      /\ \A q, other : q # cmd[c].id /\ InRows(tables, q, other) => InRows(tables', q, other)
  BY <1>1, SaveProjectFacts DEF StoreInv
<1>3. ASSUME NEW p \in tables.projects \ {cmd[c].id}  PROVE RowToProject(tables', p) = RowToProject(tables, p)
  <2>1. PICK other : Valid(other) /\ InRows(tables, p, other)
    BY DEF StoreInv, ProjectsFit
  <2>2. InRows(tables', p, other)
    BY <1>2, <2>1
  <2> QED
    BY <2>1, <2>2, RowsAreLoaded
<1> QED
  BY <1>1, <1>2, <1>3, RowsAreLoaded

LEMMA WorkspaceIsSavedHolds ==
  ASSUME StoreInv, [StoresNext]_storeVars, NEW c \in StoreProcs  PROVE WorkspaceIsSaved(c)
<1> DEFINE old == cmd[c].base
           new == tables'.workspaces[cmd[c].ws]
<1> SUFFICES ASSUME cmd[c].pc = "save", cmd'[c] # cmd[c], cmd[c].ws \in DOMAIN tables.workspaces,
                    tables.workspaces[cmd[c].ws] = cmd[c].base
             PROVE  /\ old.status = "archived" => new.status \in {"archived", "active"}
                    /\ new.status = "created" => old.status = "created"
                    /\ new.status = "paused" => old.status \in {"active", "paused"}
                    /\ "null" \in {old.project, new.project} \/ old.project = new.project
                    /\ Cardinality({f \in DOMAIN old : old[f] # new[f]} \ {"sub"}) <= 1
  BY DEF WorkspaceIsSaved
<1>1. WorkspaceRow(old) /\ WorkspaceRow(cmd[c].copy) /\ Changes(old, cmd[c].copy) /\ Changes(old, old)
  BY NoChange DEF StoreInv, CommandFits
<1>2. new = cmd[c].copy \/ new = old
  <2>1. tables' = tables \/ tables' \in SaveWorkspace(tables, cmd[c].ws, cmd[c].copy)
    BY OneMoves DEF SaveCopy, GiveUp
  <2>2. CASE tables' = tables
    BY <2>2
  <2>3. CASE tables' \in SaveWorkspace(tables, cmd[c].ws, cmd[c].copy)
    BY <1>1, <2>3, SaveWorkspaceFits DEF StoreInv
  <2> QED
    BY <2>1, <2>2, <2>3
<1>3. Changes(old, new)
  BY <1>1, <1>2
<1> HIDE DEF old, new
<1>4. PICK f : Changed(old, new) \subseteq {f}
  BY <1>3 DEF Changes
<1>5. Cardinality(Changed(old, new)) <= 1
  <2>1. IsFiniteSet({f}) /\ Cardinality({f}) = 1
    BY FS_Singleton
  <2> QED
    BY <1>4, <2>1, FS_Subset
<1> QED
  BY <1>3, <1>5 DEF Changes, Changed

\* Whatever runs at the same time, every linked project can be loaded, no workspace
\* has a project that is gone and no two have one name; what is loaded after a save
\* is what was saved, and a save changes the rows of its own subject only, along the
\* life cycle of a workspace; for every number of processes and commands, of projects
\* and workspaces, and for every board a project may be linked to
\* (SqliteProjectRepository::save and row_to_project, WorkspaceService).
THEOREM StoresKeepReadable ==
  ASSUME StoresConstants  PROVE StoresSpec => []StoreIsReadable /\ SavesAreFaithful
<1>1. StoresInit => StoreInv
  BY StoreInvInit
<1>2. StoreInv /\ [StoresNext]_storeVars => StoreInv'
  BY StoreInvStep
<1>3. StoreInv /\ [StoresNext]_storeVars => [\A c \in StoreProcs : ProjectIsSaved(c) /\ WorkspaceIsSaved(c)]_storeVars
  BY ProjectIsSavedHolds, WorkspaceIsSavedHolds
<1>4. StoresSpec => []StoreInv /\ SavesAreFaithful
  BY <1>1, <1>2, <1>3, PTL DEF StoresSpec, SavesAreFaithful
<1> QED
  BY <1>4, StoreInvShows, PTL
=============================================================================
