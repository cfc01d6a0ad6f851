------------------------------ MODULE Cascade ------------------------------
(***************************************************************************)
(* rl sync import --cascade: a tree of GitHub issues becomes a tree of     *)
(* mirror tasks. Two imports run side by side, may be killed at any point  *)
(* and are run again; the unique index on the remote identity is the only  *)
(* thing they share.                                                       *)
(***************************************************************************)
EXTENDS Integers, FiniteSets, SequencesExt

CONSTANTS Size,      \* the issues are 1..Size, 1 is the root
          MaxDepth,  \* MAX_DEPTH
          Importers,
          ImportRuns, ImportFaults

ASSUME CascadeAssumption ==
  Size \in Nat \ {0} /\ MaxDepth \in Nat /\ {ImportRuns, ImportFaults} \subseteq Nat

VARIABLES
  parentOf,  \* the parent of every issue but the root, on GitHub
  home,      \* issues of the root's repo; the others live elsewhere
  tracked,   \* issues that have a mirror task
  edges,     \* child_of relations of the mirror tasks
  importer,  \* where each import is
  importSpent

cascadeVars == <<parentOf, home, tracked, edges, importer, importSpent>>

Root == 1
IssuesOfTree == 1..Size
Nobody == 0
Frame(n, parent, depth) == [n |-> n, parent |-> parent, depth |-> depth]
RootFrame == Frame(Root, Nobody, 0)
Resting(pc) == [pc |-> pc, stack |-> <<>>, visited |-> {}, node |-> RootFrame]
ImportIdle == Resting("idle")

CascadeInit ==
  /\ parentOf \in {f \in [2..Size -> IssuesOfTree] : \A n \in 2..Size : f[n] < n}
  /\ home \in {h \in SUBSET IssuesOfTree : Root \in h}
  /\ tracked = {} /\ edges = {}
  /\ importer = [p \in Importers |-> ImportIdle]
  /\ importSpent = [runs |-> 0, faults |-> 0]

ImportSpend(b) ==
  /\ importSpent[b] < [runs |-> ImportRuns, faults |-> ImportFaults][b]
  /\ importSpent' = [importSpent EXCEPT ![b] = @ + 1]
ImportAt(p, pc) == importer[p].pc = pc
ImportGoes(p, pc) == importer' = [importer EXCEPT ![p].pc = pc]

-----------------------------------------------------------------------------
ImportStarts(p) ==
  /\ importer[p].pc \in {"idle", "done"} /\ ImportSpend("runs")
  /\ importer' = [importer EXCEPT ![p] = [Resting("pop") EXCEPT !.stack = <<RootFrame>>]]
  /\ UNCHANGED <<parentOf, home, tracked, edges>>

ImportEnds(p) ==
  /\ ImportAt(p, "pop") /\ importer[p].stack = <<>>
  /\ importer' = [importer EXCEPT ![p] = Resting("done")]
  /\ UNCHANGED <<parentOf, home, tracked, edges, importSpent>>

\* A tracked issue needs nothing more.
TrackedIsDone(n) == IF n \in tracked THEN "pop" ELSE "save"

\* find_by_remote decides between a new mirror and the old one.
FoundOrFetched(n) == IF n \in tracked THEN "wire" ELSE "save"

ImportPops(p) ==
  /\ ImportAt(p, "pop") /\ importer[p].stack # <<>>
  /\ LET i == importer[p]
         top == Last(i.stack)
     IN importer' = [importer EXCEPT ![p] =
          IF top.n \in i.visited THEN [i EXCEPT !.stack = Front(i.stack)]
          ELSE [pc |-> FoundOrFetched(top.n), stack |-> Front(i.stack),
                visited |-> i.visited \cup {top.n}, node |-> top]]
  /\ UNCHANGED <<parentOf, home, tracked, edges, importSpent>>

\* import_mirror, or, when the unique index refuses it, the task of another import.
ImportSaves(p) ==
  /\ ImportAt(p, "save")
  /\ tracked' = tracked \cup {importer[p].node.n}
  /\ ImportGoes(p, "wire")
  /\ UNCHANGED <<parentOf, home, edges, importSpent>>

\* add_relation, which is idempotent. The trees are those of GitHub: no cycle.
ImportWires(p) ==
  /\ ImportAt(p, "wire")
  /\ edges' = IF importer[p].node.parent = Nobody THEN edges
              ELSE edges \cup {<<importer[p].node.n, importer[p].node.parent>>}
  /\ ImportGoes(p, "children")
  /\ UNCHANGED <<parentOf, home, tracked, importSpent>>

DepthAllows(d) == d < MaxDepth

ChildrenAtHome(n) == {m \in 2..Size : parentOf[m] = n /\ m \in home}

ImportPushesChildren(p) ==
  LET node == importer[p].node
      children == IF DepthAllows(node.depth) THEN SetToSeq(ChildrenAtHome(node.n)) ELSE <<>>
      frames == [i \in DOMAIN children |-> Frame(children[i], node.n, node.depth + 1)]
  IN /\ ImportAt(p, "children")
     /\ importer' = [importer EXCEPT ![p].pc = "pop", ![p].stack = @ \o frames]
     /\ UNCHANGED <<parentOf, home, tracked, edges, importSpent>>

\* A fetch or a save fails, or the process is killed.
ImportDies(p) ==
  /\ ~ImportAt(p, "idle") /\ ~ImportAt(p, "done") /\ ImportSpend("faults")
  /\ importer' = [importer EXCEPT ![p] = ImportIdle]
  /\ UNCHANGED <<parentOf, home, tracked, edges>>

CascadeNext ==
  \E p \in Importers :
    \/ ImportStarts(p) \/ ImportPops(p) \/ ImportSaves(p) \/ ImportWires(p)
    \/ ImportPushesChildren(p) \/ ImportEnds(p) \/ ImportDies(p)

CascadeSpec == CascadeInit /\ [][CascadeNext]_cascadeVars

-----------------------------------------------------------------------------
\* The issues from n up to the root: what every set has that has n and, of each issue
\* but the root, the parent.
Upward == {S \in SUBSET IssuesOfTree : \A n \in S \ {Root} : parentOf[n] \in S}
OnPath(n) == {m \in IssuesOfTree : \A S \in Upward : n \in S => m \in S}
ToImport == {n \in IssuesOfTree : OnPath(n) \subseteq home /\ Cardinality(OnPath(n)) <= MaxDepth + 1}

\* Only issues of the tree get tasks and an edge joins two tasks: the parent was
\* imported before its child.
CascadeTypeOK ==
  /\ tracked \subseteq IssuesOfTree
  /\ \A e \in edges : e[1] \in tracked /\ e[2] \in tracked
  /\ \A p \in Importers : importer[p].pc \in {"idle", "pop", "save", "wire", "children", "done"}

\* An import that ends has mirrored the whole tree of its repo down to
\* MAX_DEPTH with every parent link, whatever an earlier run that was killed
\* half-way or a run beside it left: "re-running --cascade can't leave a
\* previously-imported child disconnected from its parent".
CascadeHeals ==
  (\E p \in Importers : ImportAt(p, "done")) =>
    ToImport \subseteq tracked /\ \A n \in ToImport \ {Root} : <<n, parentOf[n]>> \in edges

\* Nothing else is imported: no issue of another repo, nothing behind one, nothing
\* below the depth limit.
NothingElse == tracked \subseteq ToImport

\* A cascade that ends has the whole tree of its repo down to MAX_DEPTH with its
\* edges, also over what an interrupted one left, and nothing else (sync_import).
CascadeIsSound == CascadeTypeOK /\ CascadeHeals /\ NothingElse
=============================================================================
