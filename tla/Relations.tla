----------------------------- MODULE Relations -----------------------------
(***************************************************************************)
(* The relation graph: reciprocal edges between tasks, the commands that   *)
(* relate and unrelate them, the outbound sub-issue and dependency         *)
(* mutations, the backfill at promote and the inbound reconcile at pull.   *)
(* A task is named like the issue it is (or will be) filed as.             *)
(***************************************************************************)
EXTENDS Integers, Sequences, FiniteSets, SequencesExt

CONSTANTS Tasks,        \* local tasks
          Strangers,    \* issues that no local task tracks
          Filed0,       \* tasks that are issue-backed at the start
          LegacyRows,   \* one-sided rows <<task, kind, other>> a store may hold
          UsedKinds,    \* the kinds the commands state
          Procs,        \* processes that run commands
          Overlap,      \* may commands of two processes overlap?
          MaxCommands, MaxPulls, MaxRemoteEdits, MaxFaults,
          MaxTotal      \* bound on all of these together

Kinds == {"BlockedBy", "Blocks", "ChildOf", "ParentOf", "RelatedTo", "Duplicates"}
Issues == Tasks \cup Strangers
Links == [axis : {"sub", "dep"}, a : Issues, b : Issues]  \* a: addressed issue, b: related

ASSUME RelationsAssumption ==
  /\ IsFiniteSet(Tasks)
  /\ Filed0 \subseteq Tasks /\ Tasks \cap Strangers = {}
  /\ UsedKinds \subseteq Kinds /\ LegacyRows \subseteq Tasks \X Kinds \X Tasks
  /\ Overlap \in BOOLEAN
  /\ {MaxCommands, MaxPulls, MaxRemoteEdits, MaxFaults, MaxTotal} \subseteq Nat

VARIABLES rel,      \* rel[t]: the stored edges <<kind, other>> of t
          filed,    \* issue-backed tasks
          links,    \* what GitHub holds
          outbox,   \* queued mutations, oldest first
          backoff,  \* tasks whose head waits for a retry
          proc,     \* proc[p]: what a command holds between its steps
          off,      \* history: links on which both sides were last put at odds
          spent     \* history: budgets used

vars == <<rel, filed, links, outbox, backoff, proc, off, spent>>
Budgets == [commands |-> MaxCommands, pulls |-> MaxPulls,
            edits |-> MaxRemoteEdits, faults |-> MaxFaults]
Spend(b) ==
  /\ spent[b] < Budgets[b]
  /\ spent.commands + spent.pulls + spent.edits + spent.faults < MaxTotal
  /\ spent' = [spent EXCEPT ![b] = @ + 1]
-----------------------------------------------------------------------------
(* Edges and their directions.                                             *)

InverseKind(k) ==
  [BlockedBy |-> "Blocks", Blocks |-> "BlockedBy", ChildOf |-> "ParentOf",
   ParentOf |-> "ChildOf", RelatedTo |-> "RelatedTo", Duplicates |-> "Duplicates"][k]

\* The axis on which a kind must stay acyclic: x lies downstream of y.
CycleAxis(k, a, b) ==
  CASE k = "BlockedBy" -> [forward |-> "BlockedBy", x |-> a, y |-> b]
    [] k = "Blocks"    -> [forward |-> "BlockedBy", x |-> b, y |-> a]
    [] k = "ChildOf"   -> [forward |-> "ChildOf", x |-> a, y |-> b]
    [] k = "ParentOf"  -> [forward |-> "ChildOf", x |-> b, y |-> a]
    [] OTHER           -> [forward |-> "none", x |-> a, y |-> b]

\* Nodes immediately upstream of n, read from both stored directions.
Up(g, forward, n) ==
  {m \in Tasks : <<forward, m>> \in g[n] \/ <<InverseKind(forward), n>> \in g[m]}

\* The nodes a walk upstream visits that starts with the set S: what every set has that
\* has S and, of each of its nodes, those upstream.
Visited(g, forward, S) ==
  {m \in Tasks : \A T \in SUBSET Tasks :
     S \subseteq T /\ (\A n \in T : Up(g, forward, n) \subseteq T) => m \in T}

\* A plausible slip: only the forward direction is walked.
WouldCreateCycleForwardOnly(g, k, a, b) ==
  LET ax == CycleAxis(k, a, b)
      fwd == [n \in Tasks |-> {e \in g[n] : e[1] = ax.forward}]
  IN ax.forward # "none"
     /\ \E n \in Visited(fwd, ax.forward, {ax.y}) : ax.x \in Up(fwd, ax.forward, n)

WouldCreateCycle(g, k, a, b) ==
  LET ax == CycleAxis(k, a, b)
  IN ax.forward # "none"
     /\ \E n \in Visited(g, ax.forward, {ax.y}) : ax.x \in Up(g, ax.forward, n)

\* The one GitHub link a stated edge stands for, if its kind has one.
RelationLink(k, this, other) ==
  CASE k = "ParentOf"  -> {[axis |-> "sub", a |-> this, b |-> other]}
    [] k = "ChildOf"   -> {[axis |-> "sub", a |-> other, b |-> this]}
    [] k = "BlockedBy" -> {[axis |-> "dep", a |-> this, b |-> other]}
    [] k = "Blocks"    -> {[axis |-> "dep", a |-> other, b |-> this]}
    [] OTHER           -> {}

\* RelationMutation keys the entries on the command's subject; both ends must be filed.
PlanRelationEntries(t, edges, add, isFiled) ==
  LET planned == {e \in edges : {t, e[2]} \subseteq isFiled}
  IN SetToSeq({[task |-> t, link |-> l, add |-> add] :
               l \in UNION {RelationLink(e[1], t, e[2]) : e \in planned}})

LocalLinks(g) == UNION {UNION {RelationLink(e[1], t, e[2]) : e \in g[t]} : t \in Tasks}
-----------------------------------------------------------------------------
(* GitHub: an issue has one parent and no ancestry loop; a refused or      *)
(* repeated call is answered with a status the adapter takes for success.  *)

Ancestors(L, i) ==
  LET walk[n \in 0..Cardinality(Issues)] ==
        IF n = 0 THEN {i}
        ELSE walk[n-1] \cup {l.a : l \in {m \in L : m.axis = "sub" /\ m.b \in walk[n-1]}}
  IN walk[Cardinality(Issues)]

Refused(L, l) ==
  l.axis = "sub" /\ (l.b \in Ancestors(L, l.a) \/ \E m \in L : m.axis = "sub" /\ m.b = l.b)

ApplyMutation(L, m) ==
  IF ~m.add THEN L \ {m.link} ELSE IF Refused(L, m.link) THEN L ELSE L \cup {m.link}
-----------------------------------------------------------------------------
NoWrite == [t \in {} |-> {}]
Idle == [pc |-> "idle", t |-> CHOOSE t \in Tasks : TRUE, copy |-> {}, subs |-> {},
         blockers |-> {}, write |-> NoWrite, entries |-> <<>>, files |-> {}]

CanStart(p) == proc[p].pc = "idle" /\ (Overlap \/ \A q \in Procs : proc[q].pc = "idle")

LegacyRel == [t \in Tasks |-> {<<r[2], r[3]>> : r \in {q \in LegacyRows : q[1] = t}}]

Init ==
  /\ \E rows \in SUBSET LegacyRows :
       rel = [t \in Tasks |-> {<<r[2], r[3]>> : r \in {q \in rows : q[1] = t}}]
  /\ filed = Filed0
  /\ links = {}
  /\ outbox = <<>> /\ backoff = {}
  /\ proc = [p \in Procs |-> Idle]
  /\ off = LocalLinks(LegacyRel)
  /\ spent = [b \in DOMAIN Budgets |-> 0]

Saving(write, entries, files) ==
  [Idle EXCEPT !.pc = "save", !.write = write, !.entries = entries, !.files = files]

\* A command has read what it needs and goes on to its transaction.
Prepare(p, write, entries, files) ==
  proc' = [proc EXCEPT ![p] = Saving(write, entries, files)]

AddRelation(p, t, k, o) ==
  /\ CanStart(p) /\ t # o
  /\ ~WouldCreateCycle(rel, k, t, o)
  /\ Spend("commands")
  /\ Prepare(p, [u \in {t, o} |-> IF u = t THEN rel[t] \cup {<<k, o>>}
                                           ELSE rel[o] \cup {<<InverseKind(k), t>>}],
             IF <<k, o>> \in rel[t] THEN <<>> ELSE PlanRelationEntries(t, {<<k, o>>}, TRUE, filed), {})
  /\ UNCHANGED <<rel, filed, links, outbox, backoff, off>>

RemoveRelation(p, t, k, o) ==
  /\ CanStart(p) /\ t # o
  /\ Spend("commands")
  /\ LET had == <<k, o>> \in rel[t]
         back == <<InverseKind(k), t>> \in rel[o]
         changed == (IF had THEN {t} ELSE {}) \cup (IF back THEN {o} ELSE {})
     IN /\ changed # {}
        /\ Prepare(p, [u \in changed |-> rel[u] \ (IF u = t THEN {<<k, o>>}
                                                            ELSE {<<InverseKind(k), t>>})],
                   IF had THEN PlanRelationEntries(t, {<<k, o>>}, FALSE, filed) ELSE <<>>, {})
  /\ UNCHANGED <<rel, filed, links, outbox, backoff, off>>

ClearRelations(p, t) ==
  /\ CanStart(p) /\ rel[t] # {}
  /\ Spend("commands")
  /\ LET strip(o) == rel[o] \ {<<InverseKind(e[1]), t>> : e \in {f \in rel[t] : f[2] = o}}
         touched == {o \in {e[2] : e \in rel[t]} \ {t} : strip(o) # rel[o]}
     IN Prepare(p, [u \in {t} \cup touched |-> IF u = t THEN {} ELSE strip(u)],
                PlanRelationEntries(t, rel[t], FALSE, filed), {})
  /\ UNCHANGED <<rel, filed, links, outbox, backoff, off>>

\* Promote: the task is read, the issue is created (an await), then every edge
\* whose far end is issue-backed by now owes its mutation.
PromoteBegin(p, t) ==
  /\ CanStart(p) /\ t \notin filed
  /\ Spend("commands")
  /\ proc' = [proc EXCEPT ![p] = [Idle EXCEPT !.pc = "promote", !.t = t, !.copy = rel[t]]]
  /\ UNCHANGED <<rel, filed, links, outbox, backoff, off>>

\* A plausible slip: the backfill looks at one direction of the pair only.
BackfillOwnParents(t, edges) ==
  PlanRelationEntries(t, {e \in edges : e[1] # "ParentOf"}, TRUE, filed \cup {t})

RelationBackfillEntries(t, edges) == PlanRelationEntries(t, edges, TRUE, filed \cup {t})

PromotePlan(p) ==
  /\ proc[p].pc = "promote"
  /\ LET t == proc[p].t
     IN Prepare(p, [u \in {t} |-> proc[p].copy],
                RelationBackfillEntries(t, proc[p].copy), {t})
  /\ UNCHANGED <<rel, filed, links, outbox, backoff, off, spent>>

\* save_many_with_outbox: rows and entries in one transaction.
Save(p) ==
  /\ proc[p].pc = "save"
  /\ rel' = [t \in Tasks |-> IF t \in DOMAIN proc[p].write THEN proc[p].write[t] ELSE rel[t]]
  /\ filed' = filed \cup proc[p].files
  /\ outbox' = outbox \o proc[p].entries
  /\ proc' = [proc EXCEPT ![p] = Idle]
  /\ UNCHANGED <<links, backoff, off, spent>>
-----------------------------------------------------------------------------
(* Pull. The row is read first; the fetches that follow are awaits.        *)

PullBegin(p, t) ==
  /\ CanStart(p) /\ t \in filed
  /\ Spend("pulls")
  /\ proc' = [proc EXCEPT ![p] = [Idle EXCEPT !.pc = "content", !.t = t, !.copy = rel[t]]]
  /\ UNCHANGED <<rel, filed, links, outbox, backoff, off>>

\* The content save writes the whole row of the copy, its edges included.
PullContent(p) ==
  /\ proc[p].pc = "content"
  /\ \E changed \in BOOLEAN :
       rel' = IF changed THEN [rel EXCEPT ![proc[p].t] = proc[p].copy] ELSE rel
  /\ proc' = [proc EXCEPT ![p].pc = "subs"]
  /\ UNCHANGED <<filed, links, outbox, backoff, off, spent>>

FetchSubIssues(p) ==
  /\ proc[p].pc = "subs"
  /\ proc' = [proc EXCEPT ![p].pc = "blockers",
       ![p].subs = {l.b : l \in {m \in links : m.axis = "sub" /\ m.a = proc[p].t}}]
  /\ UNCHANGED <<rel, filed, links, outbox, backoff, off, spent>>

FetchBlockedBy(p) ==
  /\ proc[p].pc = "blockers"
  /\ proc' = [proc EXCEPT ![p].pc = "parent",
       ![p].blockers = {l.b : l \in {m \in links : m.axis = "dep" /\ m.a = proc[p].t}}]
  /\ UNCHANGED <<rel, filed, links, outbox, backoff, off, spent>>

FetchParent(t) == {l.a : l \in {m \in links : m.axis = "sub" /\ m.b = t}}

\* Only issues some local task tracks can become edges.
MapRemoteToLocal(issues) == issues \cap filed

\* Edges of kind k from t to the tasks of add appear, those to del go, each with
\* its reciprocal. w is the working state [g: edges, touched: neighbours].
MoveEdges(w, t, k, add, del) ==
  [g |-> [u \in Tasks |->
      CASE u = t -> (w.g[t] \cup {<<k, o>> : o \in add}) \ {<<k, o>> : o \in del}
        [] u \in add -> w.g[u] \cup {<<InverseKind(k), t>>}
        [] u \in del -> w.g[u] \ {<<InverseKind(k), t>>}
        [] OTHER -> w.g[u]],
   touched |-> w.touched \cup add \cup del]

Current(w, t, k) == {e[2] : e \in {f \in w.g[t] : f[1] = k}}

\* One family of t's edges moved to the desired set; an edge to a task without
\* an issue survives.
ReconcileFamily(w, t, k, desired) ==
  LET cur == Current(w, t, k)
  IN MoveEdges(w, t, k, (desired \ cur) \ {t}, ((cur \ desired) \ {t}) \cap filed)

\* An absent parent says nothing; a parent nobody tracks changes nothing.
ReconcileParent(w, t, parents) ==
  LET desired == MapRemoteToLocal(parents) \ {t}
  IN IF parents = {} \/ desired = {} THEN w ELSE ReconcileFamily(w, t, "ChildOf", desired)

Reconciled(p, parents) ==
  LET t == proc[p].t
      w0 == [g |-> [rel EXCEPT ![t] = proc[p].copy], touched |-> {}]
      w1 == ReconcileFamily(w0, t, "ParentOf", MapRemoteToLocal(proc[p].subs))
      w2 == ReconcileFamily(w1, t, "BlockedBy", MapRemoteToLocal(proc[p].blockers))
  IN ReconcileParent(w2, t, parents)

Queued(l) == \E i \in DOMAIN outbox : outbox[i].link = l

\* Subject and neighbours are saved in one transaction, without outbox entries.
PullReconcile(p) ==
  /\ proc[p].pc = "parent"
  /\ LET t == proc[p].t
         w == Reconciled(p, FetchParent(t))
         g == [u \in Tasks |-> IF u \in {t} \cup w.touched THEN w.g[u] ELSE rel[u]]
         moved == (LocalLinks(rel) \ LocalLinks(g)) \cup (LocalLinks(g) \ LocalLinks(rel))
     IN /\ rel' = IF w.touched = {} THEN rel ELSE g
        /\ off' = (off \ {l \in moved : ~Queued(l)})
                  \cup {l \in moved : Queued(l) \/ ((l \in links) # (l \in LocalLinks(g)))}
  /\ proc' = [proc EXCEPT ![p] = Idle]
  /\ UNCHANGED <<filed, links, outbox, backoff, spent>>
-----------------------------------------------------------------------------
(* The drainer and the world.                                              *)

Eligible(i) ==
  /\ outbox[i].task \notin backoff
  /\ \A j \in 1..(i-1) : outbox[j].task # outbox[i].task
First(i) == Eligible(i) /\ \A j \in 1..(i-1) : ~Eligible(j)
Overtakes(i) == \E j \in 1..(i-1) : outbox[j].link = outbox[i].link

Drain(i) ==
  /\ First(i)
  /\ links' = ApplyMutation(links, outbox[i])
  /\ outbox' = RemoveAt(outbox, i)
  /\ off' = IF Overtakes(i) \/ (outbox[i].add /\ outbox[i].link \notin links')
            THEN off \cup {outbox[i].link} ELSE off
  /\ UNCHANGED <<rel, filed, backoff, proc, spent>>

\* A transient failure, with or without effect: the head waits.
DrainRetry(i, landed) ==
  /\ First(i)
  /\ Spend("faults")
  /\ links' = IF landed THEN ApplyMutation(links, outbox[i]) ELSE links
  /\ backoff' = backoff \cup {outbox[i].task}
  /\ off' = IF landed /\ Overtakes(i) THEN off \cup {outbox[i].link} ELSE off
  /\ UNCHANGED <<rel, filed, outbox, proc>>

\* The attempt cap: nothing will send the mutation again.
DeadLetter(i) ==
  /\ First(i)
  /\ Spend("faults")
  /\ outbox' = RemoveAt(outbox, i)
  /\ off' = off \cup {outbox[i].link}
  /\ UNCHANGED <<rel, filed, links, backoff, proc>>

BackoffElapses ==
  /\ backoff # {} /\ backoff' = {}
  /\ UNCHANGED <<rel, filed, links, outbox, proc, off, spent>>

RemoteEdit(l, add) ==
  /\ l.a # l.b /\ {l.a, l.b} \subseteq filed \cup Strangers
  /\ (l \in links) # add
  /\ Spend("edits")
  /\ links' = ApplyMutation(links, [link |-> l, add |-> add])
  /\ off' = off \cup {l}
  /\ UNCHANGED <<rel, filed, outbox, backoff, proc>>

Command(p) ==
  \/ \E t, o \in Tasks, k \in UsedKinds : AddRelation(p, t, k, o)
  \/ \E t, o \in Tasks, k \in UsedKinds : RemoveRelation(p, t, k, o)
  \/ \E t \in Tasks : ClearRelations(p, t)
  \/ \E t \in Tasks : PromoteBegin(p, t)
  \/ PromotePlan(p)
  \/ Save(p)
Pull(p) ==
  \/ \E t \in Tasks : PullBegin(p, t)
  \/ PullContent(p) \/ FetchSubIssues(p) \/ FetchBlockedBy(p) \/ PullReconcile(p)
Drainer ==
  \/ \E i \in DOMAIN outbox : Drain(i)
  \/ \E i \in DOMAIN outbox, landed \in BOOLEAN : DrainRetry(i, landed)
  \/ \E i \in DOMAIN outbox : DeadLetter(i)
  \/ BackoffElapses

Next ==
  \/ \E p \in Procs : Command(p) \/ Pull(p)
  \/ Drainer
  \/ \E l \in Links, add \in BOOLEAN : RemoteEdit(l, add)

Spec == Init /\ [][Next]_vars
-----------------------------------------------------------------------------
TypeOK ==
  /\ rel \in [Tasks -> SUBSET (Kinds \X Tasks)]
  /\ filed \subseteq Tasks /\ links \subseteq Links /\ off \subseteq Links
  /\ outbox \in Seq([task : Tasks, link : Links, add : BOOLEAN]) /\ backoff \subseteq Tasks
  /\ \A p \in Procs : proc[p].pc \in {"idle", "save", "promote", "content", "subs",
                                      "blockers", "parent"}
  /\ \A b \in DOMAIN Budgets : spent[b] \in 0..Budgets[b]

Row(t, k, o) == <<t, k, o>>

(* The graph reads the same from both ends: every stored edge has its      *)
(* reciprocal on the other task, except a legacy row that never had one.   *)
(* Commands, backfills and pulls each write two rows or more              *)
(* (add_relation, remove_relation, clear_relations,                       *)
(* reconcile_relations_inbound) and none may leave one half behind.        *)
Reciprocal ==
  \A t \in Tasks : \A e \in rel[t] :
    <<InverseKind(e[1]), t>> \in rel[e[2]] \/ Row(t, e[1], e[2]) \in LegacyRows

Acyclic(g, forward) ==
  \A n \in Tasks : n \notin UNION {Visited(g, forward, {m}) : m \in Up(g, forward, n)}

(* No command closes a loop of blockers or of parents, even where a legacy *)
(* row shows an edge from one end only (would_create_cycle). Only a pull,  *)
(* which adopts what GitHub reports without this check, is excepted.       *)
CommandsKeepAcyclic ==
  [][rel' = rel \/ (\E p \in Procs : PullReconcile(p))
     \/ \A f \in {"BlockedBy", "ChildOf"} : Acyclic(rel, f) => Acyclic(rel', f)]_vars

(* When nothing is queued and nothing runs, GitHub has exactly the         *)
(* sub-issues and dependencies that the local graph states between         *)
(* issue-backed tasks. Relations have no dirty state, so an entry that is  *)
(* not enqueued with its save, or skipped by the promote of either end, is *)
(* never made up for. Excepted are links GitHub's users changed, links     *)
(* GitHub refused, dead letters, a mutation that overtook an older one for *)
(* the same link in another task's queue, and edges a pull moved while     *)
(* their mutation was queued or under way.                                 *)
QuietIsMirrored ==
  (outbox = <<>> /\ \A p \in Procs : proc[p].pc = "idle") =>
    \A l \in (LocalLinks(rel) \cup links) \ off :
      {l.a, l.b} \subseteq filed => (l \in links /\ l \in LocalLinks(rel))

(* Every edge is stored at both its ends, and a quiet store agrees with    *)
(* GitHub (save_many_with_outbox, relation_backfill_entries,               *)
(* reconcile_family).                                                      *)
RelationsAreSound == TypeOK /\ Reciprocal /\ QuietIsMirrored

(* A pull never drops an edge to a task that GitHub cannot know of: one    *)
(* that has no issue (reconcile_family), whatever the fetches returned.    *)
PullKeepsLocalOnly ==
  [][rel' = rel \/ \A p \in Procs : PullReconcile(p) =>
       \A t \in Tasks : \A e \in rel[t] :
         ({t, e[2]} \subseteq filed) \/ e \in rel'[t]]_vars

(* The adapter takes the status GitHub uses for an invalid link as proof   *)
(* that the link exists (rest_ok_or_err: "The local cycle guard blocks     *)
(* cycle-forming edges before enqueue, so a 422 reaching here means        *)
(* already exists"): an add that GitHub refuses is for a link that is      *)
(* there.                                                                  *)
RefusedMeansPresent ==
  [][\A i \in DOMAIN outbox :
       (Drain(i) /\ outbox[i].add /\ Refused(links, outbox[i].link))
         => outbox[i].link \in links]_vars
=============================================================================
