------------------------------- MODULE Homes -------------------------------
(***************************************************************************)
(* Where the issue of a task is filed. The services, the drainer and       *)
(* rl sync list-remote each walk the chain recorded filing repo, default   *)
(* of the workspace, origin of the logical repo for themselves, on a copy  *)
(* of the task that was read earlier: what it names may be gone by now. An *)
(* optional value is a sequence of at most one; an answer is a set, empty  *)
(* for an error.                                                           *)
(*   world: workspaces (those that exist: filing, project, the instances   *)
(*          bound), instances (the origin of each), origins, owners (the   *)
(*          GitHub owner of an origin), boards, types (of an owner's       *)
(*          registry), hub (the issues of each origin that answers)        *)
(*   task:  ws, filing, repo, provider, remote (the issue), mirror, item,  *)
(*          type, node, open, prio                                         *)
(***************************************************************************)
EXTENDS Projects

Some(x) == <<x>>
None == <<>>

\* The chain takes the first that there is.
ResolveFilingRepo(recorded, default, logical) ==
  LET chain == recorded \o default \o logical IN IF chain = None THEN None ELSE Some(Head(chain))

\* A deleted workspace has no default, a detached instance no origin.
WorkspaceDefault(w, task) == IF task.ws \in DOMAIN w.workspaces THEN w.workspaces[task.ws].filing ELSE None
Attached(w, task) == task.repo = None \/ Head(task.repo) \in DOMAIN w.instances
LogicalOriginFor(w, task) ==
  IF task.repo = None \/ ~Attached(w, task) THEN None ELSE Some(w.instances[Head(task.repo)])
FilingOrigin(w, task) == ResolveFilingRepo(task.filing, WorkspaceDefault(w, task), LogicalOriginFor(w, task))
GetOrigin(w, origin) == {origin} \cap {Some(o) : o \in w.origins}

\* TaskService has no address for a task without a home; SyncService has an error.
FilingCanonicalFor(w, task) ==
  LET origin == FilingOrigin(w, task) IN IF origin = None THEN {None} ELSE GetOrigin(w, origin)
SyncFilingCanonicalFor(w, task) == GetOrigin(w, FilingOrigin(w, task))
LogicalCanonicalFor(w, task) == {Some(w.instances[i]) : i \in Range(task.repo) \cap DOMAIN w.instances}

\* The drainer asks for the owner only, and the task's card for a name: both do
\* without an origin that is gone.
FilingOwnerLogin(w, task) ==
  LET there == GetOrigin(w, FilingOrigin(w, task)) IN IF there = {} THEN {None} ELSE {w.owners[Head(o)] : o \in there}
ResolveFilingOrigin(w, task) ==
  IF task.filing = None \/ GetOrigin(w, task.filing) = {} THEN {None} ELSE GetOrigin(w, task.filing)

\* An end of a relation: its repo and issue. The variants with a cache of workspaces,
\* one in each service, give up when the workspace is gone.
RelationRemoteCoords(w, task) ==
  IF task.remote = None THEN {None}
  ELSE {IF home = None THEN None ELSE Some(<<Head(home), Head(task.remote)>>) : home \in FilingCanonicalFor(w, task)}
RelationRemoteCoordsCached(w, task) ==
  IF task.ws \notin DOMAIN w.workspaces THEN {None} ELSE RelationRemoteCoords(w, task)
SyncRelationRemoteCoords(w, task) ==
  IF task.ws \notin DOMAIN w.workspaces \/ task.remote = None \/ FilingOrigin(w, task) = None THEN {None}
  ELSE {Some(<<Head(home), Head(task.remote)>>) : home \in GetOrigin(w, FilingOrigin(w, task))}
PlanRelationEntries(w, task, other) ==
  {IF None \in {near, far} THEN <<>> ELSE <<[from |-> Head(near), to |-> Head(far)]>> :
     near \in RelationRemoteCoords(w, task), far \in RelationRemoteCoords(w, other)}

\* A command fails when the workspace or its board is gone; a hook of the drainer
\* takes that for a workspace without a board.
ProjectForWorkspace(w, ws) ==
  LET project == w.workspaces[ws].project
  IN IF project = None THEN {None} ELSE {project} \cap {Some(b) : b \in DOMAIN w.boards}
ResolveProject(w, task) ==
  IF task.ws \in DOMAIN w.workspaces THEN ProjectForWorkspace(w, task.ws) ELSE {}
ResolveProjectTolerant(w, task) ==
  IF ResolveProject(w, task) = {} THEN {None} ELSE ResolveProject(w, task)
BoardOf(w, project) == IF project = None THEN NoProject ELSE w.boards[Head(project)]

\* The filing repo is recorded when the task first goes to a board; unlike the chain
\* everywhere else, this one fails on a detached instance.
FirstBoardFiling(w, task, project) ==
  IF project = None \/ task.item # None \/ task.filing # None THEN {task}
  ELSE IF ~Attached(w, task) THEN {}
  ELSE {[task EXCEPT !.filing = FilingOrigin(w, task)]}

\* The task and the issue that its change is pushed to, and whether it is dropped.
PlanMirrorMutations(w, task) ==
  IF ~task.mirror THEN {[task |-> task, update |-> None, dropped |-> FALSE]}
  ELSE UNION {{[task |-> filed,
                update |-> IF None \in {home, task.remote} THEN None ELSE Some(<<Head(home), Head(task.remote)>>),
                dropped |-> task.remote # None /\ home = None /\ project = None] :
                 home \in FilingCanonicalFor(w, filed)} :
               <<project, filed>> \in UNION {{p} \X FirstBoardFiling(w, task, p) : p \in ResolveProject(w, task)}}

\* The type that a converted draft owes: on the rail of the board or of the owner,
\* who is read from the address in the entry.
TypeTask(task) == [type |-> task.type, node |-> task.node, item |-> IF task.item = None THEN "null" ELSE Head(task.item)]
TypesOf(w, owner) == IF owner = None THEN {} ELSE w.types[Head(owner)]
RailFor(w, task, owner) ==
  UNION {ResolveTypeProjection(BoardOf(w, p), TypesOf(w, owner), owner # None, TypeTask(task)) :
           p \in ResolveProjectTolerant(w, task)}
EnqueueIssueTypeFollowUp(w, task, home) == IF task.type = "null" THEN {} ELSE RailFor(w, task, w.owners[home])

\* The same for every task whose type is still owed, when the drainer looks again.
PendingIssueType(w, task) ==
  IF ~task.mirror THEN {}
  ELSE UNION {RailFor(w, task, IF task.type = "null" THEN None ELSE owner) : owner \in FilingOwnerLogin(w, task)}

\* What a new card is told, if its board is still the one of the workspace: the
\* column, the priority and the type.
StatusFollowUp(w, task, board) ==
  {IF project # Some(board) THEN [status |-> "null", priority |-> "null", type |-> {}]
   ELSE [status |-> ResolvedOptionIdFor(w.boards[board], task.open),
         priority |-> ResolvedPriorityOptionIdFor(w.boards[board], task.prio),
         type |-> SetProjectTypeMutation(w.boards[board], TypeTask(task))] : project \in ResolveProject(w, task)}

\* An issue is tracked when a task of that filing repo and provider has it.
ProviderLabel(w, origin) == IF w.owners[origin] # None THEN "github" ELSE "remote"
TrackedRemoteIds(tasks, origin, provider, ids) ==
  {n \in ids : \E t \in tasks : t.filing = Some(origin) /\ t.provider = provider /\ t.remote = Some(n)}
RemoteGroup(origin, role, issues, tracked) == [repo |-> origin, role |-> role, issues |-> issues, tracked |-> tracked]
ListRemoteGroup(w, tasks, origin, role) ==
  RemoteGroup(origin, role, w.hub[origin], TrackedRemoteIds(tasks, origin, ProviderLabel(w, origin), w.hub[origin]))

\* A repo that was asked for is shown even when it has no issues. A workspace shows
\* its default first and then its repos, each origin once; one that does not answer
\* fails the whole list.
Deduped(seq) == SelectSeq([i \in DOMAIN seq |-> IF \E j \in 1..(i - 1) : seq[j] = seq[i] THEN None ELSE Some(seq[i])],
                          LAMBDA s : s # None)
ListRemote(w, tasks, ws, repo) ==
  LET bound == w.workspaces[ws].bound
      origins == [i \in DOMAIN bound |-> w.instances[bound[i]]]
      default == w.workspaces[ws].filing
      ordered == Deduped(default \o origins)
      role(i) == IF i = 1 /\ default # None THEN "Filing" ELSE "Canonical"
      groups == [i \in DOMAIN ordered |-> ListRemoteGroup(w, tasks, Head(ordered[i]), role(i))]
  IN IF repo # None
     THEN {<<ListRemoteGroup(w, tasks, o, "Repo")>> :
             o \in {w.instances[i] : i \in Range(repo) \cap DOMAIN w.instances} \cap DOMAIN w.hub}
     ELSE IF \/ ws \notin DOMAIN w.workspaces
             \/ ~(Range(default) \subseteq w.origins \cup Range(origins))
             \/ ~(Range(default) \cup Range(origins) \subseteq DOMAIN w.hub)
     THEN {}
     ELSE {SelectSeq(groups, LAMBDA g : g.issues # {})}
=============================================================================
