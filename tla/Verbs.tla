------------------------------- MODULE Verbs -------------------------------
(***************************************************************************)
(* What the commands of rl do, in which order: each command is a sequence  *)
(* of steps, and a run of it meets a set of things that do not work today. *)
(* A step is one call with all its own reads and writes, which the other   *)
(* modules take apart.                                                     *)
(*   does: "arg" a check of the flags, "read" and "write" the store,       *)
(*         "path" the file system or git, "token", "net" GitHub, "note"    *)
(*         what only records that something was seen (synced_at, the node  *)
(*         id of an issue, the index)                                      *)
(*   what: the name of what it needs ("never" is never there); hard:       *)
(*         whether its failure ends the command. A soft step that fails    *)
(*         takes the soft ones after it along, up to the next hard one.    *)
(***************************************************************************)
EXTENDS Naturals, FiniteSets, Sequences, SequencesExt

Must(does, what) == <<[does |-> does, what |-> what, hard |-> TRUE]>>
Try(does, what) == <<[does |-> does, what |-> what, hard |-> FALSE]>>
Only1(cond, steps) == IF cond THEN steps ELSE <<>>

\* The run of a command when the things in broken fail.
RunStep(run, step, broken) ==
  IF ~run.ok \/ (~step.hard /\ run.skipping) THEN run
  ELSE IF step.what \in broken \cup {"never"} THEN [run EXCEPT !.ok = ~step.hard, !.skipping = TRUE]
  ELSE [run EXCEPT !.did = Append(@, step), !.skipping = FALSE]
RunCommand(steps, broken) ==
  FoldLeft(LAMBDA run, step : RunStep(run, step, broken), [ok |-> TRUE, did |-> <<>>, skipping |-> FALSE], steps)

-----------------------------------------------------------------------------
(* What the commands share. *)

\* Every command opens the database first, and migrates it.
Bootstrap == Must("read", "database")

\* A --repo that is not given costs nothing.
ResolveRepoHandle(given) == Only1(given, Must("read", "handle"))
\* Without --repo the directory must be a checkout, and of one bound repo.
RepoOrCwd(given) == IF given THEN Must("read", "handle") ELSE Must("path", "git") \o Must("read", "membership")
WorkspaceOrCwd(given) == Only1(~given, Must("path", "git") \o Must("read", "membership"))

RequireGithubToken == Must("token", "token")

\* The owner's issue types; the table is replaced only by an answer.
FetchIssueTypes(hard) ==
  LET step(does, what) == IF hard THEN Must(does, what) ELSE Try(does, what)
  IN step("net", "remote") \o step("write", "types")

\* The filter flags of the list and of the views.
ListQuery(repo) == ResolveRepoHandle(repo)
QueryFilter(repo) == ListQuery(repo) \o Must("arg", "filter")

\* One task after the other: a failure is told at the end and stops none.
BatchTaskOp(refs, broken) ==
  [rows |-> [i \in DOMAIN refs |-> [ref |-> refs[i], ok |-> refs[i] \notin broken]],
   wrote |-> SelectSeq(refs, LAMBDA r : r \notin broken),
   ok |-> \A i \in DOMAIN refs : refs[i] \notin broken]

-----------------------------------------------------------------------------
(* rl task *)

TaskCreate(a) ==
  ResolveRepoHandle(a.filing)
  \o (IF a.repo THEN Must("read", "handle") \o Only1(a.ws, Must("arg", "workspace"))
      ELSE Must("path", "git") \o Only1(~a.ws, Must("read", "membership")))
  \o Must("write", "task")

\* With --refresh GitHub is asked first, if the task has an issue. A moved issue is
\* an error; anything else that goes wrong there is only told.
TaskShow(a) ==
  Must("read", "ref")
  \o Only1(a.refresh /\ a.issue,
           RequireGithubToken \o Must("net", "moved") \o Try("net", "remote") \o Try("note", "stamp"))
  \o Must("read", "ref") \o Only1(a.filed, Must("read", "store"))

TaskEdit(a) ==
  Must("arg", "flags") \o ResolveRepoHandle(a.repo) \o ResolveRepoHandle(a.filing)
  \o Must("read", "ref") \o Must("write", "task")

TaskList(a) == ListQuery(a.repo) \o Must("arg", "filter") \o Must("read", "store")

TaskComment == Must("read", "ref") \o Must("write", "comment")

\* A task that points there already is left alone. A relink asks GitHub for all it
\* needs before it saves; the comments are a write of their own.
TaskLink(a) ==
  Must("arg", "url") \o Must("read", "ref") \o RequireGithubToken
  \o Only1(~a.there,
       Must("read", "binding")
       \o (IF a.relink THEN Must("arg", "state") \o Must("net", "moved") \o Must("net", "remote") \o Must("net", "thread")
           ELSE Must("net", "remote"))
       \o Must("write", "task") \o Must("write", "comments"))

\* Refused for a task that is not clean, owes GitHub something or has moved already.
TaskTransfer(a) ==
  Must("read", "handle") \o Must("read", "ref") \o RequireGithubToken
  \o Must("arg", "state") \o Must("read", "binding") \o Must("read", "outbox") \o Must("net", "moved")
  \o Only1(a.away, Must("arg", "never")) \o Only1(a.nodeless, Must("net", "remote")) \o Must("net", "transfer")
  \o Must("read", "board") \o Must("write", "task")

\* Adding takes both --kind and --other, --remove both or neither.
TaskRelate(a) ==
  Only1(IF a.remove THEN a.kind # a.other ELSE ~(a.kind /\ a.other), Must("arg", "never"))
  \o Must("read", "ref") \o Must("write", "relation")

TaskSnapshots == Must("read", "ref") \o Must("read", "store")
TaskRollback == Must("read", "ref") \o Must("write", "task")

\* The model is loaded only without --exact, and search does without it.
TaskSearch(a) ==
  Must("arg", "workspace") \o ResolveRepoHandle(a.repo) \o Only1(~a.exact, Try("path", "model"))
  \o Must("arg", "status") \o Must("read", "store") \o Try("note", "sidecar")

\* Status tells of a broken sidecar instead of failing; prepare-model takes a cache
\* that is there already.
SearchIndex(verb) ==
  CASE verb = "status" -> Try("read", "sidecar")
    [] verb = "rebuild" -> Try("path", "model") \o Must("read", "store") \o Must("note", "sidecar")
    [] verb = "clear" -> Must("note", "sidecar")
    [] OTHER -> Must("path", "model")

-----------------------------------------------------------------------------
(* rl sync *)

\* The dead letters are read before the token is asked for.
SyncOutbox == Must("read", "store")

\* An issue and, with --cascade, one that is below it: each is saved before the next
\* request, and the edge between them after both.
SyncImport(a) ==
  RequireGithubToken \o WorkspaceOrCwd(a.ws) \o Must("arg", "url") \o Must("read", "binding")
  \o Only1(~a.tracked, Must("net", "root") \o Must("write", "root"))
  \o Only1(a.cascade,
       Must("net", "subs")
       \o Only1(~a.subTracked, Must("net", "child") \o Must("write", "child"))
       \o Must("write", "edge") \o Must("net", "below"))

\* --repo, else the whole workspace if it has a filing default, else the directory.
SyncListRemote(a) ==
  RequireGithubToken \o WorkspaceOrCwd(a.ws) \o Must("arg", "since")
  \o (IF a.repo THEN Must("read", "handle")
      ELSE Must("read", "store") \o Only1(~a.filed, RepoOrCwd(FALSE)))
  \o Must("net", "remote")

\* The task is saved as staged before GitHub is asked to create anything, unless it is
\* staged already with this filing repo; then a former run may have created the issue,
\* which is looked for first.
SyncPromote(a) ==
  RequireGithubToken \o Must("read", "ref") \o Must("arg", "state") \o Must("read", "origin")
  \o Only1(~(a.staged /\ a.recorded), Must("write", "staged"))
  \o Only1(a.staged, Must("net", "scan"))
  \o Only1(~(a.staged /\ a.orphan), Must("net", "create"))
  \o Must("read", "board") \o Must("write", "task")

\* The content first, then up to two comments, each with its id from GitHub.
SyncPush(a) ==
  RequireGithubToken \o Must("read", "ref") \o Must("read", "origin")
  \o Only1(~a.dirty /\ ~a.pending /\ ~a.more, Must("arg", "never"))
  \o Only1(a.dirty, Only1(a.differs, Must("net", "patch")) \o Must("write", "task"))
  \o Only1(a.pending, Must("net", "post") \o Must("write", "mark"))
  \o Only1(a.more, Must("net", "another post") \o Must("write", "another mark"))

\* Content that is overwritten is kept as a snapshot first; then the comments, the
\* node id, and the edges.
SyncPull(a) ==
  RequireGithubToken \o Must("read", "ref") \o Must("arg", "state") \o Must("read", "origin")
  \o Must("net", "remote") \o Must("note", "stamp")
  \o Only1(a.changed, Must("write", "kept") \o Must("write", "task"))
  \o Must("net", "thread") \o Must("write", "comments") \o Only1(a.nodeless, Must("note", "node"))
  \o Must("net", "graph") \o Must("read", "store") \o Only1(a.related, Must("write", "edges"))

-----------------------------------------------------------------------------
(* rl query. The views read and never write. *)

QueryView(a) == QueryFilter(a.repo) \o WorkspaceOrCwd(a.ws) \o Must("read", "store")
QueryOverview(a) == WorkspaceOrCwd(a.ws) \o Must("read", "store")

\* Going live must not cost the cached answer.
QueryDrift(a) ==
  WorkspaceOrCwd(a.ws) \o Must("read", "store")
  \o Only1(~a.offline, Try("token", "token") \o Try("net", "remote"))

QueryReady(a) ==
  QueryFilter(a.repo) \o Only1(~a.ws \/ a.cwdOnly, Must("path", "git"))
  \o Only1(a.cwdOnly, Must("read", "membership")) \o Must("read", "store")

QueryMine(a) == Must("arg", "nobody") \o QueryView(a)
QueryChildren == Must("read", "ref") \o Must("read", "store")

-----------------------------------------------------------------------------
(* rl repo, rl worktree, rl org, rl agents *)

\* The path to link must be a checkout of the repo that is attached.
ResolveAttachLinkPath(noLink) == Only1(~noLink, Must("path", "git") \o Must("arg", "origin"))

\* The origin, the instance, then the issue types of the owner, as far as that works.
RepoAttach(a) ==
  Must("arg", "workspace") \o ResolveAttachLinkPath(a.noLink) \o Must("write", "origin") \o Must("write", "binding")
  \o Only1(a.github, Try("token", "token") \o FetchIssueTypes(FALSE))

RepoDetach == Must("read", "handle") \o Must("write", "binding")
RepoList == Must("read", "store")
RepoShow == Must("read", "handle")

\* rename, set-prefix, alias add and alias rm.
RepoChange(a) == RepoOrCwd(a.repo) \o Must("write", "binding")
RepoFind == Must("read", "store")

\* Two tasks whose filing repo is gone are looked up and repaired one by one.
RepoDoctor(a) ==
  Only1(a.target, Must("read", "handle")) \o WorkspaceOrCwd(a.ws) \o Must("read", "store")
  \o Must("read", "home") \o Only1(a.repair, Must("write", "task"))
  \o Must("read", "another home") \o Only1(a.repair, Must("write", "another task"))

\* A directory whose origin cannot be read is listed without one.
RepoDiscover == Try("path", "git")
RepoLocate == Must("path", "git") \o Must("read", "store")

WorktreeLink(a) ==
  Must("path", "git") \o RepoOrCwd(a.repo) \o Must("arg", "origin") \o Must("write", "binding")
\* unlink and prune-missing.
WorktreeUnlink(a) == RepoOrCwd(a.repo) \o Must("write", "binding")

\* Two repos, one by one: paths that are gone are marked, or pruned.
WorktreeReconcile(a) ==
  LET changed == a.missing \/ a.prune
  IN WorkspaceOrCwd(a.ws) \o Must("read", "store")
     \o Must("path", "path") \o Only1(changed, Must("write", "binding"))
     \o Must("path", "another path") \o Only1(changed, Must("write", "another binding"))

OrgFetchIssueTypes(a) ==
  Only1(~a.owner, Must("path", "git") \o Must("arg", "origin")) \o RequireGithubToken \o FetchIssueTypes(TRUE)

AgentsDocs == Must("path", "git") \o Must("read", "store") \o Must("path", "markers") \o Must("write", "agents")

-----------------------------------------------------------------------------
\* Each command with the steps of its run, after the store is opened.
Commands(f) ==
  LET verb ==
           [create |-> TaskCreate(f), show |-> TaskShow(f), edit |-> TaskEdit(f), list |-> TaskList(f),
            comment |-> TaskComment, link |-> TaskLink(f), transfer |-> TaskTransfer(f), relate |-> TaskRelate(f),
            snapshots |-> TaskSnapshots, rollback |-> TaskRollback, search |-> TaskSearch(f),
            status |-> SearchIndex("status"), rebuild |-> SearchIndex("rebuild"), clear |-> SearchIndex("clear"),
            prepare |-> SearchIndex("prepare-model"),
            outbox |-> SyncOutbox, import |-> SyncImport(f), listRemote |-> SyncListRemote(f),
            promote |-> SyncPromote(f), push |-> SyncPush(f), pull |-> SyncPull(f),
            view |-> QueryView(f), overview |-> QueryOverview(f), drift |-> QueryDrift(f),
            ready |-> QueryReady(f), mine |-> QueryMine(f), children |-> QueryChildren,
            attach |-> RepoAttach(f), detach |-> RepoDetach, repos |-> RepoList, repo |-> RepoShow,
            change |-> RepoChange(f), find |-> RepoFind, doctor |-> RepoDoctor(f),
            discover |-> RepoDiscover, locate |-> RepoLocate, worktree |-> WorktreeLink(f),
            unlink |-> WorktreeUnlink(f), reconcile |-> WorktreeReconcile(f),
            types |-> OrgFetchIssueTypes(f), agents |-> AgentsDocs]
  IN [v \in DOMAIN verb |-> Bootstrap \o verb[v]]

-----------------------------------------------------------------------------
(***************************************************************************)
(* Which workspace and which repo a command works on, from its flags and   *)
(* the current directory; whom rl query mine is about; and rl task claim.  *)
(* A binding is a pair of workspace and repo, "none" a flag that was not   *)
(* given. A handle is a binding for its id, or <<"any", repo>> for a name. *)
(* What may fail returns a set: one element, or none for an error.         *)
(*   world: bound (bindings), status of each workspace, cwd (the repo that *)
(*          the directory is a checkout of, or "none")                     *)
(***************************************************************************)
AnyOf(repo) == <<"any", repo>>
NoHandle == <<"none", "none">>
Only(S) == IF Cardinality(S) = 1 THEN S ELSE {}
ActiveIn(w) == {s \in DOMAIN w.status : w.status[s] = "active"}

MembershipsForCanonicalUrl(w, repo) == {b \in w.bound : b[2] = repo /\ b[1] \in ActiveIn(w)}

\* Empty also where the directory is no checkout.
CwdRepoMemberships(w) == MembershipsForCanonicalUrl(w, w.cwd)

PickRepoOfCwd(w) == Only(CwdRepoMemberships(w))
PickWorkspace(w) == {b[1] : b \in Only(CwdRepoMemberships(w))}

\* An id is taken whatever became of its workspace. For a name active workspaces
\* come first, and archived ones count only when there is no active one.
ResolveRepoHandleRequired(w, handle) ==
  LET named(states) == {b \in w.bound : b[2] = handle[2] /\ w.status[b[1]] \in states}
  IN IF handle[1] # "any" THEN {handle} \cap w.bound
     ELSE IF named({"active"}) # {} THEN Only(named({"active"}))
     ELSE Only(named({"archived"}))

ResolveRepoOrCwd(w, handle) ==
  IF handle # NoHandle THEN ResolveRepoHandleRequired(w, handle) ELSE PickRepoOfCwd(w)

ResolveWorkspace(w, ws) == IF ws # "none" THEN {ws} ELSE PickWorkspace(w)

\* The workspaces that rl query ready shows, and the repos it keeps to.
ResolveReadyScope(w, ws, localOnly) ==
  LET here == CwdRepoMemberships(w)
      spans == IF ws # "none" THEN {ws} ELSE {b[1] : b \in here}
  IN IF localOnly THEN IF here = {} THEN {} ELSE {[in |-> spans, repos |-> here]}
     ELSE {[in |-> IF spans = {} THEN ActiveIn(w) ELSE spans, repos |-> {}]}

InReadyScope(scope, task) ==
  task[1] \in scope.in /\ (scope.repos = {} \/ task \in scope.repos)

\* The repo of the directory inside that workspace, if there is one.
CwdRepoInWorkspace(w, ws) ==
  LET own == {b \in CwdRepoMemberships(w) : b[1] = ws} IN IF own = {} THEN {<<ws, "none">>} ELSE own

\* The workspace and repo of a new task.
ResolveTaskCreateScope(w, ws, handle) ==
  IF handle # NoHandle THEN {b \in ResolveRepoHandleRequired(w, handle) : ws \in {"none", b[1]}}
  ELSE IF ws # "none" THEN CwdRepoInWorkspace(w, ws)
  ELSE Only(CwdRepoMemberships(w))

\* Each workspace of the directory's repo with the others of its repos.
HereDispatch(w) ==
  {[at |-> b, roster |-> {c \in w.bound : c[1] = b[1]} \ {b}] : b \in CwdRepoMemberships(w)}

-----------------------------------------------------------------------------
\* The first that is not blank: --assignee, the cached login, git's user name,
\* REPO_LINK_USER, USER.
ResolveMineAssignee(sources) ==
  LET given == SelectSeq(sources, LAMBDA s : s # "") IN IF given = <<>> THEN "" ELSE given[1]

\* rl task claim of one task: it is closed or unknown, or it gets the login and,
\* if it has an issue, a push.
ClaimOne(db, ref, login, push) ==
  LET task == db[ref]
      assign == login \notin task.who
  IN IF ref \notin DOMAIN db THEN [db |-> db, row |-> "error"]
     ELSE IF ~task.open THEN [db |-> db, row |-> "error"]
     ELSE [db |-> [db EXCEPT ![ref].who = @ \cup {login}],
           row |-> IF ~push THEN "no-sync" ELSE IF ~task.remote THEN "not promoted"
                   ELSE IF assign THEN "push" ELSE "noop"]

\* Login and token are looked for before the first task is touched; a task that
\* fails does not stop the rest.
ClaimDispatch(db, refs, login, push, token) ==
  LET one(acc, ref) == LET c == ClaimOne(acc.db, ref, login, push)
                       IN [db |-> c.db, rows |-> Append(acc.rows, c.row)]
      all == FoldLeft(one, [db |-> db, rows |-> <<>>], refs)
  IN IF login = "" \/ (push /\ ~token) THEN [db |-> db, rows |-> <<>>, ok |-> FALSE]
     ELSE [db |-> all.db, rows |-> all.rows, ok |-> \A i \in DOMAIN all.rows : all.rows[i] # "error"]
=============================================================================
