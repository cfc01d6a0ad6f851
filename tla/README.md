# repo-link: a TLA+ verification project

repo-link keeps tasks in a local SQLite store and mirrors them to GitHub issues
and to a Projects v2 board. This directory models how the store, the commands, the
daemon, the search index and the GitHub adapter work, checks the models with TLC and
proves central properties with TLAPS. `PROJECT.json` maps every definition to the
lines it models and lists runs, mutants, hazards, findings and theorems.

## The system

Three kinds of actor share the files of one user:

- `rl`, a short-lived command line. Each command reads rows, may call GitHub, and
  writes whole rows back. Writes are transactions; there is no version check (issue
  #283 in the code's comments), so two processes that overlap overwrite each other.
  Every save appends a snapshot; a snapshot whose source counts as alignment becomes
  the task's *baseline*, against which edits are compared.
- `rld`, the daemon: a *drainer* that works off the outbox table, a *poller* that
  compares a board's changed items with the local tasks, and a *tick* that keeps the
  worktree links true to the disk. launchd, systemd or the Task Scheduler restart it.
- people on GitHub, who edit, move and delete issues and cards.

| Part | State | Operations | What is hard |
|---|---|---|---|
| Outbox and drainer loop | `outbox_entries` | enqueue, claim, apply, resolve, retry, dead-letter, requeue, withdraw | order per task across backoff, crash between effect and resolution, attempt cap |
| Task aggregate and mirror sync | row, snapshots, sync state | edit, lifecycle, rollback, push, pull, drain, poll | copies that outlive an await, lost answers, columns written from two sides |
| Filing | filing repo, issue number, workspace default | promote, import, link, relink, transfer, rollback | crash after the issue exists, identity spread over three fields |
| Relations | reciprocal edges | relate, unrelate, clear, backfill, reconcile | cycles, inbound against pending outbound |
| Board projection | item id, cached column, type flag | add, draft, convert, status, priority, type, attach, detach | follow-up rows, repeats of calls that are not idempotent |
| Project poller | watermark, `synced_at` | poll, candidate window | whole seconds, reads that are older than the row |
| Comments | pending and synced rows | comment, push, pull, link | at-least-once posts without a lock |
| Paged lists, adapter | none | list, probe, write, GraphQL batches | lists that change while they are read, moved issues, partial answers |
| Cascading import | tracked children | `rl sync import --cascade` | killed and concurrent runs |
| Ids | prefix, hash | mint, backfill, resolve | two processes open an old database |
| Registry, worktrees | origins, instances, links | attach, detach, rename, doctor, link, tick | whole-row edits that race, grace counters |
| Workspaces and projects | rows of several tables | transitions, set-project, link, map, unlink | stale whole-row saves |
| Daemon life and control | process, unit files, log | run, stop, restart, install, logs -f | bounded join, restart, rotation |
| Search | sidecar index, vectors | search, rebuild, status | two binaries on one index, reused chunk ids |
| Token file, model cache | files | auth, claim, prepare-model | overlapping and killed writers, permissions |
| Queries, scopes, verbs | none | views, scope of a command, step order | loops of edges, partial failure |

They interact through the store (every command writes rows that the drainer and the
tick read), the outbox (commands enqueue in the transaction of their save, the drainer
applies), and GitHub. There are no callbacks: what looks like a message is a row.

## How it is modelled

One module per component, its actions the commit points and remote calls of the code;
between two of them any other actor may run. Constants are parameters; the bounds named
`Max...`, `...Commands`, `...Faults` only cap inputs. A run that would cost more to set
up than to check is shared: `MCMirror`, `MCServices` and `MCStore` host several
components that share no state. A behaviour chooses one of them (`part`) in its first
state, and the variables of the others keep one initial value, so the state space is the
sum and not the product of the parts. Pure algorithms are operators of modules without
variables; `MCAlgorithms` picks an input (`probe`) in each `Pick...` action and compares
the operator with a reference definition. A run checks few properties with names of
their own; `...AreRight` and `...AreSound` are conjunctions whose parts are stated and
commented where they belong.

| Module | What it models |
|---|---|
| `Outbox` | the table with every operation of `SqliteOutboxRepository`, `drain_once`, crash and startup. `rows[e]` is the row with rowid `e`; `drafts` are entries of a process that has not got the writer lock yet |
| `Mailbox` | what the outbox promises: per task, letters take effect and are closed head first. `Outbox` refines it |
| `TaskSync` | one mirrored task and its issue. A process reads the row into a copy; every await is a point where others run: `PushBegin`/`PushSend`/`PushSave`, `PullBegin`/`PullFetch`/`PullApply`, `DrainBegin`/`DrainSend`/`DrainSave`, `PollFetch`/`PollCompare`. The outbox appears as the number of open rows and the attempts of the first |
| `Aggregate` | one task as the store keeps it: which column survives which write, copies against the targeted writes of the daemon |
| `Filing` | several tasks over several repos; which issue a task stands for. `promote` is taken apart at its remote calls, `transfer` likewise; `node` is the issue itself, `github[r][n]` the issue or redirect at a number |
| `OutboxProofs`, `TaskSyncProofs`, `FilingProofs`, `BoardProofs`, `FieldsProofs`, `SearchProofs`, `ServicesProofs`, `MirrorProofs` | the theorems about these modules; `OutboxProofs` is about `Outbox` and `Aggregate`, `FilingProofs` about `Filing` and `Stores`, `ServicesProofs` is about `DaemonRun`, `Worktrees`, `Registry` and `Units`, `SearchProofs` about `Search`, `Files` and `LogTail`, `MirrorProofs` about `Mirror` and each of its parts |
| `Homes` | the six walks of the filing chain, `list-remote`, and the rails a type travels on, on task copies whose workspace or instance may be gone |
| `MirrorSet` | diff against the baseline, PATCH, inbound copy, what a pull tells the user, issue types |
| `Relations` | edges of several tasks with issues and drafts: commands with the cycle check, entries keyed on the subject, the drainer's sub-issue and dependency calls, inbound reconcile |
| `Board`, `Fields` | a card's life and column; its priority and type, the sweep of pending types, the poller with its watermark |
| `Projects` | which field plays which part, derived mappings, the way back |
| `Stores` | rows of workspaces, projects and org types under overlapping commands |
| `Comments` | rows and GitHub's comments under push, pull and link |
| `Paging` | REST pages with probe and cap, the board's cursor |
| `Adapter` | requests, answers and error classes of one adapter call while an issue moves |
| `Mirror` | `Relations`, `Comments`, `Paging`, `Ids` and `Cascade` beside each other |
| `Cascade` | an import over a tree, killed, repeated and concurrent |
| `Ids` | minting, backfills, lookup |
| `Registry` | origins, instances, prefixes, names, aliases, handles, doctor |
| `Worktrees` | links, probes, grace, tick against commands |
| `DaemonRun` | main loop, two tasks, cancellation, join, restart, heartbeat, status |
| `Units`, `LogTail` | install, start, stop, status on three platforms; `logs --follow` over rotation |
| `Views`, `Verbs` | query views; which workspace a command means, the steps of each command and what survives a failure |
| `Search`, `SearchText` | processes on one index; chunks, folding, excerpts and fusion; inputs of the model; opening the sidecar and what status says |
| `Files` | the token file on unix and Windows; prepare, verify, load and probe of the model |
| `Names` | URLs, prefixes, worktree paths, the block in AGENTS.md |

Abstractions to keep in mind: SQLite transactions are atomic and serialised; there is
one daemon; title and body are one text in `TaskSync` and `Filing`; GitHub's clock and
the 24-hour window of the orphan search are not modelled (a retry is in time); archived
tasks take part in nothing; ids, names and payloads are model values except where a
property is about their form.

## Runs

Each passing run reads its constants from the `.cfg` of the same name.

| Run | Properties | Bounds |
|---|---|---|
| `outbox` | `TypeOK`, `SingleInflight`, `EffectsCapped`, `OrderedEffects`, `EventuallyResolved`, `RefinesMailbox` | 2 tasks, 2 rows of every class, a writer, 2 stamps, cap 2, a crash, a local error |
| `tasksync` | `TypeOK`, `BaselineWasRemote`, `CleanMeansAligned`, `OwedPush`, `StateIsTrue` | operations do not overlap; 3 commands, a remote edit, a rollback, 2 faults |
| `tasksync_live` | `EventuallyPushed` | 2 commands, a repair or relation save, 2 faults, GitHub may drop assignees |
| `tasksync_lost_edit` | violation of `DaemonKeepsContent` | 2 commands against the drainer |
| `filing` | `TypeOK`, `HomeIsStable`, `OneTaskPerIssue`, `FiledIsTracked` | 2 tasks, 2 repos, 2 texts, 3 commands besides create and stage, 2 incidents |
| `filing_rollback` | violation of `RollbackKeepsIdentity` | as `filing` |
| `store` | `CardsAreSound`, `CardIsAdded`, `StoresAreSound`, `FilesAreSound` | a task, 2 boards, 4 commands and a detach, a fault, a crash; 2 overlapping commands on a row and a targeted write; 2 workspaces, 2 projects, 4 commands of 2 processes; 2 tokens, 2 writers; 5 commands on the model cache, 2 faults; 4 log segments, a truncation |
| `fields` | `FieldsAgree`, `TypeArrives` | 2 cards, 3 priorities on 2 options, edits on both sides around 2 polls, 2 faults, 2 clock seconds |
| `algorithms` | `ViewsAreRight`, `MappingsAreRight`, `SearchIsRight`, `NamesAreRight` | every input up to the sizes in `MCAlgorithms` |
| `search` | `IndexIsSound`, `AnswersAreSound`, `CommandsEnd` | a task, 2 texts, 2 models in 2 processes, an edit, 2 commands, 2 faults |
| `mirror` | `RelationsAreSound`, `MirrorSteps`, `CommentsAreSound`, `ListsAreWhole`, `CascadeIsSound`, `IdsAreSound` | 2 issues, a draft and a stranger; 2 texts, 2 issues, 2 processes; a cap of 2 pages of 2; trees of 4, depth 2, 2 imports; 3 tasks with fewer short hashes |
| `services` | `WorktreesAreSound`, `RegistryIsSound`, `DaemonIsSound`, `ControlIsSound`, `ServicesProgress` | 2 workspaces, grace 2; 2 origins with one derived prefix, 3 commands; 2 faults of the daemon; 4 control commands, 2 faults |

What the conjunctions consist of:

- `StateIsTrue`: `DirtyMeansDiffers`, `ConflictNeedsRemote`, `SyncedIsMirrored`,
  `DriftSurfaced`.
- `CardsAreSound`: `TypeOK`, `BoardFollows` (a card at rest is in the column of its task),
  `OneDraft`. `FieldsAgree`: `TypeOK`, `NothingMissed` (the watermark passes nothing
  unreconciled), `TypeIsDelivered`.
- `StoresAreSound`: `AggregateIsSound` (`EditsSurvivePolls`, `ColumnsSurviveSaves`,
  `VerdictIsTrue`), `StoreIsReadable`, `SavesAreFaithful`. `VerdictIsTrue` excepts a dirty
  task whose baseline was saved unsent by a pull's relations or by the doctor. `FilesAreSound`: `AuthTakes`,
  `NeverExposed`, `LoginFitsToken`, `CacheIsWhole`, `HookIsBack`, `FollowPrintsAll`.
- `RelationsAreSound`: `TypeOK`, `Reciprocal`, `QuietIsMirrored`. `MirrorSteps`:
  `CommandsKeepAcyclic`, `PullKeepsLocalOnly`, `WrittenIsKept`. `CommentsAreSound`:
  `CommentsTypeOK`, `RepostsAreExplained`, `PullMirrors`. `ListsAreWhole`: `WholeOrRefused`,
  `RefusedIsTooLong`, `AppendsAreHarmless`, `CursorKeepsItsPlace`. `CascadeIsSound`:
  `CascadeHeals`, `NothingElse`. `IdsAreSound`: `ShownIsOwn`, `HashIsKept`.
- `IndexIsSound`: `IndexIsOneSnapshot`, `VectorsFitTheirText`, `CoverageIsWhole`.
  `AnswersAreSound`: `ServedIsReconciled`, `RankedInOwnSpace`.
- `WorktreesAreSound`: `GraceRespected`, `QuietTickTells`. `RegistryIsSound`: `PrefixPins`,
  `CwdAndPrefixAgree`, `PrefixIsStable`, `DoctorHeals`. `DaemonIsSound`:
  `HandleAwaitedOnce`, `InflightHasItsDrain`, `PacedIsNotWedged`. `ControlIsSound`:
  `UnitsTypeOK`, `StopMeansDown`, `InstallRepairs`. `ServicesProgress`: `PrunedInTheEnd`,
  `AttachEnds`, `StopStops`, `PanicRestarts`.
- `ViewsAreRight`: `ReadyIsFrontier`, `PagesCoverView`, `ReadyIsShown`, `RankIsBest`,
  `ScopesAgree`, `ClaimIsIdempotent`, `VerbsAreSound`, `BatchTellsAll`. `MappingsAreRight`:
  `EchoKeepsPriority`, `ColumnsMakeSense`, `DefaultIsCarried`, `AddressesAgree`, `RailsAgree`,
  `TrackedIsAddressed`, `EchoIsQuiet`, `PullTellsLosses`, `TypesReadBack`. `SearchIsRight`:
  `ChunksCover`, `InputsCover`, `SpansAreExact`, `RankingIsRight`, `SidecarIsGuarded`,
  `StatusTellsSearch`. `NamesAreRight`: `UrlsAgree`, `PiecesAgree`, `PrefixFits`,
  `LookupFindsLink`, `AgentsKeepsText`, `ReadsAreOwn`, `WritesAreOwn`, `StatusesAreTrue`.

`VerbsAreSound` says that a failed command has written nothing, with these exceptions:
`promote` leaves the staged row, which it saves before the issue is created; `push` saves
content before comments and each comment after its post; `pull` saves the kept state, the
content, the comments and the edges one after the other; `import --cascade` saves each issue
before the next request; `attach` saves the origin before the instance; `doctor --repair` and
`worktree reconcile` go row by row; `link` saves the task before its comments. All but `link`
complete what is missing when they are repeated, without a second issue; a transfer that was
carried out and not saved needs `link --relink`. `WritesAreOwn` says of a link only that one
that was valid is there: GitHub answers 422 to every link it refuses, and the adapter takes
that for success.

Why the bounds are enough. *Outbox:* overtaking needs two rows of one task and one that
is inserted late, isolation of tasks a second task; a cap of 2 separates retry from dead
letter. *TaskSync:* with two texts an edit, its revert and a competing remote edit are
distinct; three commands allow edit, revert and edit again around a push. *Filing:* the
race for one orphan takes three commands (a promote that is killed, the promote of a task
with the same text, the retry), the ambiguous scan two incidents; rollback and link end
the incidents, because the properties except tasks they touched. *Stores:* a board is
exchanged for another only with two projects, a name is taken by two processes only with
two of each. Of texts, repos and the orders of two assignees, which are only compared, an
initial row has the first (`FirstOfItsKind`). *Board:* a card added for a board that was left needs two boards and a
detach inside the drainer's call. *Fields:* two changes in one second and a poll between
need two seconds and two polls. *Search:* a chunk id is reused after a delete and an
insert, which one edit and its reconcile make; two models cut a text differently.
*Comments, Cascade, Ids, Registry:* every race in the code is of two processes. *Paging:*
the cap, one item more and one page more are all reached. *Worktrees:* a grace of 2 tells
the first miss from the last. For the modules that have proofs these
remove the bounds, as the section Proofs says.

Deadlock checking is off only where everything can have been done: rows, commands and
incidents are bounded. Every property of a passing run has a mutant of a mapped
definition that breaks it: a dropped guard in the claim, an off-by-one at the attempt
cap, a requeue that is skipped, a save moved behind the remote call, a walk over half of
the stored edges, a watermark that takes the newest second.

### Fairness

`Outbox!FairSpec`: weak fairness of the daemon's step and of time. The two loops of
`Daemon::run_until` return only when cancelled, and after a crash the service manager
starts the daemon again (systemd `Restart=always`, launchd `KeepAlive`, the Task
Scheduler's repetition every five minutes). A remote call is assumed to return: the
adapter sets no deadline of its own, so this rests on the HTTP client.
`TaskSync!FairSpec`: a command that has started finishes, the drainer takes and resolves
the head, the poller finishes a pass; starting commands, polls and faults are not fair.
`DrainBegin` gets strong fairness only because, in the instance without overlap, the
model makes it wait for a gap between other operations. `Board` and `Fields`: the drainer
runs on a timer and a detach that has started finishes. `Search`: each step of a started
command. `MCServices`: the daemon's ticks, the steps of started commands, the service
manager's launch, and the daemon's own join; a hung call is not assumed to return there.

## Proofs

All of them hold for every value of the constants that satisfies the modules'
assumptions: any number of tasks, rows, writers, processes, commands and faults.

`OutboxProofs`. None of the properties is inductive by itself. The invariant is
`Inv == TypeOK /\ DrainerInv /\ SingleInflight /\ CapInv /\ HeadInv`: the drainer's
register names an inflight row; open rows are below the attempt cap and the number of
effects is at most attempts, plus the one the drainer has not yet recorded, plus one
per crash or local error; whatever precedes a row that is in flight or has taken
effect is resolved. From it: `OutboxTypeOK`, `OutboxSingleInflight`,
`OutboxEffectsCapped`, the action properties `OutboxOrderedEffects` and
`OutboxResolvedIsFinal`, and `OutboxRefinesMailbox` (initial states map to initial
states, every step to a mailbox step or a stutter; `HeadInv` is what makes an effect
an effect of the head).

`AggregateKeepsSound` is about the row that the entries are saved with. `AggInv` says that
what a load finds is the newest snapshot that counts as alignment, where there is one
(`HasNewest`), and of a copy nobody has overtaken, at whatever step of a promote or a pull,
that it has this baseline and a mirror state that agrees with it (`CopyFits`). The save of
the inbound relations makes unsent content the baseline and leaves the task dirty; the
claim therefore excepts a dirty task whose baseline was itself saved dirty (`Unsent`), until
the next alignment. A rollback brings back any snapshot's mirror state
beside today's baseline; that a dirty one then has a baseline to be reconciled with is a
claim about the whole history (`Compared`). Processes, commands, polls and values are
arbitrary, and copies may be as old as they like.

`TaskSyncProofs`. `TaskSyncTypeOK` needs that a drainer at work holds a row
(`HoldsRow`), so the queue never underflows. `TaskSyncBaseline` (arbitrary overlap)
needs the same claim for every copy a process holds and for every fetched page
(`Backed`), since a copy may be saved long after the row has changed; it assumes that
GitHub honours a PATCH and that no save aligns what is not aligned, the two exceptions
described below. The other theorems are of operations that do not overlap; with overlap
the models refute them. `TaskSyncCleanMeansAligned`: one process is at work (`Alone`) and
edits are decided on the stored baseline (`Fresh`). `TaskSyncOwedPush` and
`TaskSyncDriftSurfaced`: a process works on the row as it is stored and in a state that
its operation may start from (`Current`), so the two claims hold *during* an operation
too (`Owed`, `Surfaced`), and marked drift has no open row before an edit makes it a
conflict. `TaskSyncStateIsTrue`: while nobody edits the issue and no call fails, the issue
has the baseline's content, or, between a PATCH and the save after it, what was sent
(`Calm`); it carries over both assumptions of `TaskSyncBaseline`.
`TaskSyncOverwrittenEditIsKept` is about the interleaving in which `tasksync_lost_edit`
loses an edit, with arbitrary overlap: no other step of the daemon changes the content, and
what the drainer's save writes over is still a snapshot that a rollback can name, because
every stored content was recorded when it was saved (`Recorded`). It assumes that the
model keeps the snapshots, which it does where rollbacks are in the bounds.

`FilingProofs`. `Inv == Rows /\ Snapshots /\ Scalars /\ Places /\ Commands /\ Keys /\
Homes /\ Recorded`. A snapshot fits the row it may be restored into; an issue is at
exactly one place that it has not left; a running command's copy is the stored row and the
issue it holds is where it says; a mirrored row's recorded home leads to its issue; an
issue that `promote` created is mirrored or its row is still staged. From it the four
properties of the run `filing`. `FilingOneTaskPerIssue` follows from the unique key of
`remote_mappings` only together with the homes: two keys may redirect to one issue. The
module's assumption (that the absent value is no redirect) is about the encoding.

`StoresKeepReadable`, in the same module, is about the rows of projects and workspaces.
`StoreInv` says that a linked project's rows are those of one valid project (`Valid`,
`InRows`) and an unlinked one has none (`ProjectsFit`), that workspaces differ in name and
name projects that exist (`WorkspacesFit`), and that a command holds a valid project, or a
workspace that differs from what it read in one field at most, along the life cycle
(`CommandFits`, `Changes`). The rows of a valid project load as that project (`RowsAreLoaded`): its options
come back in their order because an option's ordinal counts the rows before it
(`OptionsComeBack`), its mappings because at most one field has each kind. Assumed: boards
and option lists are lists (`StoresConstants`).

`BoardProofs`. `BoardFollows` is not inductive: it speaks of a card only when nothing is
queued for its task. `Inv` says where the column comes from until then (`Bound`): the last
queued move (`Moves`), the last move made when none is queued (`Rests`), or the follow-up
that the head of the queue will make (`WillFollow`), with dead-lettered and stray tasks and
the time of a detach excepted. That needs what the drainer has done of the mutation it is on
(`Working`), and that the items named by rows, mutations and the drainer are cards of the
task (`Tasked`). The drafts of a task are counted against faults, crashes and detaches plus
the one the row has or is about to have, less the one a running detach is going to take
(`Drafts`, with `Drafted` and `Owed`). The column table, the sets of tasks and boards and
every bound are arbitrary.

`FieldsProofs`. `AInv` (rows and queues; at most one row for the type, none when its flag
is down, and a type that was sent is on the card; the watermark behind the clock; a page
no newer than the cards) gives `FieldsTypesFollow`. `FieldsWillAgree` adds `Board`:
what the watermark passed agrees with the row or has a push still to come (`Passed`), and
during a poll a card that is older than the newest of the page is the card that was read
and agrees once reconciled (`Reading`): that is what makes the step back of one second
enough. It assumes that a poll compares every task (`Wide`): past `POLL_LIMIT` the claim
is false, as stated below.

`SearchProofs`. `Inv` says what a commit leaves: the chunks are the rows of a snapshot,
ids and rows name a chunk each and there is a largest id (`Whole`); a vector has its
chunk, is the only one of its input and has its siblings (`Embedded`), and is of the
owner's model or a rebuild of another's came by (`Owned`). A process that believes in its
profile owns the sidecar, and one that trusts the lexical lane either sees the snapshot
it reconciled or knows that it was disturbed (`Sound`). `IndexIsSound` and
`AnswersAreSound` follow. Assumed are a finite set of tasks and of texts: a snapshot is
inserted in some order. The module also proves what `FilesAreSound` says, part by part. For
the log, `TailInv` gives each segment a base, the number of lines before it: a segment is a
run of consecutive lines, and the follower's last printed line is never past its offset, and
exactly at it while the log is not blurred (`Kept`, `Exact`). So a switch, which prints the
rest of the old segment and then the new one, goes on where it stopped, and a truncation can
only lose lines. For the model cache, `CacheInv` says that what a fetch has staged so far
matches its digests, that a passed check means a whole cache for good while nobody tampers
with it, and that one probe at a time holds the panic hook and saved the process' own one
(`HookInv`): the lock around the swap is what that needs. For the token file, `TokenInv` says
what a command finds at each of its places while nobody else touches the file
(`Undisturbed`), that on Windows the file is restricted before a token is written to it and
stays so between two auths that race (`Guarded`), and that its two lines belong together as
long as no two auths overlapped (`Paired`). Assumed of the encoding: a token or a login is
neither blank nor the word for a missing one, and no process is called `"free"`.

`ServicesProofs`. For the daemon's process, `RunInv` says what each place of `run_until`
and of a task implies for cancellation, joins and the row in flight, and when the next
heartbeat is due. For the worktrees, `WInv` follows a link through a tick: listed, found
missing or seen, to be unlinked, each once and after the rows of its workspace (`Found`);
the counter stays behind the misses until these are enough (`Counted`); and in an
undisturbed tick every link whose directory is gone is still to come or marked and counted
(`Quiet`). How far a counter can pass the grace is the difficult part: each time its
unlink must have failed, by a fault or because a command's save came between the list and
the unlink, and `Paid` charges the command when it starts, for the save it still has to
make or the link it has broken. For the registry, `RegInv` says that the prefixes of known
origins differ, that an instance refers to the origin of its own url, and of a command
(`Copied`) that a copy nobody has overtaken (`fresh`) has its origin's prefix unless the
user asked for another, and that an attach at its instance has its origin saved. No set
need be finite, and how many commands run does not matter. For the control commands,
`UnitsInv` lists, for each platform, which calls a command can have left, and what the
calls before them have made true (`LinuxPlace`, `MacosPlace`, `WindowsPlace`), although
logins, dying daemons and the managers' own starts come between; a property that speaks
of the end of a command holds because the last entry of its list claims it.

`MirrorProofs`. For the comments, `CommentsInv` says of a text whose record has no gap
(`hurt`) that it was posted at most once, that at most one push has it to post, and that
once it was posted only the push about to record this still has its row (`Whole`); the
comments carry the numbers of the posts of their text, and so does the answer a push is
about to record (`Numbered`, `AnswerNumbered`); and what an undisturbed pull or relink
knows at each of its places (`Mirrored`). For the relations `RelationsInv` follows a link, not an edge: of a link that counts,
between issue-backed tasks, the last queued mutation says what the graph says, and where
none is queued GitHub does (`Agree`). A command at its save holds the entries for exactly
the links that its rows change or that its promote brings between filed tasks (`Ready`);
one edge and its reciprocal state one link (`LinkOwners`), which is why `remove` and the
backfill may plan from one end. A pull moves reciprocals together and only between filed
tasks (`Moves`). `RelationsKeepSound` assumes what the run does: commands of two processes
do not overlap (`Overlap = FALSE`; with overlap both parts fail) and the tasks are finite. For the ids, `IdsInv` says what
each place of an opener still owes (`Opens`): every row without a prefix or a hash is in
the rest of its list, so that none is left when the list is through, whoever filled it;
two processes never create the same task; and a printed id names a UUID, or a hash that
its task still has (`Told`). That a hash stays needs both the `AND hash = ''` of the
backfill's update and that a task being created has none. Assumed are finite sets of
tasks and origins, which a database lists. For paged lists, `PagingInv` says that of a list
which only grew, what was read is how it begins (`Begins`), exactly as many items as the
pages before the next one hold; and that everything before the board's cursor was read,
whatever was removed (`BehindCursor`). Appends are thus as harmless as a list that holds
still, up to the probe. For imports, `CascadeInv` says of every importer that an issue it
visited is tracked and wired to its parent, and that each of its children at home within the
limit is visited or still on the stack, the issue at hand excepted. When the stack is empty,
the smallest issue of the tree that was not visited would have a visited parent and be on the
stack. A path to the root is the least set that has the issue and, with an issue, its parent;
that parents carry smaller numbers than their children is how the trees are numbered.

`CommandsCloseNoLoop` rests on what a command is about to save (`LoopInv`): on each axis the
graph grows by at most one edge, whose far end no walk from its near end reaches
(`NoLoopAdded`). A walk visits the least closed set of tasks that has its start, so nodes
from which the new edge's end is out of reach keep what they reach. A graph that already has
a loop, from a pull or from one-sided rows, is outside the claim. `MirrorStepsHold` carries
the action properties over to the composition: a behaviour of `Mirror` is one of each part
(`PartsBehave`).

Only model-checked. Liveness and everything under fairness, `ENABLED`, and what recursive
definitions compute are outside the prover's reach: the `...AreRight` properties of
`MCAlgorithms` are of the last kind. What `StoresAreSound` says of
each of its parts is proved (`AggregateKeepsSound`, `StoresKeepReadable`); the property itself
also says which part a behaviour of `MCStore` belongs to, and is a run's. Overlapping operations on one task have no proof beyond
`TaskSyncTypeOK` and `TaskSyncBaseline`, because the stronger claims do not hold there.

## Findings

Each is a run with a counterexample; `PROJECT.json` quotes the sentence it refutes.

1. `tasksync_lost_edit`: the drainer saves the whole row from the copy it read before its
   PATCH and undoes an edit made meanwhile.
2. `filing_rollback`: a rollback across `rl task transfer` restores the old number and
   keeps the new filing repo.

## Statements the models refute

Seen with the same models, by removing an exception from a property or checking the
sentence itself; they are not runs of their own.

*Outbox and tasks.*
- A local error after the claim leaves the row inflight; "will retry" (daemon.rs:284) is
  true only after a restart (`DrainErrorIsRetried`). The same holds for "a drop
  mid-drain" (daemon.rs:686-694).
- A rollback to content that was never pushed makes the task dirty without a row
  (`DirtyIsPickedUp`, task.rs:547); so does an edit decided on a copy read before the
  drainer confirmed the task (`OwedPush` with `Overlap`).
- `rl repo doctor --repair` and a pull that changes relations save with a source that
  counts as alignment, so an unpushed edit becomes the baseline (`MaxRebaselines = 1`;
  compare task.rs:321-330).
- The poller compares a page fetched before a push with the baseline after it and marks
  drift nobody caused; a push whose answer is lost, followed by a revert, leaves a Synced
  task whose issue has the pushed content until the next poll.
- A default type does arm the pending flag when promote stamps it over no type (doc in
  task.rs:674-682, the CASE in `write_task_in_tx`); unmapped on a custom Type field, it is
  derived and warned about in every drain. A dead-lettered type row with the same payload
  keeps later ones out.
- `rl sync push --force` of a task without baseline PATCHes the issue and then fails in
  `confirm_synced_fields`. Bare `rl task link` of a never-synced task is a Conflict without
  a baseline.
- The drainer compares sent and answered assignees as lists, dirty detection as sets.

*Filing.* `rl task link` and `--relink` leave the filing repo alone, from which every
address is resolved first (`HomeIsStable` excepts linked tasks). `rl task stage` accepts a
dirty mirrored task and `promote` then files a second issue. The startup reconcile
addresses the logical repo where outbox.rs:22-26 says filing repo. On a stale copy the
copies of the chain disagree about *failing*: relation coordinates with the workspace
cache give up where `filing_canonical_for` uses the recorded repo; `plan_mirror_mutations`
errors on a detached instance where the others fall through. `list-remote` fails wholly
when one repo does not answer.

*Board and poller.* A detach that meets a draft in flight leaves a stray item; draft text
edits never enqueue `UpdateDraftIssue` (enqueue.rs:517); a converted draft stays Staged, so
a promote files a second issue. "They are not lost" (poller.rs:97) is not true of tasks past
the 200 stalest. A priority set between a poll's index and its page and set back on the
board looks like no change.

*Relations, comments, lists, adapter.* GitHub answers 422 to any invalid link and the adapter
takes it for "already linked" (`RefusedMeansPresent`, rest.rs:699). Two overlapping relates
can close a cycle or leave one half of an edge. A second post can also follow a pull in the gap or an overlapping push
(`OnlyCrashesRepost`, sync service.rs:450-456). Offset paging loses a stable item when an
earlier one is removed (`StableIsListed`). `list_issues` refuses exactly 5000 items although
the message says "more than". A failing chunk ends `fetch_item_statuses` (graphql.rs:646-650
says it "costs its chunk"). A relation write on a moved near end gives a plain "HTTP 301".
`fields(first: 50)` and `issueTypes(first: 100)` are cut silently.

*Search.* "Never regresses" (ports/src/search.rs:232-234, RFC 0007:523-526) fails when the
snapshot was read before another process' newer reconcile. Rebuild neither checks nor
changes the embedding profile although RFC 0007 (566, 689-693) asks for it; `verify_sources`
has no caller; coverage may become partial between fill and ranking. The chunker splits a
paragraph that would fit alone (RFC 0007:181-185); identifier mode is dropped (RFC
0007:251-303); status says SidecarUnavailable where search says SchemaMismatch. In
`plan_semantic_inputs` the byte loop does not end if the first scalar does not fit, and its
error path is dead code.

*Daemon.* `rl daemon status` says wedged just after a restart and during a tick longer than
the interval; a hung drainer leaves the heartbeat alone. On Windows the repetition may start
the daemon between the end of `stop` and its report. See Worktrees for the grace.

*Store, files, names.* A stale whole-row save leaves Archived without `unarchive`
(workspace.rs:106-108), passes the reassign guard of `set_project`, and resurrects a project
that was unlinked; two `rl task claim`s on stale copies overwrite each other. A loose token
file holds the new token before the chmod; two overlapping `rl gh auth` can leave the token
of one with the login of the other. A killed `prepare-model` leaves its temporary directory,
a damaged cache is never repaired, the loser of a race gets an error. `ssh://git@host:22/o/r`
and another host case give another canonical URL; a worktree whose removed path went through a
symlink cannot be unlinked. An attach that read the row before another command changed the
prefix and back, and met a conflict between, gives a known origin a suffix nobody asked for,
though the row it overwrites equals the one it read; `PrefixIsStable` therefore speaks of
copies that no save has overtaken (the proof found this, it takes five commands). Hash minting goes up to 16 letters ("capped at length 8"). Ready
tasks in a loop of parents are shown by no ready tree. After a `link --relink` that failed at
the comments a repeated one does nothing; the next pull replaces them.

### Worktrees

A directory gets `missing_grace_ticks` consecutive misses, "not cumulative" (daemon.rs:443),
only while every tick runs to its end. A probe or store error, or a link removed by a command
during the tick, ends the tick before the counters are collected, and a directory that was
found keeps its old misses. `GraceRespected` is stated from ticks that ran to their end;
without that exception the same model shows a prune after one miss.

## Not modelled

`repoint_filing_repo`: nothing but its tests calls it, the doctor saves by itself.
`Registry` names an instance by workspace and url, so one that is detached and attached
again keeps its name there, although its id is new.

Argument parsing, rendering, DTOs and trait declarations, row decoding, request building,
the tracked branch, SQL scripts of the migrations, tokenising and BM25 inside SQLite,
numerical inference, the walk of the file system and git's own discovery: text, numbers or
I/O without interleaving. They are most of the lines that the map leaves out, together with
the inline tests of the source files, which the line count includes.
