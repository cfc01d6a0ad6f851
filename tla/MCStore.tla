------------------------------ MODULE MCStore ------------------------------
(***************************************************************************)
(* The cards of the board, and what rl keeps on disk: a task's row and      *)
(* snapshots under overlapping writers, the rows of workspaces and          *)
(* projects, the token file, the cache of the embedding model, and the      *)
(* daemon's log.  A behaviour belongs to one of these parts, chosen at the  *)
(* start; the variables of the others keep their first values, where every  *)
(* property holds.                                                          *)
(***************************************************************************)
EXTENDS Board, Files, TLC

CONSTANTS t1, a, b,
          Texts, People, IssueTypes, Repos, Issues, Options, AggProcs, AggCommands, AggWrites,
          Boards, ProjectIds, WorkspaceIds, Names, OrgTypes, StoreProcs, StoreCommands

VARIABLES part,
          taskRow, history, copy, stamped, settled, shown, stale, aggSpent,
          tables, cmd, commands

A == INSTANCE Aggregate WITH row <- taskRow
S == INSTANCE Stores

\* The second board has no column for closed tasks.
SomeColumns == [p \in {a, b} |-> [open \in BOOLEAN |->
                 IF open THEN "todo" ELSE IF p = a THEN "done" ELSE "null"]]

\* The same assignees in two orders.
SomePeople == {<<"ann", "bo">>, <<"bo", "ann">>}

\* Two states of one board: the fields change their order, names and options.
Option(x) == [id |-> x, name |-> x]
SomeBoards ==
  {<<[id |-> "f1", name |-> "Stage", options |-> <<Option("a"), Option("b")>>],
     [id |-> "f2", name |-> "Priority", options |-> <<Option("a")>>]>>,
   <<[id |-> "f2", name |-> "Kind", options |-> <<Option("b")>>],
     [id |-> "f1", name |-> "Priority", options |-> <<Option("b"), Option("a")>>]>>}

SomeLogins == [t \in {"tokA", "tokB"} |-> IF t = "tokA" THEN "ann" ELSE "bo"]

ASSUME StoreConstants == A!AggregateConstants /\ S!StoresConstants
-----------------------------------------------------------------------------
rowVars == <<taskRow, history, copy, stamped, settled, shown, stale, aggSpent>>
tableVars == <<tables, cmd, commands>>
diskVars == <<part, vars, rowVars, tableVars, tokenVars, cacheVars, tailVars>>

\* The texts are interchangeable, as are the repos and the two orders: a row
\* that starts with one of them stands for those that start with another.
FirstOfItsKind ==
  /\ taskRow.text = CHOOSE t \in Texts : TRUE
  /\ taskRow.repo = CHOOSE r \in Repos : TRUE
  /\ taskRow.who \in {<<>>, <<"ann", "bo">>}

\* The parts that are not chosen rest in one of their initial states.
DiskInit ==
  /\ part \in {"board", "rows", "tables", "token", "model", "log"}
  /\ Init /\ (part # "board" => project = a /\ \A t \in Tasks : row[t].issue = 0)
  /\ A!AggregateInit /\ FirstOfItsKind
  /\ part # "rows" => taskRow.sync = "local_only" /\ history[1].recorded
  /\ S!StoresInit
  /\ TokenFileInit
  /\ part # "token" => /\ platform = "unix" /\ env.github = "none" /\ ~file.exists
                       /\ file.mode = "0600" /\ file.dacl = Inherited
  /\ ModelCacheInit
  /\ TailInit /\ (part # "log" => files = <<>>)

DiskNext ==
  \/ part = "board" /\ Next /\ UNCHANGED <<part, rowVars, tableVars, tokenVars, cacheVars, tailVars>>
  \/ part = "rows" /\ A!AggregateNext /\ UNCHANGED <<part, vars, tableVars, tokenVars, cacheVars, tailVars>>
  \/ part = "tables" /\ S!StoresNext /\ UNCHANGED <<part, vars, rowVars, tokenVars, cacheVars, tailVars>>
  \/ part = "token" /\ TokenFileNext /\ UNCHANGED <<part, vars, rowVars, tableVars, cacheVars, tailVars>>
  \/ part = "model" /\ ModelCacheNext /\ UNCHANGED <<part, vars, rowVars, tableVars, tokenVars, tailVars>>
  \/ part = "log" /\ TailNext /\ UNCHANGED <<part, vars, rowVars, tableVars, tokenVars, cacheVars>>

DiskSpec ==
  /\ DiskInit /\ [][DiskNext]_diskVars
  /\ WF_diskVars(part = "board" /\ Drain /\ UNCHANGED <<part, rowVars, tableVars, tokenVars, cacheVars, tailVars>>)
  /\ WF_diskVars(part = "board" /\ Detach /\ UNCHANGED <<part, rowVars, tableVars, tokenVars, cacheVars, tailVars>>)
-----------------------------------------------------------------------------
(* The database under overlapping writers: a poll never undoes an edit and  *)
(* a stale save never undoes what only targeted writes may set; the sync    *)
(* state is the verdict of the diff; every project and workspace row can be *)
(* read back, and a save changes the rows of its own subject only           *)
(* (write_task_in_tx, SqliteProjectRepository::save, WorkspaceService).     *)
StoresAreSound ==
  /\ [](part = "rows" => A!AggregateIsSound)
  /\ [](part = "tables" => S!StoreIsReadable) /\ S!SavesAreFaithful
=============================================================================
