------------------------------- MODULE Stores -------------------------------
(***************************************************************************)
(* The tables of workspaces, linked projects and org issue types, and the  *)
(* commands on them. A command reads a row or a whole project, changes its *)
(* copy and writes the copy back, so other processes' commands come in     *)
(* between.                                                                *)
(*   tables: workspaces (id -> row), projects (ids), and rows that start   *)
(*           with the project: fields <<p, field, kind>>,                  *)
(*           options <<p, field, ordinal, option>>, status                 *)
(*           <<p, field, open, option id>>, priority; types of the org     *)
(*   cmd:    each process' command: pc, the base it read, its copy         *)
(* A project in memory has kinds and options by field, and mappings.       *)
(***************************************************************************)
EXTENDS Projects

CONSTANTS Boards,         \* what fetch_project may answer: sequences of fields
          ProjectIds, WorkspaceIds, Names, OrgTypes,
          StoreProcs, StoreCommands

VARIABLES tables, cmd, commands
storeVars == <<tables, cmd, commands>>

StoresConstants ==
  /\ \A b \in Boards :
       /\ b \in Seq(Range(b))
       /\ \A i \in DOMAIN b : /\ {"id", "name", "options"} \subseteq DOMAIN b[i]
                             /\ b[i].options \in Seq(Range(b[i].options))
  /\ StoreCommands \in Nat

-----------------------------------------------------------------------------
(* Projects in memory and as rows.                                          *)

FieldOf(project, kind) == {f \in DOMAIN project.kinds : project.kinds[f] = kind}
OwnOptions(project, kind) == UNION {OptionIds(project.options[f]) : f \in FieldOf(project, kind)}

Revalidated(project) ==
  IF /\ Cardinality(FieldOf(project, "Status")) = (IF DOMAIN project.kinds = {} THEN 0 ELSE 1)
     /\ Cardinality(FieldOf(project, "Priority")) <= 1
     /\ \A b \in DOMAIN project.status : project.status[b] \in OwnOptions(project, "Status")
     /\ \A p \in DOMAIN project.priority : project.priority[p] \in OwnOptions(project, "Priority")
  THEN {project} ELSE {}

\* What link_from_snapshot makes of a board.
Linked(board) ==
  LET ids == {board[i].id : i \in DOMAIN board}
      at(f) == CHOOSE i \in DOMAIN board : board[i].id = f
  IN IF board = <<>> THEN {}
     ELSE Revalidated([kinds |-> [f \in ids |-> AssignFieldKinds(board)[at(f)]],
                       options |-> [f \in ids |-> board[at(f)].options],
                       status |-> DeriveStatusMappings(OptionsOf(board, "Status")),
                       priority |-> DerivePriorityMappings(OptionsOf(board, "Priority"))])

OtherProjects(rows, p) == {r \in rows : r[1] # p}

FieldRows(p, project) == {<<p, f, project.kinds[f]>> : f \in DOMAIN project.kinds}
OptionRows(p, project) ==
  UNION {{<<p, f, i, project.options[f][i]>> : i \in DOMAIN project.options[f]} : f \in DOMAIN project.kinds}
MappingRows(p, project, kind, mappings) ==
  {<<p, f, k, mappings[k]>> : f \in FieldOf(project, kind), k \in DOMAIN mappings}

\* All child rows are replaced, in one transaction.
SaveProject(t, p, project) ==
  [t EXCEPT !.projects = @ \cup {p},
            !.fields = OtherProjects(@, p) \cup FieldRows(p, project),
            !.options = OtherProjects(@, p) \cup OptionRows(p, project),
            !.status = OtherProjects(@, p) \cup MappingRows(p, project, "Status", project.status),
            !.priority = OtherProjects(@, p) \cup MappingRows(p, project, "Priority", project.priority)]

\* Options come in the order of their ordinals; kinds are stored, not derived.
InOrdinalOrder(rows) ==
  [i \in 1..Cardinality(rows) |->
     (CHOOSE r \in rows : Cardinality({s \in rows : s[3] < r[3]}) = i - 1)[4]]
LoadFields(t, p) ==
  LET own == {r \in t.fields : r[1] = p}
  IN [kinds |-> [f \in {r[2] : r \in own} |-> (CHOOSE r \in own : r[2] = f)[3]],
      options |-> [f \in {r[2] : r \in own} |-> InOrdinalOrder({r \in t.options : r[1] = p /\ r[2] = f})]]
LoadMappings(rows, p) ==
  LET own == {r \in rows : r[1] = p}
  IN [k \in {r[3] : r \in own} |-> (CHOOSE r \in own : r[3] = k)[4]]

\* row_to_project: a project whose rows do not fit together is an error.
RowToProject(t, p) ==
  LET fields == LoadFields(t, p)
  IN Revalidated([kinds |-> fields.kinds, options |-> fields.options,
                  status |-> LoadMappings(t.status, p), priority |-> LoadMappings(t.priority, p)])

\* list_all fails on the first project it cannot load.
ListAll(t) == IF \E p \in t.projects : RowToProject(t, p) = {} THEN {} ELSE t.projects

\* By node id, or by owner and number, which goes through list_all.
GetProject(t, p) == IF p \in t.projects THEN RowToProject(t, p) ELSE {}
ResolveProject(t, p, byNumber) == IF byNumber /\ p \notin ListAll(t) THEN {} ELSE GetProject(t, p)

\* The rows of the project cascade, and its workspaces lose it.
DeleteProject(t, p) ==
  [t EXCEPT !.projects = @ \ {p},
            !.fields = OtherProjects(@, p), !.options = OtherProjects(@, p),
            !.status = OtherProjects(@, p), !.priority = OtherProjects(@, p),
            !.workspaces = [w \in DOMAIN @ |-> IF @[w].project = p THEN [@[w] EXCEPT !.project = "null"]
                                               ELSE @[w]]]

-----------------------------------------------------------------------------
(* Workspaces.                                                              *)

NewWorkspace(name) ==
  [name |-> name, status |-> "created", project |-> "null", filing |-> "null",
   standalone |-> "null", sub |-> "null"]

\* Where each verb may start, and where it leads.
From == [activate |-> {"created", "paused"}, pause |-> {"active"},
         archive |-> {"created", "active", "paused"}, unarchive |-> {"archived"}]
Into == [activate |-> "active", pause |-> "paused", archive |-> "archived", unarchive |-> "active"]
Transition(row, verb) == IF row.status \in From[verb] THEN {[row EXCEPT !.status = Into[verb]]} ELSE {}

\* A default that no flag names is left alone.
SetDefaultIssueTypes(row, standalone, sub) ==
  [row EXCEPT !.standalone = IF standalone = "leave" THEN @ ELSE standalone,
              !.sub = IF sub = "leave" THEN @ ELSE sub]

\* The unique name and the reference to the project are the schema's.
SaveWorkspace(t, w, row) ==
  IF \/ \E v \in DOMAIN t.workspaces \ {w} : t.workspaces[v].name = row.name
     \/ row.project \notin t.projects \cup {"null"}
  THEN {}
  ELSE {[t EXCEPT !.workspaces = [v \in DOMAIN @ \cup {w} |-> IF v = w THEN row ELSE @[v]]]}

FindByName(t, name) == {w \in DOMAIN t.workspaces : t.workspaces[w].name = name}

\* A board is given only to a workspace without one; the same one again is fine.
\* The scrub of the tasks that a detach starts with is in Board.
SetProjectAnyway(row, p) == {[row EXCEPT !.project = p]}   \* mutant: one board is exchanged for another
SetProject(row, p) ==
  IF row.project # "null" /\ p # "null" /\ p # row.project THEN {} ELSE {[row EXCEPT !.project = p]}

-----------------------------------------------------------------------------
Done == [pc |-> "idle"]

StoresInit ==
  /\ tables = [workspaces |-> [w \in {} |-> Done], projects |-> {}, fields |-> {}, options |-> {},
               status |-> {}, priority |-> {}, types |-> {}]
  /\ cmd = [c \in StoreProcs |-> Done]
  /\ commands = 0

Ready(c) == cmd[c].pc = "idle" /\ commands < StoreCommands
Begin(c, state) ==
  /\ cmd' = [cmd EXCEPT ![c] = state]
  /\ commands' = commands + 1
  /\ UNCHANGED tables
Move(c, state) == cmd' = [cmd EXCEPT ![c] = state] /\ UNCHANGED commands
GiveUp(c) == Move(c, Done) /\ UNCHANGED tables

\* A verb on one row takes a copy of it, changed.
ChangeRow(c, w, copy) ==
  Begin(c, [pc |-> "save", ws |-> w, base |-> tables.workspaces[w], copy |-> copy])

\* rl workspace activate, pause, archive and unarchive.
StartTransition(c) ==
  \E w \in DOMAIN tables.workspaces, verb \in DOMAIN From :
    \E copy \in Transition(tables.workspaces[w], verb) : ChangeRow(c, w, copy)

\* rl workspace set-filing-repo: one of the repos of this workspace, or --none.
StartSetFilingRepo(c) ==
  \E w \in DOMAIN tables.workspaces, origin \in {"origin", "null"} :
    ChangeRow(c, w, [tables.workspaces[w] EXCEPT !.filing = origin])

\* rl workspace set-default-type: at least one flag, --none clears both.
StartSetDefaultType(c) ==
  \E w \in DOMAIN tables.workspaces, s, b \in {"leave", "null", "Bug"} :
    /\ {s, b} # {"leave"}
    /\ ChangeRow(c, w, SetDefaultIssueTypes(tables.workspaces[w], s, b))

StartCreate(c) ==
  \E w \in WorkspaceIds, name \in Names, p \in ProjectIds \cup {"null"} :
    /\ w \notin DOMAIN tables.workspaces /\ \A d \in StoreProcs : cmd[d].pc # "idle" => cmd[d].ws # w
    /\ FindByName(tables, name) = {}
    /\ Begin(c, [pc |-> "resolve", ws |-> w, base |-> NewWorkspace(name), copy |-> NewWorkspace(name), to |-> p])

StartEdit(c) ==
  \E w \in DOMAIN tables.workspaces, name \in Names :
    LET row == tables.workspaces[w] IN
    Begin(c, [pc |-> "name", ws |-> w, base |-> row, copy |-> [row EXCEPT !.name = name]])

\* Another workspace has the name.
CheckName(c) ==
  /\ cmd[c].pc = "name"
  /\ IF FindByName(tables, cmd[c].copy.name) \subseteq {cmd[c].ws}
     THEN Move(c, [cmd[c] EXCEPT !.pc = "save"]) /\ UNCHANGED tables
     ELSE GiveUp(c)

StartSetProject(c) ==
  \E w \in DOMAIN tables.workspaces, p \in ProjectIds \cup {"null"} :
    LET row == tables.workspaces[w] IN
    Begin(c, [pc |-> "resolve", ws |-> w, base |-> row, copy |-> row, to |-> p])

\* resolve_project, which a detach and a bare create skip, and the guard.
ResolveBoard(c) ==
  /\ cmd[c].pc = "resolve"
  /\ LET known == cmd[c].to = "null" \/ ResolveProject(tables, cmd[c].to, TRUE) # {}
         next == IF known THEN SetProject(cmd[c].copy, cmd[c].to) ELSE {}
     IN IF next = {} THEN GiveUp(c)
        ELSE \E row \in next : Move(c, [cmd[c] EXCEPT !.pc = "save", !.copy = row]) /\ UNCHANGED tables

SaveCopy(c) ==
  /\ cmd[c].pc = "save"
  /\ LET saved == SaveWorkspace(tables, cmd[c].ws, cmd[c].copy)
     IN IF saved = {} THEN GiveUp(c) ELSE \E t \in saved : tables' = t /\ Move(c, Done)

\* rl project link: the fetched schema, and what follows from it.
StartLink(c) ==
  \E p \in ProjectIds, board \in Boards : \E project \in Linked(board) :
    Begin(c, [pc |-> "project", ws |-> "none", id |-> p, copy |-> project, link |-> TRUE])

\* set_mappings and set_priority_mappings with one bucket replaced.
WithStatus(project, open, option) ==
  [project EXCEPT !.status = [k \in DOMAIN @ \cup {open} |-> IF k = open THEN option ELSE @[k]]]
WithPriority(project, priority, option) ==
  [project EXCEPT !.priority = [k \in DOMAIN @ \cup {priority} |-> IF k = priority THEN option ELSE @[k]]]

\* rl project map and map-priority: one bucket, to an option of its own field.
StartMap(c, p, kind, option, copy) ==
  /\ option \in OwnOptions(copy, kind)
  /\ \E project \in Revalidated(copy) :
       Begin(c, [pc |-> "project", ws |-> "none", id |-> p, copy |-> project, link |-> FALSE])
StartMapStatus(c) ==
  \E p \in ProjectIds, byNumber \in BOOLEAN :
    \E project \in ResolveProject(tables, p, byNumber), option \in {"a", "b"} :
      StartMap(c, p, "Status", option, WithStatus(project, TRUE, option))
StartMapPriority(c) ==
  \E p \in ProjectIds, byNumber \in BOOLEAN :
    \E project \in ResolveProject(tables, p, byNumber), option \in {"a", "b"} :
      StartMap(c, p, "Priority", option, WithPriority(project, 0, option))

SaveProjectCopy(c) ==
  /\ cmd[c].pc = "project"
  /\ tables' = SaveProject(tables, cmd[c].id, cmd[c].copy)
  /\ Move(c, IF cmd[c].link THEN [pc |-> "types", ws |-> "none"] ELSE Done)

\* rl org fetch-issue-types and rl repo attach.
StartFetchTypes(c) == Begin(c, [pc |-> "types", ws |-> "none"])

\* A failed fetch leaves the cached catalog; a fetched one replaces it, empty or not.
RefreshOrgIssueTypes(c) ==
  /\ cmd[c].pc = "types"
  /\ \/ GiveUp(c)
     \/ \E fetched \in SUBSET OrgTypes : tables' = [tables EXCEPT !.types = fetched] /\ Move(c, Done)

StartUnlink(c) ==
  \E p \in ProjectIds : ResolveProject(tables, p, TRUE) # {} /\ Begin(c, [pc |-> "delete", ws |-> "none", id |-> p])
Unlink(c) ==
  /\ cmd[c].pc = "delete"
  /\ tables' = DeleteProject(tables, cmd[c].id)
  /\ Move(c, Done)

StoresNext ==
  \E c \in StoreProcs :
    \/ /\ Ready(c)
       /\ \/ StartTransition(c) \/ StartSetFilingRepo(c) \/ StartSetDefaultType(c) \/ StartCreate(c)
          \/ StartEdit(c) \/ StartSetProject(c) \/ StartLink(c) \/ StartMapStatus(c)
          \/ StartMapPriority(c) \/ StartFetchTypes(c) \/ StartUnlink(c)
    \/ CheckName(c) \/ ResolveBoard(c) \/ SaveCopy(c) \/ SaveProjectCopy(c)
    \/ RefreshOrgIssueTypes(c) \/ Unlink(c)

StoresSpec == StoresInit /\ [][StoresNext]_storeVars
-----------------------------------------------------------------------------
\* Whatever runs at the same time, every linked project can be loaded, no
\* workspace has a project that is gone, and no two have one name: list_all,
\* which every command on owner/number goes through, never fails on rows that
\* commands wrote.
StoreIsReadable ==
  /\ ListAll(tables) = tables.projects
  /\ \A w \in DOMAIN tables.workspaces :
       /\ tables.workspaces[w].project \in tables.projects \cup {"null"}
       /\ FindByName(tables, tables.workspaces[w].name) = {w}
  /\ \A rows \in {tables.fields, tables.options, tables.status, tables.priority} :
       \A r \in rows : r[1] \in tables.projects

\* A save of a project; and one of a workspace that is as it was read.
ProjectIsSaved(c) ==
  cmd[c].pc = "project" /\ cmd'[c] # cmd[c] =>
    /\ RowToProject(tables', cmd[c].id) = {cmd[c].copy}
    /\ \A p \in tables.projects \ {cmd[c].id} : RowToProject(tables', p) = RowToProject(tables, p)
WorkspaceIsSaved(c) ==
  cmd[c].pc = "save" /\ cmd'[c] # cmd[c] /\ cmd[c].ws \in DOMAIN tables.workspaces
  /\ tables.workspaces[cmd[c].ws] = cmd[c].base =>
    LET old == cmd[c].base
        new == tables'.workspaces[cmd[c].ws]
    IN /\ old.status = "archived" => new.status \in {"archived", "active"}
       /\ new.status = "created" => old.status = "created"
       /\ new.status = "paused" => old.status \in {"active", "paused"}
       /\ "null" \in {old.project, new.project} \/ old.project = new.project
       /\ Cardinality({f \in DOMAIN old : old[f] # new[f]} \ {"sub"}) <= 1

\* What is loaded after a save is what was saved, over any rows of an earlier
\* link and beside any other project; and unless another command came in between,
\* a save moves a workspace along its life cycle, from one board to none or from
\* none to one but never to another, and changes one thing (the two default types
\* count as one).
SavesAreFaithful == [][\A c \in StoreProcs : ProjectIsSaved(c) /\ WorkspaceIsSaved(c)]_storeVars
=============================================================================
