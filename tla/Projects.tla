------------------------------ MODULE Projects ------------------------------
(***************************************************************************)
(* A linked GitHub project: which single-select field plays which part,    *)
(* and the mappings between local values and its options. A field is       *)
(* [name, options], an option [id, name], options in board order. A local  *)
(* priority is 0..3, an absent value "null"; what may fail or plan nothing *)
(* is a set of at most one element.                                        *)
(***************************************************************************)
EXTENDS Integers, Sequences, FiniteSets, SequencesExt

Priorities == 0..3
Backlog == {"backlog", "todo", "open", "new"}
InFlow == {"inprogress", "doing", "wip", "ready"}
Finished == {"done", "complete", "closed", "shipped"}

\* The field named Status, or else the first one.
StatusIndex(fields) ==
  LET named == {i \in DOMAIN fields : fields[i].name = "Status"}
  IN IF named = {} THEN 1 ELSE CHOOSE i \in named : \A j \in named : i <= j

AssignFieldKinds(fields) ==
  [i \in DOMAIN fields |->
     IF i = StatusIndex(fields) THEN "Status"
     ELSE IF fields[i].name = "Priority" THEN "Priority"
     ELSE IF fields[i].name \in {"Type", "Types"} THEN "Type"
     ELSE "Other"]

OfKind(fields, kind) == {i \in DOMAIN fields : AssignFieldKinds(fields)[i] = kind}
OptionIds(options) == {options[i].id : i \in DOMAIN options}

\* The first option of the vocabulary, in board order.
FirstMatching(options, vocab) ==
  LET hits == {i \in DOMAIN options : options[i].name \in vocab}
  IN IF hits = {} THEN 0 ELSE CHOOSE i \in hits : \A j \in hits : i <= j

DeriveStatusMappings(options) ==
  IF options = <<>> THEN [b \in {} |-> "null"]
  ELSE LET backlog == FirstMatching(options, Backlog)
           flow == FirstMatching(options, InFlow)
           closed == FirstMatching(options, Finished)
           open == IF backlog # 0 THEN backlog ELSE IF flow # 0 THEN flow ELSE 1
       IN [b \in BOOLEAN |-> options[IF b THEN open ELSE IF closed = 0 THEN Len(options)
                                                         ELSE closed].id]

\* Pk goes to the k-th option, clamped to the last.
DerivePriorityMappings(options) ==
  IF options = <<>> THEN [p \in {} |-> "null"]
  ELSE [p \in Priorities |-> options[IF p + 1 < Len(options) THEN p + 1 ELSE Len(options)].id]

ValidMappings(mappings, options) == \A k \in DOMAIN mappings : mappings[k] \in OptionIds(options)
OptionsOf(fields, kind) ==
  IF OfKind(fields, kind) = {} THEN <<>>
  ELSE fields[CHOOSE i \in OfKind(fields, kind) : \A j \in OfKind(fields, kind) : i <= j].options

\* from_fields: one Status field unless there are no fields, at most one
\* Priority field, and every mapping names an option of its field.
FromFields(fields, status, priority) ==
  IF /\ Cardinality(OfKind(fields, "Status")) = (IF fields = <<>> THEN 0 ELSE 1)
     /\ Cardinality(OfKind(fields, "Priority")) <= 1
     /\ ValidMappings(status, OptionsOf(fields, "Status"))
     /\ ValidMappings(priority, OptionsOf(fields, "Priority"))
  THEN {[fields |-> fields, status |-> status, priority |-> priority]}
  ELSE {}

\* link_from_snapshot: a board without a single-select field cannot be linked.
LinkFromSnapshot(fields) ==
  IF fields = <<>> THEN {}
  ELSE FromFields(fields, DeriveStatusMappings(OptionsOf(fields, "Status")),
                  DerivePriorityMappings(OptionsOf(fields, "Priority")))

\* map_status and map_priority replace one bucket.
MapStatus(project, open, option) ==
  IF option \notin OptionIds(OptionsOf(project.fields, "Status")) THEN {}
  ELSE {[project EXCEPT !.status = [b \in DOMAIN @ \cup {open} |-> IF b = open THEN option ELSE @[b]]]}
MapPriority(project, p, option) ==
  IF option \notin OptionIds(OptionsOf(project.fields, "Priority")) THEN {}
  ELSE {[project EXCEPT !.priority = [q \in DOMAIN @ \cup {p} |-> IF q = p THEN option ELSE @[q]]]}

\* replace_status_options: mappings to options that are gone are dropped.
ReplaceStatusOptions(project, options) ==
  [project EXCEPT
     !.fields = [i \in DOMAIN @ |-> IF i \in OfKind(@, "Status") THEN [@[i] EXCEPT !.options = options]
                                    ELSE @[i]],
     !.status = [b \in {c \in DOMAIN @ : @[c] \in OptionIds(options)} |-> @[b]]]

ResolvedOptionIdFor(project, open) ==
  IF open \in DOMAIN project.status THEN project.status[open] ELSE "null"
ResolvedPriorityOptionIdFor(project, p) ==
  IF p \in DOMAIN project.priority THEN project.priority[p] ELSE "null"

\* The inverse takes the first mapping of the option.
PriorityForOptionId(project, option) ==
  LET hits == {p \in DOMAIN project.priority : project.priority[p] = option}
  IN {p \in hits : \A q \in hits : p <= q}

\* What the poller makes of the board's option for a task at local priority p:
\* agreement is decided on the option, and only a disagreement is inverted.
PolledPriorityInverted(project, p, option) ==
  LET back == PriorityForOptionId(project, option)
  IN IF back = {} THEN p ELSE CHOOSE q \in back : TRUE
PolledPriority(project, p, option) ==
  LET back == PriorityForOptionId(project, option)
  IN IF ResolvedPriorityOptionIdFor(project, p) = option \/ back = {} THEN p
     ELSE CHOOSE q \in back : TRUE

\* A workspace without a project.
NoProject == [fields |-> <<>>, status |-> <<>>, priority |-> <<>>]

\* Exactly one Type field: two or more are ambiguous and count as none.
TypeField(project) ==
  LET hits == OfKind(project.fields, "Type")
  IN IF Cardinality(hits) = 1 THEN CHOOSE i \in hits : TRUE ELSE 0
ResolvedTypeOptionIdFor(project, type) ==
  LET options == IF TypeField(project) = 0 THEN <<>> ELSE project.fields[TypeField(project)].options
      hit == FirstMatching(options, {type})
  IN IF hit = 0 THEN "null" ELSE options[hit].id

\* set_project_type_mutation and resolve_type_projection: a board with one Type
\* field takes the custom rail and never falls back to the native one. types is
\* the registry of the filing owner (empty: unavailable), owner whether it is known.
SetProjectTypeMutation(project, task) ==
  IF \/ task.item = "null" \/ TypeField(project) = 0
     \/ /\ task.type # "null"
        /\ ResolvedTypeOptionIdFor(project, task.type) = "null"
  THEN {}
  ELSE {[rail |-> "custom", type |-> task.type,
         value |-> IF task.type = "null" THEN "null" ELSE ResolvedTypeOptionIdFor(project, task.type)]}
ResolveIssueTypeProjection(types, owner, task) ==
  IF task.node /\ (task.type = "null" \/ (owner /\ task.type \in types))
  THEN {[rail |-> "native", type |-> task.type, value |-> task.type]} ELSE {}
ResolveTypeProjection(project, types, owner, task) ==
  IF TypeField(project) # 0 THEN SetProjectTypeMutation(project, task)
  ELSE ResolveIssueTypeProjection(types, owner, task)

\* derive_default_issue_type: a sub-issue and a standalone issue have their own.
DeriveDefaultIssueType(isSub, standalone, sub) == IF isSub THEN sub ELSE standalone

\* The type part of promote: a default is stamped on an untyped task and taken
\* back when nothing can ever carry it.
PromoteType(project, types, owner, task, default) ==
  LET stamped == IF task.type = "null" THEN [task EXCEPT !.type = default] ELSE task
      planned == IF stamped.type = "null" THEN {}
                 ELSE ResolveTypeProjection(project, types, owner, stamped)
      revert == /\ task.type = "null" /\ planned = {}
                /\ TypeField(project) = 0
  IN [type |-> IF revert THEN "null" ELSE stamped.type, mutation |-> planned]
=============================================================================
