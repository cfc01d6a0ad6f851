------------------------------- MODULE Views -------------------------------
(***************************************************************************)
(* What rl query and rl task list compute from the task table. db maps a   *)
(* task to its row: rel (edges <<kind, other>>), life, sync, ws, prio      *)
(* (0 is P0), who (assignees), pending (comments not yet posted), item     *)
(* (cached board column), filing (recorded filing repo), repo (logical     *)
(* repo). An edge may name a task the table does not have.                 *)
(***************************************************************************)
EXTENDS Integers, Sequences, FiniteSets, SequencesExt

CONSTANTS IdOrder,  \* IdOrder[t]: where the id of t sorts; titles sort alike
          NoTask    \* not a task

LowestPriority == 3

IsOpen(r) == r.life \in {"Open", "Reopened"}
Others(r, kind) == {e[2] : e \in {f \in r.rel : f[1] = kind}}
BlockedBy(r) == Others(r, "BlockedBy")
Least(S) == CHOOSE t \in S : \A u \in S : IdOrder[t] <= IdOrder[u]
-----------------------------------------------------------------------------
(* The table under a filter. A field of the filter that is {} is not set.  *)

Matches(r, f) ==
  /\ f.ws = {} \/ r.ws \in f.ws
  /\ f.open = {} \/ IsOpen(r) \in f.open
  /\ f.sync = {} \/ r.sync \in f.sync
  /\ f.prios = {} \/ r.prio \in f.prios
  /\ f.who = {} \/ f.who \cap r.who # {}

\* ORDER BY key, id: the id makes the order total, so that pages neither repeat
\* nor skip a row.
Sorted(db, S, desc) ==
  SetToSortSeq(S, LAMBDA t, u :
    IF db[t].prio # db[u].prio THEN (IF desc THEN db[t].prio > db[u].prio
                                             ELSE db[t].prio < db[u].prio)
    ELSE IdOrder[t] < IdOrder[u])

ListTasks(db, f, desc) == Sorted(db, {t \in DOMAIN db : Matches(db[t], f)}, desc)

Paginate(rows, page) ==
  LET rest == SubSeq(rows, 1 + (IF page.offset < Len(rows) THEN page.offset ELSE Len(rows)),
                     Len(rows))
  IN IF page.limit < Len(rest) THEN SubSeq(rest, 1, page.limit) ELSE rest
-----------------------------------------------------------------------------
(* Blocking.                                                               *)

OpenBlockers(db, t) == {b \in BlockedBy(db[t]) \cap DOMAIN db : IsOpen(db[b])}

\* The store lists, this view filters, and only then a page is cut.
BlockedTasks(db, f, desc, page) ==
  Paginate(SelectSeq(ListTasks(db, [f EXCEPT !.open = {TRUE}], desc),
                     LAMBDA t : OpenBlockers(db, t) # {}), page)

\* assigned_to: a stable sort that puts blocked rows last and then goes by
\* priority, unless the caller asked for an order (sorted).
AssignedTo(db, f, desc, sorted, who, page) ==
  LET rows == ListTasks(db, [f EXCEPT !.open = {TRUE}, !.who = {who}], desc)
      place(t) == CHOOSE i \in DOMAIN rows : rows[i] = t
      blocked(t) == OpenBlockers(db, t) # {}
      order(t, u) == IF blocked(t) # blocked(u) THEN ~blocked(t)
                     ELSE IF db[t].prio # db[u].prio THEN db[t].prio < db[u].prio
                     ELSE place(t) < place(u)
  IN Paginate(IF sorted THEN rows ELSE SortSeq(rows, order), page)

\* The depth-first walk over BlockedBy: an open blocker ends it, the chain
\* behind a closed one is followed, an unknown id is passed over.
IsTransitivelyBlockedDirectly(db, t) == OpenBlockers(db, t) # {}
IsTransitivelyBlocked(db, t) ==
  LET expand(S) == UNION {BlockedBy(db[b]) : b \in {c \in S \cap DOMAIN db : ~IsOpen(db[c])}}
      walk[i \in 0..Cardinality(DOMAIN db)] ==
        IF i = 0 THEN BlockedBy(db[t]) ELSE LET seen == walk[i-1] IN seen \cup expand(seen)
  IN \E b \in walk[Cardinality(DOMAIN db)] \cap DOMAIN db : IsOpen(db[b])

SelectReady(db, S) ==
  {t \in S : IsOpen(db[t]) /\ db[t].sync # "Conflict" /\ ~IsTransitivelyBlocked(db, t)}
-----------------------------------------------------------------------------
(* Parents and children, read from both stored directions.                 *)

\* children: archived ones are left out; done counts the completed.
ChildIds(db, p) ==
  (Others(db[p], "ParentOf") \cup {t \in DOMAIN db : p \in Others(db[t], "ChildOf")}) \ {p}
ChildrenRollup(db, p) ==
  LET kids == {c \in ChildIds(db, p) : db[c].life # "NotPlanned"}
  IN [total |-> Cardinality(kids), done |-> Cardinality({c \in kids : db[c].life = "Completed"})]

ReverseParentIndex(db, c) ==
  LET claims == {p \in DOMAIN db : p # c /\ c \in Others(db[p], "ParentOf")}
  IN IF claims = {} THEN NoTask ELSE Least(claims)

\* A ChildOf edge of the task itself takes precedence; the first one counts.
ParentTask(db, t) ==
  LET own == Others(db[t], "ChildOf") \ {t}
  IN IF own # {} /\ Least(own) \in DOMAIN db THEN Least(own) ELSE ReverseParentIndex(db, t)
-----------------------------------------------------------------------------
(* The ready tree of one workspace; S are its tasks, ready the frontier.   *)

ParentIn(db, S, t) == LET p == ParentTask(db, t) IN IF p \in S THEN p ELSE NoTask

\* Ready tasks and every ancestor of one: a parent that is not ready is a heading.
Kept(db, S, ready) ==
  LET climb[i \in 0..Cardinality(S)] ==
        IF i = 0 THEN ready
        ELSE LET below == climb[i-1]
             IN below \cup ({ParentIn(db, S, t) : t \in below \cap S} \ {NoTask})
  IN climb[Cardinality(S)]

Roots(db, S, ready) ==
  LET kept == Kept(db, S, ready) IN {t \in kept \cap S : ParentIn(db, S, t) \notin kept}

KidsOf(db, S, t) == {c \in S : ParentIn(db, S, c) = t}

Shown(db, S, ready) ==
  LET kept == Kept(db, S, ready)
      build[i \in 0..Cardinality(S)] ==
        IF i = 0 THEN Roots(db, S, ready)
        ELSE LET above == build[i-1]
             IN above \cup (UNION {KidsOf(db, S, t) : t \in above} \cap kept)
  IN build[Cardinality(S)]

\* The sort key of a branch: the best priority of a ready task in it.
MinOf(P) == CHOOSE p \in P : \A q \in P : p <= q
SubtreePriority(db, S, ready, t) ==
  LET own(u) == IF u \in ready THEN db[u].prio ELSE LowestPriority
      fold[i \in 0..Cardinality(S)] ==
        IF i = 0 THEN [u \in S |-> LowestPriority]
        ELSE LET f == fold[i-1]
             IN [u \in S |-> MinOf({own(u)} \cup {f[c] : c \in KidsOf(db, S, u)})]
  IN fold[Cardinality(S)][t]

\* ready_view: the workspaces asked for (or every active one), each with the
\* candidates that pass the filter and the cwd's repos; one with nothing ready
\* is left out. The blocker walk sees the whole table.
ReadyView(db, ws, f, repos) ==
  LET own(w) == {t \in DOMAIN db : /\ db[t].ws = w
                                   /\ Matches(db[t], [f EXCEPT !.ws = {}])
                                   /\ repos = {} \/ db[t].repo \in repos}
  IN [w \in {v \in ws : SelectReady(db, own(v)) # {}} |->
        Shown(db, own(w), SelectReady(db, own(w)))]
-----------------------------------------------------------------------------
(* Rollups and drift.                                                      *)

\* contributors: every assignee of a task that is not archived, and "nobody".
Contributors(db, f) ==
  LET rows == {t \in DOMAIN db : Matches(db[t], f) /\ db[t].life # "NotPlanned"}
      names(t) == IF db[t].who = {} THEN {"unassigned"} ELSE db[t].who
  IN [n \in UNION {names(t) : t \in rows} |-> Cardinality({t \in rows : n \in names(t)})]

IsUnsynced(sync) == sync # "Synced"
UnsyncedTasks(db, f) ==
  {t \in DOMAIN db : Matches(db[t], f) /\ (IsUnsynced(db[t].sync) \/ db[t].pending > 0)}

Overview(db, w) ==
  LET mine == {t \in DOMAIN db : db[t].ws = w}
  IN [byStatus |-> [l \in {db[t].life : t \in mine} |-> Cardinality({t \in mine : db[t].life = l})],
      unsynced |-> Cardinality({t \in mine : IsUnsynced(db[t].sync)})]

\* The board axis: both columns known and different. column maps open/closed to
\* the option it stands for; actual is the live value where there is one.
ProjectAxis(r, column, actual) ==
  actual # "null" /\ column[IsOpen(r)] # "null" /\ actual # column[IsOpen(r)]

\* drift_report: live maps board items that could be read to their column.
DriftReasons(db, t, column, live, origins) ==
  LET r == db[t]
      actual == IF t \in DOMAIN live THEN live[t] ELSE r.item
  IN IF r.life = "NotPlanned" THEN {}
     ELSE (IF r.sync \in {"DirtyLocal", "DirtyRemote", "Conflict"} THEN {"sync"} ELSE {})
          \cup (IF ProjectAxis(r, column, actual) THEN {"project_status"} ELSE {})
          \cup (IF r.filing # "null" /\ r.filing \notin origins THEN {"filing_repo"} ELSE {})

\* live_statuses: what a live read leaves in the cache; a failed read leaves it.
CacheAfterLiveRead(db, live) ==
  [t \in DOMAIN db |-> IF t \in DOMAIN live /\ db[t].life # "NotPlanned"
                       THEN [db[t] EXCEPT !.item = live[t]] ELSE db[t]]
=============================================================================
