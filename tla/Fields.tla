------------------------------- MODULE Fields -------------------------------
(***************************************************************************)
(* Priority, issue type and column of tasks that have a card: the edits    *)
(* that owe a projection, the drainer arms that send it, the compare-and-  *)
(* clear of the type's pending flag, and the poller that reads the board   *)
(* back. Board changes by people bump an item's updated_at, in whole       *)
(* seconds that two changes may share. A command is one step; the drainer  *)
(* and the poller take a step per remote call and per local write.         *)
(***************************************************************************)
EXTENDS Integers, Sequences, FiniteSets, SequencesExt, FiniteSetsExt

CONSTANTS Tasks, Types,
          Option,        \* Option[p]: the board's option of local priority p
          PollLimit,     \* POLL_LIMIT
          MaxAttempts, MaxEdits, MaxRefreshes, MaxBoardEdits, MaxFaults, MaxPolls, MaxTotal, MaxClock

ASSUME FieldsConstants ==
  /\ DOMAIN Option \subseteq Nat /\ DOMAIN Option # {}
  /\ "none" \notin Tasks   \* the task of an idle drainer
  /\ PollLimit \in Nat \ {0} /\ MaxAttempts \in Nat \ {0}
  /\ {MaxEdits, MaxRefreshes, MaxBoardEdits, MaxFaults, MaxPolls, MaxTotal, MaxClock} \subseteq Nat

VARIABLES
  row,       \* tasks: prio, type, pending (issue_type_pending), column (cached), synced (synced_at)
  queue,     \* rows of a task in order; the head is inflight while job is on it
  job,       \* the drainer: task, phase, value sent
  failed,    \* dead-lettered rows <<task, kind, value>>
  known,     \* types the board's Type field or the org's registry offers
  card,      \* GitHub: option, type, column and updated_at of the item
  clock,
  poll,      \* the poller: phase, its index, the page, items still to reconcile
  mark,      \* the project's watermark, in memory
  raced,     \* history: tasks whose priority was set between a poll's index and its page
  spent

vars == <<row, queue, job, failed, known, card, clock, poll, mark, raced, spent>>

Priorities == DOMAIN Option
Options == {Option[p] : p \in Priorities}
Columns == {"todo", "done"}
Idle == [phase |-> "idle", task |-> "none"]
NoPoll == [phase |-> "idle", index |-> <<>>, page |-> <<>>, todo |-> {}, partial |-> FALSE]
Limit == [edits |-> MaxEdits, refreshes |-> MaxRefreshes, board |-> MaxBoardEdits,
          faults |-> MaxFaults, polls |-> MaxPolls]
Total == spent.edits + spent.refreshes + spent.board + spent.faults
Spend(b) == /\ spent[b] < Limit[b] /\ (b # "polls" => Total < MaxTotal)
            /\ spent' = [spent EXCEPT ![b] = @ + 1]

Init ==
  /\ row = [t \in Tasks |-> [prio |-> Min(Priorities), type |-> "null", pending |-> FALSE,
                             column |-> "todo", synced |-> 0]]
  /\ card = [t \in Tasks |-> [option |-> Option[Min(Priorities)], type |-> "null",
                              column |-> "todo", updated |-> 1]]
  /\ queue = [t \in Tasks |-> <<>>]
  /\ job = Idle /\ failed = {} /\ known = {}
  /\ clock = 1 /\ poll = NoPoll /\ mark = 0 /\ raced = {}
  /\ spent = [b \in DOMAIN Limit |-> 0]
-----------------------------------------------------------------------------
(* Edits and the rows they owe.                                            *)

Entry(kind, value) == [kind |-> kind, value |-> value, attempts |-> 0]

\* insert: a type row is left out while one is pending or inflight, or when the
\* same one was dead-lettered.
Insert(t, e) ==
  IF /\ e.kind = "type"
     /\ (\E i \in DOMAIN queue[t] : queue[t][i].kind = "type") \/ <<t, "type", e.value>> \in failed
  THEN queue[t] ELSE Append(queue[t], e)

SetPriority(t, p) ==
  /\ Spend("edits")
  /\ p # row[t].prio
  /\ row' = [row EXCEPT ![t].prio = p]
  /\ queue' = [queue EXCEPT ![t] = Insert(t, Entry("prio", Option[p]))]
  /\ raced' = IF poll.phase = "fetch" THEN raced \cup {t} ELSE raced
  /\ UNCHANGED <<job, failed, known, card, clock, poll, mark>>

\* A changed type arms the flag in the same save; a type nobody offers owes no
\* row yet, clearing always does.
Projectable(v) == v \in known \cup {"null"}
SetIssueType(t, v) ==
  /\ Spend("edits")
  /\ v # row[t].type
  /\ row' = [row EXCEPT ![t].type = v, ![t].pending = TRUE]
  /\ queue' = IF Projectable(v) THEN [queue EXCEPT ![t] = Insert(t, Entry("type", v))] ELSE queue
  /\ UNCHANGED <<job, failed, known, card, clock, poll, mark, raced>>

\* A refresh of the registry replaces it.
Refresh(S) ==
  /\ Spend("refreshes")
  /\ known' = S
  /\ UNCHANGED <<row, queue, job, failed, card, clock, poll, mark, raced>>
-----------------------------------------------------------------------------
(* The drainer.                                                            *)

\* At the start of every pass the armed flags are turned into rows again.
PendingTypesDropped(t) == FALSE /\ UNCHANGED vars
EnqueuePendingIssueTypes(t) ==
  /\ job = Idle
  /\ row[t].pending /\ Projectable(row[t].type)
  /\ queue' = [queue EXCEPT ![t] = Insert(t, Entry("type", row[t].type))]
  /\ queue' # queue
  /\ UNCHANGED <<row, job, failed, known, card, clock, poll, mark, spent, raced>>

Claim(t) ==
  /\ job = Idle /\ queue[t] # <<>>
  /\ job' = [phase |-> "call", task |-> t]
  /\ UNCHANGED <<row, queue, failed, known, card, clock, poll, mark, spent, raced>>

Ticks == {c \in {clock, clock + 1} : c <= MaxClock}
Sent(c, e, now) == IF e.kind = "prio" THEN [c EXCEPT !.option = e.value, !.updated = now]
                   ELSE [c EXCEPT !.type = e.value, !.updated = now]

Call ==
  /\ job.phase = "call"
  /\ \E now \in Ticks :
       /\ clock' = now
       /\ card' = [card EXCEPT ![job.task] = Sent(@, Head(queue[job.task]), now)]
  /\ job' = [job EXCEPT !.phase = "finish"]
  /\ UNCHANGED <<row, queue, failed, known, poll, mark, spent, raced>>

Retried ==
  LET t == job.task  e == Head(queue[t]) IN
  /\ job' = Idle
  /\ IF e.attempts + 1 < MaxAttempts
     THEN queue' = [queue EXCEPT ![t][1].attempts = @ + 1] /\ UNCHANGED failed
     ELSE queue' = [queue EXCEPT ![t] = Tail(@)] /\ failed' = failed \cup {<<t, e.kind, e.value>>}

CallFails ==
  /\ job.phase = "call"
  /\ Spend("faults")
  /\ Retried
  /\ UNCHANGED <<row, known, card, clock, poll, mark, raced>>

\* clear_issue_type_pending: only if the type is still the one that was sent.
ClearIssueTypePending(r, e) ==
  IF e.kind = "type" /\ e.value = r.type THEN [r EXCEPT !.pending = FALSE] ELSE r

Finish ==
  /\ job.phase = "finish"
  /\ row' = [row EXCEPT ![job.task] = ClearIssueTypePending(@, Head(queue[job.task]))]
  /\ queue' = [queue EXCEPT ![job.task] = Tail(@)]
  /\ job' = Idle
  /\ UNCHANGED <<failed, known, card, clock, poll, mark, spent, raced>>
-----------------------------------------------------------------------------
(* The board in other hands.                                               *)

BoardEdit(t) ==
  /\ Spend("board")
  /\ \E now \in Ticks, o \in Options, col \in Columns :
       /\ (o = card[t].option) # (col = card[t].column)
       /\ clock' = now
       /\ card' = [card EXCEPT ![t].option = o, ![t].column = col, ![t].updated = now]
  /\ UNCHANGED <<row, queue, job, failed, known, poll, mark, raced>>
-----------------------------------------------------------------------------
(* The poller.                                                             *)

\* index_stale_candidates: the stalest rows, as they are now.
IndexStaleCandidates ==
  /\ poll.phase = "idle" /\ Spend("polls")
  /\ \E S \in SUBSET Tasks :
       /\ Cardinality(S) = Min({PollLimit, Cardinality(Tasks)})
       /\ \A t \in S, u \in Tasks \ S : row[t].synced <= row[u].synced
       /\ poll' = [NoPoll EXCEPT !.phase = "fetch", !.index = [t \in S |-> row[t]]]
  /\ UNCHANGED <<row, queue, job, failed, known, card, clock, mark, raced>>

\* A page shows every item, or some when it is truncated; items not newer than
\* the watermark are passed over.
PollProjectItems ==
  /\ poll.phase = "fetch"
  /\ \E S \in SUBSET Tasks :
     /\ IF S = Tasks THEN UNCHANGED spent ELSE Spend("faults")
     /\ poll' = [poll EXCEPT !.phase = "items", !.page = [t \in S |-> card[t]], !.partial = S # Tasks,
                            !.todo = {t \in S : card[t].updated > mark}]
  /\ UNCHANGED <<row, queue, job, failed, known, card, clock, mark, raced>>

PollFails ==
  /\ poll.phase = "fetch"
  /\ Spend("faults")
  /\ poll' = NoPoll
  /\ UNCHANGED <<row, queue, job, failed, known, card, clock, mark, raced>>

HasPendingPriorityPush(t) ==
  \E i \in DOMAIN queue[t] : (i > 1 \/ job.task # t) /\ queue[t][i].kind = "prio"
InverseOption(o) == Min({p \in Priorities : Option[p] = o})

\* reconcile_priority compares the indexed row with the page and writes one
\* column of the row as it is by now.
ReconcilePriority(t) ==
  IF Option[poll.index[t].prio] = poll.page[t].option \/ HasPendingPriorityPush(t) THEN row[t].prio
  ELSE InverseOption(poll.page[t].option)

\* reconcile_item: an item outside the index is skipped.
ReconcileItem(t) ==
  /\ poll.phase = "items" /\ t \in poll.todo
  /\ row' = IF t \in DOMAIN poll.index
            THEN [row EXCEPT ![t].prio = ReconcilePriority(t), ![t].column = poll.page[t].column]
            ELSE row
  /\ poll' = [poll EXCEPT !.todo = @ \ {t}]
  /\ UNCHANGED <<queue, job, failed, known, card, clock, mark, spent, raced>>

\* The newest item less a second, never backwards.
AdvanceToNewest(page) == Max({mark} \cup {page[t].updated : t \in DOMAIN page})
Advance(page) ==
  LET newest == Max({mark} \cup {page[t].updated : t \in DOMAIN page})
  IN IF newest > mark THEN Max({mark, newest - 1}) ELSE mark

\* A truncated page moves no watermark and stamps nobody.
PollEnd ==
  /\ poll.phase = "items" /\ poll.todo = {}
  /\ IF poll.partial THEN UNCHANGED <<mark, row>>
     ELSE /\ mark' = Advance(poll.page)
          /\ row' = [t \in Tasks |-> IF t \in DOMAIN poll.index THEN [row[t] EXCEPT !.synced = clock]
                                     ELSE row[t]]
  /\ poll' = NoPoll
  /\ UNCHANGED <<queue, job, failed, known, card, clock, spent, raced>>

\* The daemon restarts: the watermark is gone, an inflight row is pending again.
Restart ==
  /\ Spend("faults")
  /\ job' = Idle /\ poll' = NoPoll /\ mark' = 0
  /\ UNCHANGED <<row, queue, failed, known, card, clock, raced>>
-----------------------------------------------------------------------------
Edit == \/ \E t \in Tasks, p \in Priorities : SetPriority(t, p)
        \/ \E t \in Tasks, v \in Types \cup {"null"} : SetIssueType(t, v)
        \/ \E S \in SUBSET Types : Refresh(S)
Drain == (\E t \in Tasks : EnqueuePendingIssueTypes(t) \/ Claim(t)) \/ Call \/ Finish
Poll == IndexStaleCandidates \/ PollProjectItems \/ (\E t \in Tasks : ReconcileItem(t)) \/ PollEnd

Next == Edit \/ (\E t \in Tasks : BoardEdit(t)) \/ Drain \/ Poll \/ CallFails \/ PollFails \/ Restart

Spec == Init /\ [][Next]_vars

\* The daemon drains on a timer.
FairSpec == Spec /\ WF_vars(Drain)
-----------------------------------------------------------------------------
Row == [prio: Priorities, type: Types \cup {"null"}, pending: BOOLEAN, column: Columns, synced: Nat]
\* Types and ranges: rows, values on their way, attempts below the limit, and a
\* watermark that is never ahead of the clock.
TypeOK ==
  /\ row \in [Tasks -> Row]
  /\ \A t \in Tasks : \A i \in DOMAIN queue[t] :
       /\ queue[t][i].kind = "prio" => queue[t][i].value \in Options
       /\ queue[t][i].kind = "type" => queue[t][i].value \in Types \cup {"null"}
       /\ queue[t][i].attempts < MaxAttempts
  /\ card \in [Tasks -> [option: Options, type: Types \cup {"null"}, column: Columns, updated: 1..clock]]
  /\ mark <= clock /\ known \subseteq Types /\ poll.todo \subseteq DOMAIN poll.page

\* An item the poller will not look at again is one the local row agrees with:
\* whatever the order of edits, pushes, board changes of the same second, reads
\* and restarts, the watermark passes nothing that was not reconciled. Two
\* cases are out: a dead-lettered row, and a priority set between the poll's
\* index and its page (the page is compared with the indexed value, so a board
\* change back to that value is taken for no change).
NothingMissed ==
  \A t \in Tasks :
    ( /\ card[t].updated <= mark /\ queue[t] = <<>> /\ job.task # t /\ poll.phase = "idle"
      /\ \A o \in Options : <<t, "prio", o>> \notin failed )
      => /\ row[t].column = card[t].column
         /\ t \in raced \/ Option[row[t].prio] = card[t].option

\* A type whose flag is down is the type on GitHub, although an edit may arrive
\* while an older value is queued, on its way or sent again after a crash.
TypeIsDelivered == \A t \in Tasks : ~row[t].pending => row[t].type = card[t].type

\* A type that is offered gets to GitHub, unless it was dead-lettered or
\* replaced: also one edited while a row for another value was queued, and one
\* that nobody offered when it was set.
TypeArrives ==
  \A t \in Tasks, v \in Types :
    (row[t].pending /\ row[t].type = v /\ v \in known)
      ~> (card[t].type = v \/ row[t].type # v \/ v \notin known \/ <<t, "type", v>> \in failed)

\* Local rows and the board agree wherever nothing is under way: the poller's
\* watermark passed nothing, a type whose flag is down is delivered, and what is
\* queued is well formed (poll_once, clear_issue_type_pending, drain_once).
FieldsAgree == TypeOK /\ NothingMissed /\ TypeIsDelivered
=============================================================================
