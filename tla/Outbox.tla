------------------------------- MODULE Outbox -------------------------------
(***************************************************************************)
(* The transactional outbox and the daemon's drainer: the table             *)
(* outbox_entries with every operation of SqliteOutboxRepository, the       *)
(* claim / apply / resolve loop of OutboxDrainer::drain_once, and the       *)
(* crash, restart and startup-recovery path of Daemon::run_until.           *)
(*                                                                          *)
(* A row's index in rows is its SQLite rowid.  A deleted row keeps its      *)
(* index with status "deleted".  The remote is seen only through calls, the *)
(* number of times a row's mutation took effect there.                      *)
(***************************************************************************)
EXTENDS Integers, Sequences, FiniteSets

CONSTANTS
  Tasks,        \* task ids
  Mutations,    \* records [kind, payload]; payload stands for payload_json
  DirtyMutation,\* the UpdateRemote that the startup reconcile enqueues
  Writers,      \* processes and daemon tasks that enqueue
  MaxAttempts,  \* BackoffSchedule::max_attempts
  Delays,       \* BackoffSchedule::delays, in clock ticks
  MaxEntries,   \* bound: rowids handed out
  MaxClock,     \* bound: distinct enqueue timestamps
  MaxCrashes,   \* bound: crashes of the daemon
  MaxFaults     \* bound: local database errors seen by the daemon

ASSUME OutboxAssumption ==
  /\ MaxAttempts \in Nat \ {0}
  /\ MaxEntries \in Nat /\ MaxClock \in Nat
  /\ MaxCrashes \in Nat /\ MaxFaults \in Nat
  /\ Delays \in Seq(Nat)
  /\ DirtyMutation \in Mutations

Status   == {"pending", "inflight", "succeeded", "failed", "deleted"}
Terminal == {"succeeded", "failed", "deleted"}

(* A row of outbox_entries; calls is history.  wait is the time left until  *)
(* next_attempt_at, 0 when it is NULL or past.                              *)
Row == [task : Tasks, mut : Mutations, at : 0..MaxClock, status : Status,
        attempts : 0..MaxAttempts, wait : Nat, calls : Nat]

Draft == [writer : Writers, task : Tasks, mut : Mutations, at : 0..MaxClock]

VARIABLES
  rows,      \* [1..lastRowid -> Row]
  lastRowid, \* largest rowid handed out
  drafts,    \* entries minted by a CLI process and not yet inserted
  clock,     \* wall clock, as seen by OutboxEntry::new
  drainer,   \* [pc, entry, disp]: where the daemon is in its loop
  crashes,   \* crashes so far
  faults     \* local database errors so far

vars == <<rows, lastRowid, drafts, clock, drainer, crashes, faults>>

Ids == 1..lastRowid

Pcs == {"down", "starting", "idle", "claimed", "called"}
Dispositions == {"none", "stamped", "retry", "conflict"}

Open(e) == rows[e].status \in {"pending", "inflight"}

(* The FIFO order of the claim query: enqueued_at, then rowid.              *)
Earlier(s, o) == \/ rows[s].at < rows[o].at
                 \/ rows[s].at = rows[o].at /\ s < o

-----------------------------------------------------------------------------
(* OutboxEntry::new and the two ways of inserting an entry.                 *)

NewRow(t, m, at) == [task |-> t, mut |-> m, at |-> at, status |-> "pending",
                     attempts |-> 0, wait |-> 0, calls |-> 0]

AppendRow(row) ==
  /\ lastRowid < MaxEntries
  /\ lastRowid' = lastRowid + 1
  /\ rows' = [e \in 1..(lastRowid + 1) |-> IF e \in Ids THEN rows[e] ELSE row]

TypeKinds == {"set_issue_type", "set_project_type"}

(* The WHERE clause of insert_outbox_in_tx: a type projection is dropped    *)
(* while one of its kind is open, or an identical one is dead-lettered.     *)
Suppressed(t, m) ==
  /\ m.kind \in TypeKinds
  /\ \E s \in Ids :
       /\ rows[s].task = t /\ rows[s].mut.kind = m.kind
       /\ Open(s) \/ (rows[s].status = "failed" /\ rows[s].mut = m)

(* A CLI process stamps the entry with its own clock before it takes the    *)
(* writer lock; two entries may carry the same timestamp.                   *)
Mint(w, t, m) ==
  /\ \A d \in drafts : d.writer # w
  /\ lastRowid + Cardinality(drafts) < MaxEntries
  /\ \E now \in {clock, clock + 1} :
       /\ now <= MaxClock
       /\ clock' = now
       /\ drafts' = drafts \cup {[writer |-> w, task |-> t, mut |-> m, at |-> now]}
  /\ UNCHANGED <<rows, lastRowid, drainer, crashes, faults>>

Insert(d) ==
  /\ drafts' = drafts \ {d}
  /\ IF Suppressed(d.task, d.mut)
       THEN UNCHANGED <<rows, lastRowid>>
       ELSE AppendRow(NewRow(d.task, d.mut, d.at))
  /\ UNCHANGED <<clock, drainer, crashes, faults>>

OpenAddItem(e, t) ==   \* mutant: withdraws an inflight attach too
  rows[e].task = t /\ Open(e) /\ rows[e].mut.kind = "add_item"

PendingAddItem(e, t) ==
  rows[e].task = t /\ rows[e].status = "pending" /\ rows[e].mut.kind = "add_item"

(* A workspace detaching from its project drops its pending AddItems.       *)
DeletePendingAddItems(t) ==
  /\ \E e \in Ids : PendingAddItem(e, t)
  /\ rows' = [e \in Ids |-> IF PendingAddItem(e, t)
                              THEN [rows[e] EXCEPT !.status = "deleted"] ELSE rows[e]]
  /\ UNCHANGED <<lastRowid, drafts, clock, drainer, crashes, faults>>

-----------------------------------------------------------------------------
(* The drainer: claim_next_eligible, apply, and the resolution of a row.    *)

BlockedByPending(o) == \E s \in Ids :   \* mutant: forgets the inflight sibling
  rows[s].task = rows[o].task /\ rows[s].status = "pending" /\ Earlier(s, o)

BlockedByInflight(o) == \E s \in Ids :  \* mutant: a backing-off head is overtaken
  rows[s].task = rows[o].task /\ rows[s].status = "inflight"

Blocked(o) == \E s \in Ids :
  /\ rows[s].task = rows[o].task
  /\ \/ rows[s].status = "inflight"
     \/ rows[s].status = "pending" /\ Earlier(s, o)

Eligible(o) == rows[o].status = "pending" /\ rows[o].wait = 0 /\ ~Blocked(o)

Claim ==
  /\ drainer.pc = "idle"
  /\ \E e \in Ids :
       /\ Eligible(e)
       /\ \A o \in Ids \ {e} : Eligible(o) => Earlier(e, o)
       /\ rows' = [rows EXCEPT ![e].status = "inflight"]
       /\ drainer' = [pc |-> "claimed", entry |-> e, disp |-> "none"]
  /\ UNCHANGED <<lastRowid, drafts, clock, crashes, faults>>

(* Which arms of apply can report a conflict, and which can succeed without *)
(* a remote call (nothing to send, or a replay guard fires).                *)
Conflictable == {"update_remote", "add_item", "create_draft_issue",
                 "convert_draft_to_issue", "set_project_status"}
Skippable    == {"update_remote", "create_draft_issue", "convert_draft_to_issue"}

(* The remote call took effect: the response confirms it, disagrees with    *)
(* what was sent, or is lost (as is a write inside the arm).                *)
ApplyLanded ==
  /\ drainer.pc = "claimed"
  /\ rows' = [rows EXCEPT ![drainer.entry].calls = @ + 1]
  /\ \E disp \in {"stamped", "retry", "conflict"} :
       /\ disp = "conflict" => rows[drainer.entry].mut.kind \in Conflictable
       /\ drainer' = [drainer EXCEPT !.pc = "called", !.disp = disp]
  /\ UNCHANGED <<lastRowid, drafts, clock, crashes, faults>>

(* No remote effect: a failed call, or an arm that has nothing to send.     *)
ApplyNotLanded ==
  /\ drainer.pc = "claimed"
  /\ \E disp \in {"stamped", "retry"} :
       /\ disp = "stamped" => rows[drainer.entry].mut.kind \in Skippable
       /\ drainer' = [drainer EXCEPT !.pc = "called", !.disp = disp]
  /\ UNCHANGED <<rows, lastRowid, drafts, clock, crashes, faults>>

(* BackoffSchedule::delay_for.                                              *)
DelayFor(made) ==
  IF Delays = <<>> THEN 0
  ELSE Delays[IF made \in 1..Len(Delays) THEN made ELSE Len(Delays)]

MarkSucceeded(r)     == [r EXCEPT !.status = "succeeded"]
MarkFailed(r)        == [r EXCEPT !.status = "failed", !.attempts = @ + 1]
RetryUncounted(r, wait) == [r EXCEPT !.status = "pending", !.wait = wait] \* mutant
RecordRetry(r, wait) == [r EXCEPT !.status = "pending", !.attempts = @ + 1, !.wait = wait]

AfterFailureLateCap(r) ==   \* mutant: one attempt too many
  IF r.attempts < MaxAttempts THEN RecordRetry(r, DelayFor(r.attempts + 1)) ELSE MarkFailed(r)

AfterFailure(r) ==
  IF r.attempts + 1 < MaxAttempts THEN RecordRetry(r, DelayFor(r.attempts + 1))
                                  ELSE MarkFailed(r)

Resolved(r, disp) == CASE disp = "stamped"  -> MarkSucceeded(r)
                       [] disp = "conflict" -> MarkFailed(r)
                       [] disp = "retry"    -> AfterFailure(r)

Resting(pc) == [pc |-> pc, entry |-> 0, disp |-> "none"]

Resolve ==
  /\ drainer.pc = "called"
  /\ rows' = [rows EXCEPT ![drainer.entry] = Resolved(@, drainer.disp)]
  /\ drainer' = Resting("idle")
  /\ UNCHANGED <<lastRowid, drafts, clock, crashes, faults>>

(* A local write fails after the claim (cache_synced_at, save, mark_* or    *)
(* record_retry): drain_once returns Err and the row stays inflight.        *)
DrainError ==
  /\ drainer.pc = "called"
  /\ faults < MaxFaults
  /\ faults' = faults + 1
  /\ drainer' = Resting("idle")
  /\ UNCHANGED <<rows, lastRowid, drafts, clock, crashes>>

Waiting(e) == rows[e].status = "pending" /\ rows[e].wait > 0

(* Time passes, relative to every next_attempt_at still in the future.      *)
Tick ==
  /\ \E e \in Ids : Waiting(e)
  /\ rows' = [e \in Ids |-> IF Waiting(e) THEN [rows[e] EXCEPT !.wait = @ - 1] ELSE rows[e]]
  /\ UNCHANGED <<lastRowid, drafts, clock, drainer, crashes, faults>>

-----------------------------------------------------------------------------
(* Crash, and the startup sequence of run_until.                            *)

Crash ==
  /\ drainer.pc # "down"
  /\ crashes < MaxCrashes
  /\ crashes' = crashes + 1
  /\ drainer' = Resting("down")
  /\ UNCHANGED <<rows, lastRowid, drafts, clock, faults>>

Requeued(e) == [rows[e] EXCEPT !.status = "pending", !.wait = 0]

RequeueNothing ==        \* mutant: startup skips the requeue
  /\ drainer.pc = "down"
  /\ drainer' = Resting("starting")
  /\ UNCHANGED <<rows, lastRowid, drafts, clock, crashes, faults>>

RequeueOrphanedInflight ==
  /\ drainer.pc = "down"
  /\ rows' = [e \in Ids |-> IF rows[e].status = "inflight" THEN Requeued(e) ELSE rows[e]]
  /\ drainer' = Resting("starting")
  /\ UNCHANGED <<lastRowid, drafts, clock, crashes, faults>>

(* The requeue fails: logged, and startup goes on.                          *)
RequeueFails ==
  /\ drainer.pc = "down"
  /\ faults < MaxFaults
  /\ faults' = faults + 1
  /\ drainer' = Resting("starting")
  /\ UNCHANGED <<rows, lastRowid, drafts, clock, crashes>>

(* reconcile_dirty_into_outbox on one DirtyLocal task: enqueue_if_absent.   *)
ReconcileDirty(t) ==
  /\ drainer.pc = "starting"
  /\ \A s \in Ids : rows[s].task = t => rows[s].status \notin {"pending", "inflight", "failed"}
  /\ lastRowid + Cardinality(drafts) < MaxEntries
  /\ AppendRow(NewRow(t, DirtyMutation, clock))
  /\ UNCHANGED <<drafts, clock, drainer, crashes, faults>>

StartLoops ==
  /\ drainer.pc = "starting"
  /\ drainer' = Resting("idle")
  /\ UNCHANGED <<rows, lastRowid, drafts, clock, crashes, faults>>

-----------------------------------------------------------------------------
Init ==
  /\ rows = [e \in 1..0 |-> 0]
  /\ lastRowid = 0
  /\ drafts = {}
  /\ clock = 0
  /\ drainer = Resting("down")
  /\ crashes = 0
  /\ faults = 0

Daemon == \/ Claim \/ ApplyLanded \/ ApplyNotLanded \/ Resolve
          \/ RequeueOrphanedInflight \/ StartLoops

Next ==
  \/ \E w \in Writers, t \in Tasks, m \in Mutations : Mint(w, t, m)
  \/ \E d \in drafts : Insert(d)
  \/ \E t \in Tasks : DeletePendingAddItems(t) \/ ReconcileDirty(t)
  \/ Daemon \/ DrainError \/ RequeueFails \/ Crash \/ Tick

Spec == Init /\ [][Next]_vars

(* The daemon keeps running while the machine is up (its two tasks only     *)
(* return when cancelled), a remote call returns, and time passes.          *)
FairSpec == Spec /\ WF_vars(Daemon) /\ WF_vars(Tick)

-----------------------------------------------------------------------------
(* Every row, draft and the drainer's registers stay well formed; in        *)
(* particular record_retry and mark_failed never push attempts past the cap. *)
TypeOK ==
  /\ lastRowid \in Nat
  /\ rows \in [Ids -> Row]
  /\ drafts \subseteq Draft
  /\ clock \in 0..MaxClock
  /\ drainer \in [pc : Pcs, entry : Nat, disp : Dispositions]
  /\ crashes \in Nat /\ faults \in Nat

(* The inflight guard of the claim, the requeue and the abandoned rows of a *)
(* failed pass together never let two rows of one task be inflight.         *)
SingleInflight ==
  \A e, f \in Ids : rows[e].status = "inflight" /\ rows[f].status = "inflight"
                    /\ rows[e].task = rows[f].task => e = f

(* The attempt cap bounds remote effects: a row still open has attempts in  *)
(* hand, and a row never takes effect more often than the cap allows plus   *)
(* once for each crash or local error that hid an effect from its count.    *)
EffectsCapped ==
  \A e \in Ids : /\ Open(e) => rows[e].attempts < MaxAttempts
                 /\ rows[e].calls <= MaxAttempts + crashes + faults

(* Precedes(e, f): e was in the table before f and sorts before it.         *)
Precedes(e, f) == rows[e].task = rows[f].task /\ e < f /\ Earlier(e, f)

(* Per-task FIFO seen from the remote, across retries, backoff, crashes and *)
(* replays: once a later row of the task took effect, an earlier one that   *)
(* was already queued never does.                                           *)
OrderedEffects ==
  [][\A e, f \in Ids : Precedes(e, f) /\ rows[f].calls > 0 => rows'[e].calls = rows[e].calls]_vars

(* A row resolved by the drainer or dropped by a detach is final: no        *)
(* requeue, replay or late resolution ever reopens or rewrites it.          *)
ResolvedIsFinal ==
  [][\A e \in Ids : rows[e].status \in Terminal => rows'[e] = rows[e]]_vars

(* A row of the task was left inflight by a local error and no drainer      *)
(* owns it.                                                                 *)
Stranded(t) == /\ faults > 0 /\ drainer.pc # "down"
               /\ \E s \in Ids : rows[s].task = t /\ rows[s].status = "inflight" /\ s # drainer.entry

(* Every queued row is eventually resolved, across retries, crashes and     *)
(* whatever the other tasks do, unless a local error strands a row of the   *)
(* same task.                                                               *)
EventuallyResolved ==
  \A e \in 1..MaxEntries :
    (e \in Ids /\ Open(e)) ~> (e \in Ids /\ (~Open(e) \/ Stranded(rows[e].task)))

(* The outbox is a per-task mailbox: claims, retries, backoff, crashes and  *)
(* requeues are invisible, and a task's letters take effect head first.     *)
Letters == [e \in Ids |-> [task |-> rows[e].task, at |-> rows[e].at,
                           state |-> IF Open(e) THEN "open" ELSE "closed",
                           effects |-> rows[e].calls]]

Box == INSTANCE Mailbox WITH Stamps <- 0..MaxClock, letters <- Letters, last <- lastRowid

RefinesMailbox == Box!Spec

(* What Daemon::drain_tick says of a failed pass: "a drain error is         *)
(* non-fatal (logged by the caller, then the next sweep / notify retries)". *)
DrainErrorIsRetried ==
  \A e \in 1..MaxEntries : (e \in Ids /\ Open(e)) ~> (e \in Ids /\ ~Open(e))
=============================================================================
