----------------------------- MODULE DaemonRun -----------------------------
(***************************************************************************)
(* The life of the daemon process: crash recovery, the poller and drainer  *)
(* tasks with their select loops, cancellation, the bounded join at the    *)
(* end, the service manager that starts the process again, and the         *)
(* heartbeat by which rl daemon status tells a wedged daemon from a live   *)
(* one. What a tick and a drain do is modelled elsewhere; here they are    *)
(* pieces of work that end, fail, hang or panic. One outbox row stands for *)
(* what a drain has claimed.                                               *)
(***************************************************************************)
EXTENDS Integers, FiniteSets, TLC

CONSTANTS Interval,  \* the poller's interval, in units of time
          RunFaults, \* panics, kills, failed ticks and failed recoveries
          RunToggles \* rl daemon start and stop

DaemonRunConstants == Interval \in Nat \ {0} /\ {RunFaults, RunToggles} \subseteq Nat

VARIABLES
  main,    \* where run_until is
  task,    \* the two spawned tasks
  cancel,  \* the value of the watch channel
  permit,  \* the stored permit of drainer_notify
  awaited, \* how often each JoinHandle was awaited to its end
  row,     \* the outbox row: absent, pending or inflight
  requeued,\* the recovery of this run succeeded
  wanted,  \* the service manager is to keep the daemon up
  age,     \* time since the heartbeat was written
  due,     \* time to the next tick of the interval
  busy,    \* how long the tick under way has taken
  paced,   \* this run has had a tick, and every tick was in time and successful
  runSpent

runVars == <<main, task, cancel, permit, awaited, row, requeued, wanted, age, due, busy, paced, runSpent>>
rowVars == <<row, requeued>>
timeVars == <<age, due, busy, paced>>
loopVars == <<main, cancel, awaited>>

Tasks == {"poller", "drainer"}
Never == 2 * Interval + 1      \* older than anything that is compared with it
NoBeat == Never + 1            \* there is no heartbeat file

RunInit ==
  /\ main = "off"
  /\ task = [t \in Tasks |-> "none"]
  /\ cancel = FALSE /\ permit = FALSE
  /\ awaited = [t \in Tasks |-> 0]
  /\ row \in {"absent", "pending", "inflight"} /\ requeued = FALSE
  /\ wanted = TRUE
  /\ age \in {Never, NoBeat} /\ due = 0 /\ busy = 0 /\ paced = "untried"
  /\ runSpent = [faults |-> 0, toggles |-> 0]

RunSpend(b) ==
  /\ runSpent[b] < [faults |-> RunFaults, toggles |-> RunToggles][b]
  /\ runSpent' = [runSpent EXCEPT ![b] = @ + 1]

TaskBecomes(t, state) == task' = [task EXCEPT ![t] = state]
Ended == {"returned", "panicked"}

-----------------------------------------------------------------------------
(* Startup.                                                                 *)

\* Restart=always and its like on the other platforms.
Launch ==
  /\ main = "off" /\ wanted
  /\ main' = "requeue" /\ cancel' = FALSE /\ permit' = FALSE
  /\ task' = [t \in Tasks |-> "none"] /\ awaited' = [t \in Tasks |-> 0]
  /\ paced' = "untried" /\ busy' = 0
  /\ UNCHANGED <<row, requeued, wanted, age, due, runSpent>>

RequeueOrphanedInflight ==
  /\ row' = IF row = "inflight" THEN "pending" ELSE row
  /\ requeued' = TRUE

Requeue ==
  /\ main = "requeue" /\ main' = "reconcile"
  /\ \/ RequeueOrphanedInflight /\ UNCHANGED runSpent
     \/ RunSpend("faults") /\ requeued' = FALSE /\ UNCHANGED row    \* logged, not fatal
  /\ UNCHANGED <<task, cancel, permit, awaited, wanted, timeVars>>

\* The reconcile may enqueue a row for a dirty task that has none; then both
\* tasks are spawned, and the first tick of each interval is due at once.
ReconcileAndSpawn ==
  /\ main = "reconcile" /\ main' = "select"
  /\ row' \in IF row = "absent" THEN {"absent", "pending"} ELSE {row}
  /\ permit' = TRUE
  /\ task' = [t \in Tasks |-> "select"]
  /\ due' = 0
  /\ UNCHANGED <<cancel, awaited, requeued, wanted, age, busy, paced, runSpent>>

-----------------------------------------------------------------------------
(* The poller task: tick, or stop. A tick under way is not interrupted: its *)
(* arm of the select! was taken.                                            *)

PollerTicks ==
  /\ task["poller"] = "select" /\ due = 0
  /\ TaskBecomes("poller", "busy")
  /\ due' = Interval /\ busy' = 0       \* MissedTickBehavior::Delay
  /\ UNCHANGED <<loopVars, permit, rowVars, wanted, age, paced, runSpent>>

\* tick_once writes the heartbeat at its end; an error ends it before.
PollerTickEnds ==
  /\ task["poller"] = "busy"
  /\ TaskBecomes("poller", "select")
  /\ age' = 0
  /\ paced' = IF paced # "late" /\ busy <= Interval THEN "paced" ELSE "late"
  /\ busy' = 0
  /\ UNCHANGED <<loopVars, permit, rowVars, wanted, due, runSpent>>

PollerTickFails ==
  /\ task["poller"] = "busy" /\ RunSpend("faults")
  /\ TaskBecomes("poller", "select")
  /\ paced' = "late" /\ busy' = 0
  /\ UNCHANGED <<loopVars, permit, rowVars, wanted, age, due>>

\* The drainer: woken by the permit or by the sweep, which is always near.
DrainerWakes ==
  /\ task["drainer"] = "select"
  /\ TaskBecomes("drainer", "busy")
  /\ permit' \in {FALSE, permit}
  /\ row' = IF row = "pending" THEN "inflight" ELSE row
  /\ UNCHANGED <<loopVars, requeued, wanted, timeVars, runSpent>>

\* The row is resolved or put back; a row that an earlier run left behind is
\* not this drain's.
DrainerEnds ==
  /\ task["drainer"] = "busy"
  /\ TaskBecomes("drainer", "select")
  /\ row' \in IF row = "inflight" /\ requeued THEN {"absent", "pending"} ELSE {row}
  /\ UNCHANGED <<loopVars, permit, requeued, wanted, timeVars, runSpent>>

StopsAtCancel(t) ==
  /\ task[t] = "select" /\ cancel
  /\ TaskBecomes(t, "returned")
  /\ UNCHANGED <<loopVars, permit, rowVars, wanted, timeVars, runSpent>>

Panics(t) ==
  /\ task[t] = "busy" /\ RunSpend("faults")
  /\ TaskBecomes(t, "panicked")
  /\ UNCHANGED <<loopVars, permit, rowVars, wanted, timeVars>>

-----------------------------------------------------------------------------
(* run_until: wait for the first of three, then cancel and join.            *)

WatchedHandles == Tasks

SelectSeesShutdown ==
  /\ main = "select" /\ ~wanted
  /\ main' = "poller" /\ cancel' = TRUE
  /\ UNCHANGED <<task, permit, awaited, rowVars, wanted, timeVars, runSpent>>

SelectSeesExit(t) ==
  /\ main = "select" /\ t \in WatchedHandles /\ task[t] \in Ended
  /\ main' = "poller" /\ cancel' = TRUE
  /\ awaited' = [awaited EXCEPT ![t] = @ + 1]
  /\ UNCHANGED <<task, permit, rowVars, wanted, timeVars, runSpent>>

After == [poller |-> "drainer", drainer |-> "off"]

\* The flag of a handle that select! saw resolve is forgotten.
AlreadyNever(t) == FALSE

AlreadyDone(t) == awaited[t] > 0

JoinOne(t) ==
  /\ main = t
  /\ AlreadyDone(t) \/ task[t] \in Ended
  /\ main' = After[t]
  /\ awaited' = IF AlreadyDone(t) THEN awaited ELSE [awaited EXCEPT ![t] = @ + 1]
  /\ UNCHANGED <<task, cancel, permit, rowVars, wanted, timeVars, runSpent>>

NoDeadline(t) == FALSE   \* mutant: a join waits as long as its task hangs

\* SHUTDOWN_GRACE, one budget for both joins, is over.
DeadlinePassed(t) == ~AlreadyDone(t) /\ task[t] \notin Ended

JoinAborts(t) ==
  /\ main = t /\ DeadlinePassed(t)
  /\ TaskBecomes(t, "aborted")
  /\ main' = After[t]
  /\ UNCHANGED <<cancel, permit, awaited, rowVars, wanted, timeVars, runSpent>>

\* A kill, or a signal before the handlers are installed.
KilledAtOnce ==
  /\ main # "off"
  /\ \/ RunSpend("faults")
     \/ main \in {"requeue", "reconcile"} /\ ~wanted /\ UNCHANGED runSpent
  /\ main' = "off"
  /\ UNCHANGED <<task, cancel, permit, awaited, rowVars, wanted, timeVars>>

-----------------------------------------------------------------------------
Toggle ==
  /\ RunSpend("toggles")
  /\ wanted' = ~wanted
  /\ UNCHANGED <<loopVars, task, permit, rowVars, timeVars>>

\* An rl command enqueues from another process, without a permit.
Enqueued ==
  /\ row = "absent" /\ row' = "pending"
  /\ UNCHANGED <<loopVars, task, permit, requeued, wanted, timeVars, runSpent>>

\* A tick that is due and has its task waiting comes before time goes on.
TimePasses ==
  /\ ~(main = "select" /\ task["poller"] = "select" /\ due = 0)
  /\ age' = IF age >= Never THEN age ELSE age + 1
  /\ due' = IF due = 0 THEN 0 ELSE due - 1
  /\ busy' = IF task["poller"] = "busy" /\ busy <= Interval THEN busy + 1 ELSE busy
  /\ UNCHANGED <<loopVars, task, permit, rowVars, wanted, paced, runSpent>>

RunUntil == Requeue \/ ReconcileAndSpawn \/ SelectSeesShutdown \/ \E t \in Tasks : SelectSeesExit(t) \/ JoinOne(t) \/ JoinAborts(t)
TaskStep == PollerTicks \/ PollerTickEnds \/ DrainerWakes \/ DrainerEnds \/ \E t \in Tasks : StopsAtCancel(t)

RunNext ==
  \/ Launch \/ RunUntil
  \/ (main # "off" /\ TaskStep)
  \/ (main # "off" /\ PollerTickFails)
  \/ (main # "off" /\ \E t \in Tasks : Panics(t))
  \/ KilledAtOnce \/ Toggle \/ Enqueued \/ TimePasses

RunSpec == RunInit /\ [][RunNext]_runVars

\* The service manager starts what it wants up, and run_until goes on: its waits
\* end by a signal, an exit or a timer. A tick or drain may hang for ever.
RunFairness == WF_runVars(Launch) /\ WF_runVars(RunUntil)

-----------------------------------------------------------------------------
\* rl daemon status. The unit counts as loaded from its start.
UnitLoaded == main # "off"

IsWedged == age # NoBeat /\ age > 2 * Interval

Wedged == UnitLoaded /\ IsWedged

-----------------------------------------------------------------------------
\* The process is in one place of run_until, tasks exist from their spawn on and
\* a task is never aborted before it was told to stop.
RunTypeOK ==
  /\ main \in {"off", "requeue", "reconcile", "select"} \cup Tasks
  /\ task \in [Tasks -> {"none", "select", "busy", "aborted"} \cup Ended]
  /\ main \in {"requeue", "reconcile"} => \A t \in Tasks : task[t] = "none"
  /\ \A t \in Tasks : task[t] \in {"aborted", "returned"} => cancel
  /\ age \in 0..NoBeat /\ due \in 0..Interval /\ busy \in 0..Interval + 1

\* "A completed JoinHandle must never be awaited twice", whichever arm of the
\* select! won and whatever ended in the meantime.
HandleAwaitedOnce == \A t \in Tasks : awaited[t] <= 1

\* An inflight row belongs to a drain that is under way: what crashes and aborted
\* shutdowns left behind was put back before the tasks started, unless the
\* recovery itself failed.
InflightHasItsDrain ==
  main = "select" /\ requeued /\ row = "inflight" => task["drainer"] \in {"busy", "panicked"}

\* Status does not call a daemon wedged that keeps its pace: in a run in which
\* every tick so far succeeded within an interval, and there was one, the
\* heartbeat is never overdue.
PacedIsNotWedged ==
  main = "select" /\ paced = "paced" /\ busy <= Interval /\ task["poller"] # "panicked" => ~Wedged

\* rl daemon stop ends the process, though a tick or a drain may hang for ever.
StopStops == ~wanted ~> main = "off" \/ wanted

\* A task that panics takes the whole daemon down, and up again: neither task
\* runs on for ever without the other.
PanicRestarts ==
  (\E t \in Tasks : task[t] = "panicked") ~> ~wanted \/ (\A u \in Tasks : task[u] \in {"select", "busy"})

\* Tasks and process fit together, no JoinHandle is awaited twice, an inflight
\* row has its drain, and a daemon that keeps its pace is not called wedged
\* (run_until, join_with_grace, requeue_orphaned_inflight, is_wedged).
DaemonIsSound == RunTypeOK /\ HandleAwaitedOnce /\ InflightHasItsDrain /\ PacedIsNotWedged
=============================================================================
