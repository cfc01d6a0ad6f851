\* Every class of mutation in two rows, a writer against the daemon, a crash and a
\* local error: delivery order, caps, the mailbox the outbox implements
\* and what eventually happens to a queued row.
SPECIFICATION FairSpec
CONSTANTS
  t1 = t1  t2 = t2  w1 = w1  w2 = w2
  Tasks = {t1, t2}
  Writers = {w1}
  Mutations <- MCMutations
  DirtyMutation <- MCDirty
  Delays <- MCDelays
  MaxAttempts = 2
  MaxEntries = 2
  MaxClock = 1
  MaxCrashes = 1
  MaxFaults = 1
INVARIANTS TypeOK SingleInflight EffectsCapped
PROPERTIES OrderedEffects EventuallyResolved RefinesMailbox
CHECK_DEADLOCK FALSE
