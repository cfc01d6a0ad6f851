\* Operations one after the other, a remote edit, a rollback and a fault.
SPECIFICATION Spec
CONSTANTS
  c1 = c1  c2 = c2  x = x  y = y  p = p  q = q
  Clis = {c1}
  Texts = {x, y}
  Assignees = {p, q}
  Overlap = FALSE
  DropsAssignees = FALSE
  MaxAttempts = 2
  MaxCommands = 3
  MaxRemoteEdits = 1
  MaxRebaselines = 0
  MaxRollbacks = 1
  MaxFaults = 2
SYMMETRY Symmetry
INVARIANTS TypeOK BaselineWasRemote CleanMeansAligned OwedPush StateIsTrue
