\* An edit while the drainer pushes the one before it.
SPECIFICATION Spec
CONSTANTS
  c1 = c1  c2 = c2  x = x  y = y  p = p  q = q
  Clis = {c1}
  Texts = {x, y}
  Assignees = {p, q}
  Overlap = TRUE
  DropsAssignees = FALSE
  MaxAttempts = 2
  MaxCommands = 2
  MaxRemoteEdits = 0
  MaxRebaselines = 0
  MaxRollbacks = 0
  MaxFaults = 0
SYMMETRY Symmetry
PROPERTY DaemonKeepsContent
