\* What eventually happens to an edit; operations one after the other.
SPECIFICATION FairSpec
CONSTANTS
  c1 = c1  c2 = c2  x = x  y = y  p = p  q = q
  Clis = {c1}
  Texts = {x, y}
  Assignees = {p, q}
  Overlap = FALSE
  DropsAssignees = TRUE
  MaxAttempts = 2
  MaxCommands = 2
  MaxRemoteEdits = 1
  MaxRebaselines = 1
  MaxRollbacks = 0
  MaxFaults = 2
PROPERTY EventuallyPushed
