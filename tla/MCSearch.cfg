\* Two processes, a task, two texts and two models: edits while searches and
\* rebuilds overlap, a failure, chunk ids that return.
SPECIFICATION FairSpec
CONSTANTS
  t1 = t1  t2 = t2  x = x  y = y  f = f  g = g  p1 = p1  p2 = p2  NoProfile = NoProfile
  Tasks = {t1}
  Contents = {x, y}
  Procs = {p1, p2}
  Profiles = {f, g}
  Pinned <- MCPinned
  Segments <- MCSegments
  Batch = 1
  MaxEdits = 1
  MaxCommands = 2
  MaxFaults = 2
INVARIANTS IndexIsSound AnswersAreSound
PROPERTY CommandsEnd
CHECK_DEADLOCK FALSE
