\* Two tasks, two repos, three commands besides create and stage, and two
\* incidents: a retried promote against a competing one, an adoption with a
\* twin issue, a transfer that is killed or moved on, an unusual command last.
SPECIFICATION Spec
CONSTANTS
  t1 = t1  t2 = t2  a = a  b = b  x = x  y = y  None = None
  Tasks = {t1, t2}
  Repos = {a, b}
  Texts = {x, y}
  MaxNumber = 2
  MaxCommands = 3
  MaxIncidents = 2
SYMMETRY Symmetry
INVARIANTS TypeOK HomeIsStable OneTaskPerIssue FiledIsTracked
CHECK_DEADLOCK FALSE
