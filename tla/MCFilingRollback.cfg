\* A rollback across a transfer: the number of the old issue with the filing
\* repo of the new one.
SPECIFICATION Spec
CONSTANTS
  t1 = t1  t2 = t2  a = a  b = b  x = x  y = y  None = None
  Tasks = {t1, t2}
  Repos = {a, b}
  Texts = {x, y}
  MaxNumber = 2
  MaxCommands = 3
  MaxIncidents = 2
SYMMETRY Symmetry
INVARIANT RollbackKeepsIdentity
CHECK_DEADLOCK FALSE
