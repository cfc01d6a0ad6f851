\* Relations: two issue-backed tasks and a draft, a stranger, a one-sided row of an
\* older version. Comments: two texts, two issues and two commands at a time.
\* Paging: lists around a cap of two pages of two. Cascade: trees of four issues,
\* one level deeper than the limit, and two imports. Ids: two tasks and two repos of
\* an old version, fewer short hashes than tasks, two processes.
SPECIFICATION MirrorSpec
CONSTANTS
  t1 = t1  t2 = t2  t3 = t3  p1 = p1  p2 = p2  c1 = c1  c2 = c2  i1 = i1  i2 = i2
  Tasks = {t1, t2, t3}
  Strangers = {u}
  Filed0 = {t1, t2}
  LegacyRows <- SomeLegacyRows
  UsedKinds = {"BlockedBy", "Blocks", "ParentOf"}
  Procs = {p1}
  Overlap = FALSE
  MaxCommands = 2
  MaxPulls = 1
  MaxRemoteEdits = 1
  MaxFaults = 1
  MaxTotal = 4
  Texts = {c1, c2}
  CommentIssues = {i1, i2}
  CommentProcs = {p1, p2}
  CommentCommands = 3
  CommentFaults = 1
  ForeignComments = 1
  PerPage = 2
  MaxPages = 2
  ListChanges = 3
  Size = 4
  MaxDepth = 2
  Importers = {p1, p2}
  ImportRuns = 3
  ImportFaults = 1
  IdTasks = {t1, t2, t3}
  Legacy = {t1, t2}
  IdOrigins = {"o1", "o2"}
  BaseWord <- SameWord
  IdProcs = {p1, p2}
  HashesPerLength = 2
  MinHashLen = 1
  MaxHashLen = 2
  RetriesAtLength = 2
  IdCommands = 2
  IdFaults = 1
INVARIANTS RelationsAreSound CommentsAreSound ListsAreWhole CascadeIsSound
PROPERTIES MirrorSteps IdsAreSound
SYMMETRY Symmetry
CHECK_DEADLOCK FALSE
