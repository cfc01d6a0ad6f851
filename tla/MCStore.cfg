\* The board: one task, two boards, three commands besides a detach, a failed or
\* unanswered call and a crash of the daemon.  The rows of one task: two commands
\* that overlap and a targeted write.  Two workspaces and two projects under four
\* commands of two processes, two auths or claims, five commands on the
\* model cache with two faults, and a log of four segments with a truncated one.
SPECIFICATION DiskSpec
CONSTANTS
  t1 = t1  a = a  b = b
  Tasks = {t1}
  Projects = {a, b}
  Detached = Detached
  Column <- SomeColumns
  MaxAttempts = 2
  MaxCommands = 3
  MaxDetaches = 1
  MaxFaults = 1
  MaxCrashes = 1
  Texts = {"x", "y"}
  People <- SomePeople
  IssueTypes = {"bug"}
  Repos = {"r", "s"}
  Issues = {"i1"}
  Options = {"todo"}
  AggProcs = {1, 2}
  AggCommands = 2
  AggWrites = 1
  Boards <- SomeBoards
  ProjectIds = {"p", "q"}
  WorkspaceIds = {"u", "v"}
  Names = {"n", "m"}
  OrgTypes = {"Bug"}
  StoreProcs = {1, 2}
  StoreCommands = 4
  Tokens = {"tokA", "tokB"}
  LoginOf <- SomeLogins
  TokenProcs = {1, 2}
  TokenCommands = 2
  Artifacts = 2
  Preparers = {"p1", "p2"}
  Loaders = {"l1", "l2"}
  CacheCommands = 5
  CacheFaults = 2
  TailLines = 1
  MaxLines = 5
  MaxSegments = 4
  MaxCuts = 1
INVARIANTS CardsAreSound FilesAreSound
PROPERTIES CardIsAdded StoresAreSound
CHECK_DEADLOCK FALSE
