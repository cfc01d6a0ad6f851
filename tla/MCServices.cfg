\* Two workspaces with a checkout each: the grace of one runs while the other's
\* pass ends, a directory returns and goes again, and a command or a failure falls
\* into a tick. Two origins with one derived prefix and two commands at a time. A
\* daemon with a panic, a kill and a stop. Four control commands with two failed or
\* killed ones on each platform.
SPECIFICATION ServicesSpec
CONSTANTS
  w1 = w1  w2 = w2  i1 = i1  i2 = i2  p = p  a = a  b = b  p1 = p1  p2 = p2
  Workspaces = {w1, w2}
  Instances = {i1, i2}
  Paths = {p}
  WsOf <- MCWsOf
  Grace = 2
  MaxCommands = 1
  MaxDisk = 2
  MaxFaults = 1
  RegUrls = {a, b}
  RegWorkspaces = {w1, w2}
  RegProcs = {p1, p2}
  Words = {"rpl", "nm"}
  DerivedWord <- MCDerivedWord
  NameWord <- MCNameWord
  Suffixes = {0}
  RegCommands = 3
  RegFaults = 1
  Interval = 1
  RunFaults = 2
  RunToggles = 2
  Manifests = {"v1", "v2"}
  UnitCommands = 4
  UnitFaults = 2
INVARIANTS WorktreesAreSound DaemonIsSound ControlIsSound
PROPERTIES RegistryIsSound ServicesProgress
CHECK_DEADLOCK FALSE
