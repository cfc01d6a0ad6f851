\* Two cards, one type, edits on both sides around two polls of the board.
SPECIFICATION FairSpec
CONSTANTS
  t1 = t1  t2 = t2
  Tasks = {t1, t2}
  Types = {"bug"}
  Option <- MCOption
  PollLimit = 2
  MaxAttempts = 2
  MaxEdits = 2
  MaxRefreshes = 1
  MaxBoardEdits = 2
  MaxFaults = 2
  MaxPolls = 2
  MaxTotal = 3
  MaxClock = 2
INVARIANTS FieldsAgree
PROPERTY TypeArrives
CHECK_DEADLOCK FALSE
