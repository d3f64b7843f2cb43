CONSTANTS
  t1 = t1
  t2 = t2
  t3 = t3
  t4 = t4
  t5 = t5
  Task = {t1, t2, t3, t4, t5}
  Op = {"create", "createWith", "edit", "editOrCreate", "pull", "pullOrCreate", "remove"}
  historyPerBlock = 2
  CompactAt = {3}
  pullWindow = 1
SPECIFICATION Spec
SYMMETRY Symmetry
CHECK_DEADLOCK FALSE
INVARIANTS
  LatestIsWholeLog
  HistoryReplays
  PullCatchesUp
