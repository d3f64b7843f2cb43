CONSTANTS
  t1 = t1
  t2 = t2
  t3 = t3
  t4 = t4
  Task = {t1, t2, t3, t4}
  Op = {"create", "createWith", "edit", "follow", "remove", "gc"}
  Id = {1, 2}
  historyPerBlock = 1
  CompactAt = {2}
  pullWindow = 1
  Reclaim = 1
  MaxTime = 2
  NoSnapshot = NoSnapshot
SPECIFICATION Spec
SYMMETRY Symmetry
INVARIANTS
  OneHolder
  NoEditLost
  HistoryReplays
  PullCatchesUp
  FollowersMissNothing
