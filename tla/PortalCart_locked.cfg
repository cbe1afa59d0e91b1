SPECIFICATION Spec
CONSTANTS
  Tasks = {t1, t2}
  t1 = t1
  t2 = t2
  Accounts = {elit}
  elit = elit
  NoTask = NoTask
  Codes = {c1, c2}
  c1 = c1
  c2 = c2
  NoSnapshot = NoSnapshot
  Warehouses = {w1, w2}
  w1 = w1
  w2 = w2
  MaxQty = 2
  MaxEdits = 1
  Edits = "betweenTasks"
  Faults = {"noStock", "shortfall", "callFails", "process", "save"}
SYMMETRY Symmetry
INVARIANT NeverVanishes
INVARIANT AlwaysQuietAgain
INVARIANT SentIsRequested
INVARIANT VerifyLeavesWhatItMerged
INVARIANT AddedWasAdded
CHECK_DEADLOCK FALSE
