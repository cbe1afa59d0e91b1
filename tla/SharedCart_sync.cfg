SPECIFICATION FairSpec
CONSTANTS
  Tabs = {t1, t2}
  t1 = t1
  t2 = t2
  Lines = {x, y}
  x = x
  y = y
  Orders = {}
  Workers = {}
  MaxEdits = 2
  MaxQty = 2
  Faults = {}
INVARIANT SoleEditorWins
PROPERTY Converges
CHECK_DEADLOCK FALSE
