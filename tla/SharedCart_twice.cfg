SPECIFICATION Spec
CONSTANTS
  Tabs = {t1, t2}
  t1 = t1
  t2 = t2
  Lines = {x}
  x = x
  Orders = {o1}
  o1 = o1
  Workers = {w1, w2}
  w1 = w1
  w2 = w2
  MaxEdits = 1
  MaxQty = 2
  Faults = {}
INVARIANT TakenWasOrdered
CHECK_DEADLOCK FALSE
