SPECIFICATION Spec
CONSTANTS
  Tabs = {t1, t2}
  t1 = t1
  t2 = t2
  Lines = {x}
  x = x
  Orders = {o1}
  o1 = o1
  Workers = {w1}
  w1 = w1
  MaxEdits = 2
  MaxQty = 2
  Faults = {"lostRequest", "reload"}
SYMMETRY Symmetry
INVARIANT NothingComesBack
CHECK_DEADLOCK FALSE
