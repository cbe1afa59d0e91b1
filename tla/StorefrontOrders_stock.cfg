SPECIFICATION Spec
CONSTANTS
  Orders = {o1, o2}
  o1 = o1
  o2 = o2
  Products = {p}
  p = p
  Calls = {c1, c2}
  c1 = c1
  c2 = c2
  MaxStock = 2
  MaxQty = 2
INVARIANT ConfirmedIsDecremented
CHECK_DEADLOCK FALSE
