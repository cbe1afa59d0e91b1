SPECIFICATION PartsSpec
CONSTANTS
  Orders = {o1, o2}
  o1 = o1
  o2 = o2
  Products = {p}
  p = p
  Calls = {c1, c2}
  c1 = c1
  c2 = c2
  MaxStock = 2
  MaxQty = 2
  Imports = {i1, i2}
  i1 = i1
  i2 = i2
  Codes = {a, b}
  a = a
  b = b
  Workers = {w1, w2}
  w1 = w1
  w2 = w2
  MayOverlap = FALSE
  People = {ana, juan}
  ana = ana
  juan = juan
  Unknown = Unknown
  LastLine = 2
  Online = {1, 2}
  MaxUnits = 2
  MaxOrders = 1
SYMMETRY Symmetry
INVARIANT AnsweredWasApproved
INVARIANT StoreHears
INVARIANT DecrementedOnce
INVARIANT ListIsWhole
INVARIANT RevertsGoBack
INVARIANT SharesAddUp
PROPERTY AnswersStay
PROPERTY NobodysShareGrows
CHECK_DEADLOCK FALSE
