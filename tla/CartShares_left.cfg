SPECIFICATION SharesSpec
CONSTANTS
  People = {ana, juan}
  ana = ana
  juan = juan
  Unknown = Unknown
  LastLine = 1
  Online = {1}
  MaxUnits = 2
  MaxOrders = 1
PROPERTY TheRestStays
CHECK_DEADLOCK FALSE
