SPECIFICATION SubSpec
CONSTANTS
  Replicas = {j1, j2}
  j1 = j1
  j2 = j2
  Admins = {m1}
  m1 = m1
  PastDueDays = 1
  GraceDays = 2
  TrialDays = 1
  Month = 3
  Dates = {3}
  Extensions = {1, 3}
  MaxDay = 6
  MaxEvents = 2
PROPERTY PaidIsOpen
CHECK_DEADLOCK FALSE
