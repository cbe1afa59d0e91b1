SPECIFICATION PartsSpec
CONSTANTS
  Tasks = {t1, t2, t3, t4}
  t1 = t1
  t2 = t2
  t3 = t3
  t4 = t4
  Accounts = {a1, a2}
  a1 = a1
  a2 = a2
  NoTask = NoTask
  Orders = {o1, o2}
  o1 = o1
  o2 = o2
  Requests = {r1, r2, r3}
  r1 = r1
  r2 = r2
  r3 = r3
  Faults = {"crash", "lostReply", "store"}
  Replicas = {j1, j2}
  j1 = j1
  j2 = j2
  Admins = {m1, m2}
  m1 = m1
  m2 = m2
  PastDueDays = 1
  GraceDays = 2
  TrialDays = 1
  Month = 3
  Dates = {3}
  Extensions = {3}
  MaxDay = 3
  MaxEvents = 2
INVARIANT RecordedWasSent
INVARIANT HeldSentOnlyByApprover
INVARIANT SubmittedAtMostOnce
INVARIANT QuietRowsAgreeWithPortal
INVARIANT PendingHasWorker
INVARIANT MutualExclusion
INVARIANT NoLeak
INVARIANT ManualSuspensionHolds
PROPERTY SettledStaysSettled
PROPERTY PendingResolves
PROPERTY EveryCallRuns
PROPERTY IsTicketLock
PROPERTY JobKeepsState
PROPERTY StoredCatchesUp
CHECK_DEADLOCK FALSE
