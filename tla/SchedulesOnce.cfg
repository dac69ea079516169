SPECIFICATION LiveSpec
CONSTANTS
  t1 = t1
  t2 = t2
  w1 = w1
  w2 = w2
  acc = acc
  None = None
  Accounts = {acc}
  Owner <- OneAccount
  Workers = {w1, w2}
  Tasks = {t1}
  Once = {t1}
  Scanners = {s1, s2}
  LockTTL = 1
  Window = 0
  StaleAfter = 1
  Visibility = 2
  Limit = 2
  MaxFailures = 2
  MaxRuns = 2
  MaxQueued = 2
  MaxCrashes = 1
  Restorable = {}
  Recyclable = {acc}
INVARIANTS
  OnceNeverRepeats
PROPERTIES
  OnceDelivered
  RunsClosed
CHECK_DEADLOCK FALSE
