SPECIFICATION Spec
CONSTANTS
  t1 = t1
  t2 = t2
  old = old
  new = new
  Nothing = Nothing
  Tasks = {t1, t2}
  Payloads = {old, new}
  WARM_UP_ATTEMPTS = 5
  MaxLoads = 2
  MaxFailures = 0
  MaxRestarts = 0
CHECK_DEADLOCK FALSE
INVARIANT KeptUpToDate
