SPECIFICATION FairSpec
CONSTANTS
  t1 = t1
  t2 = t2
  old = old
  new = new
  Nothing = Nothing
  Tasks = {t1, t2}
  Payloads = {old, new}
  WARM_UP_ATTEMPTS = 3
  MaxLoads = 3
  MaxFailures = 3
  MaxRestarts = 1
CHECK_DEADLOCK FALSE
INVARIANT TypeOK
INVARIANT UpToDate
PROPERTY WritesOnlyChanges
PROPERTY StartUpPublishes
