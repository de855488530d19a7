CONSTANTS
  Ids = {i1, i2}
  Owners = {o1}
  Nobody = Nobody
  Requests = {r1, r2}
  Timers = {t1}
  Expires = TRUE
  Settings <- GoodDisk
SPECIFICATION FairSpec
INVARIANTS OneIdPerOwner
PROPERTIES AcceptedReachesDisk
CHECK_DEADLOCK FALSE
