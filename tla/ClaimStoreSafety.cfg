CONSTANTS
  Ids = {i1, i2}
  Owners = {o1, o2}
  Nobody = Nobody
  Requests = {r1, r2}
  Timers = {t1}
  Expires = TRUE
  Settings <- Failing
SPECIFICATION Spec
SYMMETRY Symmetry
INVARIANTS WithinCap SeenIdIsKept CleanMeansWritten
PROPERTIES ActsAsARegister
CHECK_DEADLOCK FALSE
