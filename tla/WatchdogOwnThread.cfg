CONSTANTS
  k = k
  h = h
  b = b
  g = g
  Keys = {k}
  HoldKeys = {}
  Buttons = {b}
  Pads = {}
  Gaming = FALSE
  OwnThread = TRUE
  ForwardsRepeats = TRUE
  MayRevoke = FALSE
  MaxQueue = 2
SPECIFICATION FairSpec

INVARIANTS LetGoMeansUp
PROPERTIES DeadLinkIsNoticed
CHECK_DEADLOCK FALSE
