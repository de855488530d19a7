CONSTANTS
  k = k
  h = h
  b = b
  g = g
  Keys = {k, h}
  HoldKeys = {h}
  Buttons = {b}
  Pads = {g}
  Gaming = TRUE
  OwnThread = FALSE
  ForwardsRepeats = FALSE
  MayRevoke = TRUE
  MaxQueue = 1
SPECIFICATION FairSpec

INVARIANTS TrackedIsHeld RevokedHoldsNothing
PROPERTIES HeldComesBack NothingOutlivesTheLink
CHECK_DEADLOCK FALSE
