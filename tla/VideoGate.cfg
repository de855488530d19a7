SPECIFICATION FairSpec
CONSTANTS
  kMaxQueued = 2
  Depths = {1, 2}
  Floor = 0
  MaxWire = 1
  MaxLost = 1
  MaxKeys = 1
INVARIANTS NoWaitBehindAnOpenGate HoleShutsTheGate
PROPERTIES PictureComesBack
