SPECIFICATION Spec
CONSTANTS
  Slots = {s1, s2}
  Workers = {1, 2}
  Apps = {1}
  Heights = {720}
  Codecs = {FALSE}
  kMaxFailures = 2
  Happens = {"ownerStops", "launchFails", "joinsReplace", "joinsOverlap", "joinRefused", "leaveWhileJoining", "sentAway"}
  None = None
INVARIANTS NobodyMeansIdle
SYMMETRY TwoSlots
