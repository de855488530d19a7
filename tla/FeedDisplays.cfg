SPECIFICATION Spec
CONSTANTS
  Slots = {s1, s2}
  Workers = {1, 2}
  Apps = {1, 2}
  Heights = {720}
  Codecs = {TRUE, FALSE}
  kMaxFailures = 2
  Happens = {"ownerStops", "sentAway"}
  None = None
INVARIANTS FeedSuitsItsGuests WatchedIsCounted CountedIsComing
PROPERTIES GuestsKeepTheirPipe
SYMMETRY TwoSlots
