SPECIFICATION FairSpec
CONSTANTS
  Slots = {s1, s2}
  Workers = {1, 2}
  Apps = {1}
  Heights = {720, 1080}
  Codecs = {FALSE}
  kMaxFailures = 2
  Happens = {"sentAway"}
  None = None
INVARIANTS OneFeedPerPipe WaitIsNotInVain
PROPERTIES FeedComesBack
