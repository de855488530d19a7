SPECIFICATION FairSpec
CONSTANTS
  OneId = i1
  Ids = {i1}
  Lines = {l1, l2}
  Browsers = {b1, b2}
  FirstLine = l1
  FirstBrowser = b1
  LineId <- AllOnOneId
  WantedId <- AllWantOneId
  MaxSessions = 1
  NoLine = NoLine
INVARIANTS TypeOK NobodyStranded NoPlaceLeaked NewestLineIsReached EndIsOnItsWay
PROPERTIES ActsAsASwitchboard
ACTION_CONSTRAINT FirstComesFirst
CHECK_DEADLOCK FALSE
