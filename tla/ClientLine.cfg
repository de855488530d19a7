CONSTANTS
  CanPin = {FALSE, TRUE}
  Stalled = {"IPv6"}
  QuickRestart = FALSE
  ReclaimAfter = 2
  MaxRedraws = 2
  MaxFaults = 3
  MaxToggles = 2
SPECIFICATION FairSpec
INVARIANTS NeverStuck EveryAttemptCountsOnce
PROPERTIES OurIdIsKept ComesBack
CHECK_DEADLOCK FALSE
