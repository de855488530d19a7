CONSTANTS
  l1 = l1
  l2 = l2
  Launches = {l1, l2}
  GuestsAre <- OneIsAGuest
  Modes = {"default", "client"}
  Method = "task"
  Exclusive = TRUE
  Failing = {"activate"}
  MaxFaults = 1
SPECIFICATION FairSpec
INVARIANTS HeldOnce OffOnlyUnwatched
PROPERTIES ReadyMeansOn LastOneTurnsItOff OthersComeBack
CHECK_DEADLOCK FALSE
