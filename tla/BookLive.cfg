SPECIFICATION FairSpec
CONSTANTS
  Positions = {x1}
  Hands = {"telegram"}
  Smart = TRUE
  Faults = {"read_lag", "partial_write", "outside_close", "outside_open"}
  MaxFlips = 0
  MaxCrashes = 0
PROPERTIES GhostsEndClosed ClosesRecorded
CHECK_DEADLOCK FALSE
