SPECIFICATION Spec
CONSTANTS
  Positions = {x1}
  Hands = {"telegram"}
  Smart = TRUE
  Faults = {"read_lag", "partial_write", "file_read", "append_fails", "outside_close", "outside_open"}
  MaxFlips = 1
  MaxCrashes = 1
INVARIANTS RowPerWriter
CHECK_DEADLOCK FALSE
