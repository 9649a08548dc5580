SPECIFICATION FairSpec
CONSTANTS
  Positions = {x1, x2}
  Hands = {}
  Smart = FALSE
  Faults = {"partial_write", "outside_close", "outside_open", "append_fails"}
  MaxFlips = 0
  MaxCrashes = 1
INVARIANTS RowOnce ClosedIsGone
PROPERTIES RowsSettle
CHECK_DEADLOCK FALSE
