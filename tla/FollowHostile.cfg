SPECIFICATION Spec
CONSTANTS
  Wallets = {w1}
  Pools = {p1}
  MaxPositions = 2
  MaxMirrored = 1
  MaxRecords = 1
  MirrorRecenter = TRUE
  Faults = {"gate_read", "degraded_poll", "read_lag", "partial_write", "file_read", "edit_mid_tick", "outside_close"}
  Edits = {"remove", "switch"}
  MaxEntries = 2
  MaxDeploys = 2
  MaxEdits = 1
  MaxAborts = 1
INVARIANTS CloseIsJustified ClosedMeansGone
CHECK_DEADLOCK FALSE
