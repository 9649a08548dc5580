SPECIFICATION FairSpec
CONSTANTS
  Wallets = {w1}
  Pools = {p1}
  MaxPositions = 2
  MaxMirrored = 1
  MaxRecords = 1
  MirrorRecenter = TRUE
  Faults = {"gate_read", "degraded_poll", "outside_close", "partial_write", "screener"}
  Edits = {"remove", "disable", "switch"}
  MaxEntries = 2
  MaxDeploys = 2
  MaxEdits = 1
  MaxAborts = 0
PROPERTIES StrandedMirrorResolved
CHECK_DEADLOCK FALSE
