SPECIFICATION Spec
CONSTANTS
  Wallets = {w1}
  Pools = {p1, p2}
  MaxPositions = 2
  MaxMirrored = 2
  MaxRecords = 1
  MirrorRecenter = TRUE
  Faults = {"gate_read", "degraded_poll", "outside_close"}
  Edits = {"add", "remove", "enable", "disable"}
  MaxEntries = 2
  MaxDeploys = 2
  MaxEdits = 2
  MaxAborts = 1
SYMMETRY Symmetry
PROPERTIES NoBackfill NoDoubleExposure OpenMirrorKept
CHECK_DEADLOCK FALSE
