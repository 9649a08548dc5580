SPECIFICATION Spec
CONSTANTS
  Wallets = {w1, w2}
  Pools = {p1, p2}
  MaxPositions = 2
  MaxMirrored = 1
  MaxRecords = 2
  MirrorRecenter = TRUE
  Faults = {"partial_write", "gate_read"}
  Edits = {}
  MaxEntries = 3
  MaxDeploys = 3
  MaxEdits = 0
  MaxAborts = 1
SYMMETRY Symmetry
INVARIANTS MirrorCap PortfolioCap
PROPERTIES FailedWriteNotRetried
CHECK_DEADLOCK FALSE
