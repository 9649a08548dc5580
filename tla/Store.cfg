SPECIFICATION FairSpec
CONSTANTS
  Moving <- MCMoving
  Readers = {"dash"}
  Writers = {"tick"}
  Hands = {"tick", "hand"}
  Authors = {"v", "w"}
  Editor = "w"
  TmpNames = {1, 2}
  ReadFaults = TRUE
  MaxLog = 2
  Ranges <- MCRanges
  Manager = "tick"
  Positions = {"p"}
  Simulated = {"p", "q"}
  Askers = {"dash", "tick"}
  Traders = {"hand"}
  Keys = {"spot", "reseed"}
  Home = "spot"
  SharedNames = FALSE
  Pools = {"a", "b", "c", "d", "e"}
  Lists <- MCLists
  PageSize = 2
  MaxPages = 2
  MaxMoves = 1
  Options = {"sweep", "limit"}
  Values = {"on", "off", "blank", "max"}
  Defaults <- MCDefault
  Rejected = {"max"}
  Latched = {"sweep"}
  Envs <- MCEnvs
  Others = {"sage"}
  MaxEdits = 2
  MaxAsks = 1
  MaxBoots = 1
  Viewed = {"p", "q"}
  MaxWorth = 1
  MaxFaults = 1
  MaxTurns = 2
  MaxTools = 1
INVARIANTS SuccessLanded WholeOnDisk NoFalseExit NoChangeUndone EachAnswered
PROPERTIES ReadsAreTrue LoneWriterIsAtomic PageCatchesUp CloseFinishes
CHECK_DEADLOCK FALSE
