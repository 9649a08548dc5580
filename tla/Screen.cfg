CONSTANTS
  Pools = {p1}
  Handlers = {"b1", "b2"}
  Chats = {}
  Companies <- MCCompanies
  MaxPositions = 1
  Funds = 4
  Reserve = 1
  Faults = {"lost_confirmation", "discovery", "model_down"}
  MaxCycles = 1
  MaxDeploys = 3
  MaxSteps = 2
SPECIFICATION FairSpec
INVARIANTS OnePerCycle CapOvershoot DeclineIsTrue LandedIsLogged

CHECK_DEADLOCK FALSE
PROPERTY CycleEnds
