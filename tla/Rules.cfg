SPECIFICATION FairSpec
CONSTANTS
  Moving <- MCMoving
  Pages <- MCPages
  Contexts <- MCContexts
  Reports <- MCReports
  HolderLists <- MCHolderLists
  Histories <- MCHistories
  Thresholds <- MCThresholds
  Options <- MCOptions
  PickLimit = 2
  KlineLimit = 5
  PnlWarmupMinutes = 1
  MinLowYieldAgeMinutes = 2
  Readings <- MCReadings
  Charts <- MCCharts
  Peaks <- MCPeaks
  Config <- MCConfig
  MaxAge = 2
INVARIANT OfferedIsVetted
PROPERTIES WarmupHolds SoldOnTerms WatchEnds
CHECK_DEADLOCK FALSE
