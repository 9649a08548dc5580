SPECIFICATION Spec
CONSTANTS
  Moving <- MCFunnel
  Pages <- MCOnePage
  Contexts <- MCContexts
  Reports <- MCReports
  HolderLists <- MCHolderLists
  Histories <- MCHistories
  Thresholds <- MCWideThresholds
  Options <- MCOptions
  PickLimit = 1
  KlineLimit = 5
  PnlWarmupMinutes = 1
  MinLowYieldAgeMinutes = 2
  Readings <- MCReadings
  Charts <- MCCharts
  Peaks <- MCPeaks
  Config <- MCConfig
  MaxAge = 2
INVARIANT CapitulationIsRejected
CHECK_DEADLOCK FALSE
