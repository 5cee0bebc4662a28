CONSTANTS
  BarInterval = 8
  MarkInterval = 4
  FundingInterval = 16
  FundingTolerance = 2
  MarkMaxAge = 4
  WindowEnd = 96
  MonthLength = 48
  DayLength = 16
  FillDays <- MCFillDays
  AllowedGaps <- MCAllowedGaps
  OnlyDaily <- MCOnlyDaily
  Lookback = 4
  Horizon = 2
  FundingWindow = 32
  FundingMaxAge = 16
  Windows <- MCWindows
  Splits <- MCSplits
  Crosscheck <- MCCrosscheck
  Drifts <- MCDrifts
  MaxFaults = 2
SPECIFICATION Spec
INVARIANTS TypeOK AcceptedIsWhole NoSilentGap PublishedRowsAreReference
           EngineAgrees SettledDataIsUsable NoLabelCrossesBoundary RetainedBounded
CHECK_DEADLOCK FALSE
