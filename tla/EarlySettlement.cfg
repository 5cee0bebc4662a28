CONSTANTS
  BarInterval = 8
  MarkInterval = 4
  FundingInterval = 16
  FundingTolerance = 2
  MarkMaxAge = 4
  WindowEnd = 96
  MonthLength = 48
  DayLength = 16
  FillDays <- MCFillDays
  AllowedGaps <- MCAllowedGaps
  OnlyDaily <- MCOnlyDaily
  Lookback = 4
  Horizon = 2
  FundingWindow = 32
  FundingMaxAge = 16
  Windows <- MCOneWindow
  Splits <- MCSplits
  Crosscheck <- MCCrosscheck
  Drifts <- MCDrifts
  MaxFaults = 1
SPECIFICATION Spec
INVARIANT ConsumerAcceptsProducer
CHECK_DEADLOCK FALSE
