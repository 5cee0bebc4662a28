SPECIFICATION FairSpec
CONSTANTS
  Instruments = {btc}
  btc = btc
  None = None
  Prices = {2, 4}
  Returns <- MCReturns
  Threshold = 1
  TargetNotional = 4
  MinQuantity = 1
  MinNotional = 4
  EvaluationStart = 0
  EvaluationEnd = 8
  LastTs = 8
INVARIANTS TypeOK OneOrderAtATime PendingXorReversal ExecutedOnce OrdersInWindow
  OrderFitsTick PromptRunAccepted TracksTarget ReplayTradesAlike
PROPERTIES NeverThroughZero FollowsTarget ReversalEnds
CHECK_DEADLOCK FALSE
