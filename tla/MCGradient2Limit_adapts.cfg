SPECIFICATION Spec
CONSTANTS
  Scale = 4
  InitialLimits = {1, 5, 12}
  MinLimit = 2
  MaxConcurrency = 9
  QueueSizeFn <- DefaultSqrtQueueSize
  Tolerance <- OneAndAHalf
  Smoothing <- OneFifth
  LongWindow = 9
  WarmupWindow = 2
  Rtts = {0, 1, 8}
  Inflights = {1, 2, 4, 9}
INVARIANTS TypeOK BaselineWithinMeasured
PROPERTIES ShrinksOnlyOnLatency ProbeKeepsFour SettledServerReachesMax
