SPECIFICATION Spec
CONSTANTS
  t1 = t1
  t2 = t2
  Thread = {t1, t2}
  Samples <- Uniform
  MinRttThreshold = 1
  MinWindowTime = 2
  MaxWindowTime = 3
  WindowSize = 1
  Infinite = 99
  Ends = {1, 3}
  MaxSamples = 3
INVARIANT MeanOfWholeSamples
CHECK_DEADLOCK FALSE
