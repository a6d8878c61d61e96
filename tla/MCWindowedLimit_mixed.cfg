SPECIFICATION Spec
CONSTANTS
  t1 = t1
  t2 = t2
  Thread = {t1, t2}
  Samples <- Mixed
  MinRttThreshold = 2
  MinWindowTime = 1
  MaxWindowTime = 1
  WindowSize = 1
  Infinite = 99
  Ends = {1, 3, 5}
  MaxSamples = 3
SYMMETRY Symmetry
INVARIANTS TypeOK NoSampleCountedTwice ResetsInactiveSlot ReportIsAggregate
PROPERTY OncePerWindow
CHECK_DEADLOCK FALSE
