SPECIFICATION Spec
CONSTANTS
  c1 = c1
  c2 = c2
  c3 = c3
  c4 = c4
  c5 = c5
  Call = {c1, c2, c3, c4, c5}
  Threads = 2
  Context = {"live", "batch", "other"}
  Resolvers <- TwoResolvers
  Share <- QuarterAndHalf
  ShareBase = 4
  Delayed = {1}
  MaxDelayedThreads = 1
  InitialLimit = 2
  SettableTo = {0, 3}
  AdaptsTo = {2}
SYMMETRY Symmetry
INVARIANTS TypeOK SlotsAddUp DelayBudget QuotasFollowCap OverCapBounded
PROPERTIES MinimumShare BurstIntoIdle
