SPECIFICATION Spec
CONSTANTS
  c1 = c1
  c2 = c2
  c3 = c3
  Call = {c1, c2, c3}
  Threads = 1
  Context = {"live", "batch", "other"}
  Resolvers <- TwoResolvers
  Share <- QuarterAndHalf
  ShareBase = 4
  Delayed = {}
  MaxDelayedThreads = 1
  InitialLimit = 2
  SettableTo = {}
  AdaptsTo = {}
SYMMETRY Symmetry
INVARIANT ConfinedByGlobalCap
