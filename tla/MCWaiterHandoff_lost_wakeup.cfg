SPECIFICATION Spec
CONSTANTS
  t1 = t1
  t2 = t2
  t3 = t3
  Thread = {t1, t2}
  Share <- MCShare
  ShareBase = 4
  PartitionOf <- MCPartitionOf
  Delayed = {}
  MaxDelayedThreads = 0
  BacklogSize = 2
  IdMod = 4
  InitialLimit = 1
  SettableTo = {}
INVARIANT BlockedOnlyWhenFull
