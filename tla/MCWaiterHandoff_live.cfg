SPECIFICATION FairSpec
CONSTANTS
  t1 = t1
  t2 = t2
  t3 = t3
  Thread = {t1, t2, t3}
  Share <- MCShare
  ShareBase = 4
  PartitionOf <- MCPartitionOf
  Delayed = {"live"}
  MaxDelayedThreads = 1
  BacklogSize = 2
  IdMod = 2
  InitialLimit = 1
  SettableTo = {0, 2}
INVARIANTS TypeOK NoSlotLost OwnSlotCompleted NoDanglingWaiter ReleaseWakesParked
PROPERTIES ServedInOrder DeliveredSlotIsReturned EveryCallReturns
