SPECIFICATION FairSpec
CONSTANT MaxCalls = 4
INVARIANTS TypeOK BuiltAsAsked ObserversReadLiveMembers
PROPERTY LifetimeProgresses
CHECK_DEADLOCK FALSE
