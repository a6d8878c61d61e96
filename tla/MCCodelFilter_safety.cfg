SPECIFICATION Spec
CONSTANTS
  Target = 1
  Interval = 2
  CountMod = 4
  Sojourns <- MCSojourns
  Advances <- MCAdvances
  MaxTime = 42
  MaxDrops = 6
INVARIANTS TypeOK EpisodeAccounting
PROPERTY DropsOnlyStandingDelay
