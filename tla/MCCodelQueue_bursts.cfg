SPECIFICATION QSpec
CONSTANTS
  Target = 1
  Interval = 3
  CountMod = 16
  Sojourns = {}
  Advances <- MCAdvances
  MaxTime = 12
  MaxDrops = 4
  MaxQueue = 2
PROPERTY BurstsAreSpared
CHECK_DEADLOCK FALSE
