SPECIFICATION Spec
CONSTANTS
  t1 = t1
  t2 = t2
  t3 = t3
  g1 = g1
  g2 = g2
  Thread = {t1, t2, t3}
  Guard = {g1, g2}
  InitialLimit = 1
  SettableTo = {0}
  AdaptsTo = {1}
  MaxCalls = 3
SYMMETRY Symmetry
INVARIANTS TypeOK InflightIsReserved EveryCallCountedOnce CapCeiling
PROPERTY ImplementsGate
CHECK_DEADLOCK FALSE
