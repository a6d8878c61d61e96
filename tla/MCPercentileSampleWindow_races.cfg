SPECIFICATION Spec
CONSTANTS
  w1 = w1
  w2 = w2
  w3 = w3
  Writer = {w1, w2, w3}
  Rtts = {1, 2, 3}
  MaxSamplesPerWindow = 3
  PercentileOver = 1
  PercentileBase = 2
  MaxAdds = 5
SYMMETRY Symmetry
INVARIANTS TypeOK PercentileOfWindow StaleEntriesBounded
