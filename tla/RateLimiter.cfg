SPECIFICATION Spec
CONSTANTS
  k1 = k1
  c1 = c1
  c2 = c2
  c3 = c3
  Keys = {k1}
  Calls = {c1, c2, c3}
  Max = 2
  Window = 2
  Lag = 2
  MaxTime = 6
  MaxCount = 4
  MaxRestarts = 1
SYMMETRY MCSymmetry
INVARIANTS TypeOK SlidingCap
PROPERTY RefusalIsEarned
CHECK_DEADLOCK FALSE
