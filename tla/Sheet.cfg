SPECIFICATION Spec
CONSTANTS
  Requests = {r1, r2}
  Criteria = {k1, k2}
  Scores = {1, 2}
  Weights = {1, 2}
  Mutations = {m1, m2}
  None = None
  MaxStarted = 3
  MaxResets = 1
SYMMETRY Interchangeable
INVARIANTS TotalsAgree
PROPERTIES ReplacesWhatItSaw
CHECK_DEADLOCK FALSE
