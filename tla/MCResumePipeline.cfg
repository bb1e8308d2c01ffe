SPECIFICATION MCSpec
CONSTANTS
  Ids = {r1, r2}
  Files = {f1, f2}
  Requests = {q1, q2}
  Nothing = Nothing
  MaxOps = 3
  MaxFaults = 1
  r1 = r1
  r2 = r2
  f1 = f1
INVARIANTS CurrentMeansSameData PendingHasOwner OneActive
PROPERTIES ExtractionsSettle
CHECK_DEADLOCK FALSE
