SPECIFICATION RedisSpec
CONSTANTS
  Clients = {c1}
  Watched = c1
  Requests = {q1, q2}
  Nobody = Nobody
  Burst = 1
  Period = 2
  Idle = 3
  Stall = 1
  MaxTime = 6
  MaxAnswers = 3
  Skew = 1
  Delay = 1
  Absent = Absent
  MaxTaken = 3
INVARIANT RedisBounded
PROPERTIES ImplementsTokenBucket TurnedAwayOnlyWhenSpent
CHECK_DEADLOCK FALSE
SYMMETRY Symmetry
