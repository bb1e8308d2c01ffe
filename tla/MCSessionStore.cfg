SPECIFICATION FairSpec
CONSTANTS
  Clients = {c1, c2}
  Tokens = {1, 2, 3, 4}
  Links = {11, 12, 13, 14}
  Nothing = Nothing
  MaxOps = 4
  MaxFaults = 1
INVARIANTS OneTokenPerSession LinkUsedOnce ResetEndsSessions OneLink
PROPERTIES RequestsAnswered
CHECK_DEADLOCK FALSE
