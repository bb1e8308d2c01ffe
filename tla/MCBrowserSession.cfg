SPECIFICATION Spec
CONSTANTS
  Tabs = {t1, t2}
  Nobody = Nobody
  MaxInFlight = 2
  MaxVisits = 3
  MaxSignIns = 1
  MaxExpiries = 1
  MaxFaults = 1
INVARIANTS ToldOnlyIfEnded SignOutHolds ForgottenWhenLeft
SYMMETRY Symmetry
CHECK_DEADLOCK FALSE
