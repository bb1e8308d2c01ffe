SPECIFICATION FairSpec
CONSTANTS
  Loops = {r1, r2}
  MaxSends = 2
  Window = 3
  Base = 2
  MaxDelay = 3
  MaxEdits = 4
  MaxErrors = 2
INVARIANTS OneLoop RateBounded NewestInHand SavedIsStored
PROPERTIES SavingEnds
CHECK_DEADLOCK FALSE
