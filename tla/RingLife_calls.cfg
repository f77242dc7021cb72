\* Two processes come and go, one of them forces the initialisation; one may be killed.
SPECIFICATION FairSpec
CONSTANTS
  Procs = {p1, p2}
  Forcing = {p2}
  StuckLimit = 1
  MaxInits = 4
  MaxUses = 2
  MaxCrashes = 1
INVARIANTS LockExclusive OneRing
PROPERTIES CallsReturn
CHECK_DEADLOCK FALSE
