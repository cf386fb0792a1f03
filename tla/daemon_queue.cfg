SPECIFICATION FairSpec
CONSTANTS
  r1 = r1 r2 = r2 r3 = r3 NotMade = NotMade
  Request = {r1, r2, r3} Libraries = 2
INVARIANTS ShutdownCancels CancelIsAimed LastScanComplete HookedIsComplete
PROPERTIES ServiceSpec EveryRequestCloses ShutdownStops
CHECK_DEADLOCK FALSE
