SPECIFICATION SwimFairSpec
CONSTANTS
  n1 = n1
  n2 = n2
  n3 = n3
  Member <- MCMember
  Seeds <- MCSeeds
  Prober = {n1}
  MaxInFlight = 1
  MaxCrashes = 1
INVARIANT AccusedTimedOut
PROPERTY CrashNoticed
CHECK_DEADLOCK FALSE
