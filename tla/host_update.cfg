CONSTANTS
  Images <- MCImages
  EnterTries = 5
  DiscoverTries = 3
  MaxRuns = 3
  MaxFaults = 3
SPECIFICATION FairSpec
INVARIANTS
  SuccessIsReal
  HostInv
PROPERTIES
  RetrySucceeds
CHECK_DEADLOCK FALSE
