CONSTANTS
  Modulus = 11
  WatchdogTimeout = 3
  Stabilization = 4
  CommitErrors = TRUE
SPECIFICATION FairSpec
INVARIANTS
  LoopInv
PROPERTIES
  ConfirmsAfterStablePeriod
  ResetsForAReason
  SickIsReset
  HealthyIsConfirmed
