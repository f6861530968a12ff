CONSTANTS
  Images = {v1, v2, misplaced, hangs, unrelocatable}
  NoImage = NoImage
  NoRecord = NoRecord
  GenerationModulus = 64
  FlashErrors = FALSE
  SlotErrors = TRUE
  BeginWhilePending = FALSE
  BadVectors = {misplaced}
  BadRelocation = {unrelocatable}
  Unhealthy = {hangs}
  LastActivation = 4
SPECIFICATION FairSpec
INVARIANTS
  DeviceInv
  ConfirmedImageIntact
  StartsAreOnRecord
  PendingIsValidated
PROPERTIES
  RecordIsNeverLost
  ConfirmsOnlyItself
  StaysProvisioned
  Settles
