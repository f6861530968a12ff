CONSTANTS
  Images = {v1, v2}
  NoImage = NoImage
  NoRecord = NoRecord
  GenerationModulus = 64
  FlashErrors = FALSE
  SlotErrors = FALSE
  BeginWhilePending = TRUE
  BadVectors = {}
  BadRelocation = {}
  Unhealthy = {}
  LastActivation = 1
SPECIFICATION Spec
INVARIANTS
  ConfirmedImageIntact
