CONSTANTS
  Images = {v1, hangs}
  NoImage = NoImage
  NoRecord = NoRecord
  GenerationModulus = 64
  FlashErrors = TRUE
  SlotErrors = FALSE
  BeginWhilePending = FALSE
  BadVectors = {}
  BadRelocation = {}
  Unhealthy = {hangs}
  LastActivation = 1
SPECIFICATION Spec
PROPERTIES
  ConfirmsOnlyItself
