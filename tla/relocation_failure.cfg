CONSTANTS
  Images = {v1, unrelocatable}
  NoImage = NoImage
  NoRecord = NoRecord
  GenerationModulus = 64
  FlashErrors = FALSE
  SlotErrors = FALSE
  BeginWhilePending = FALSE
  BadVectors = {}
  BadRelocation = {unrelocatable}
  Unhealthy = {}
  LastActivation = 1
SPECIFICATION FairSpec
PROPERTIES
  RollsBack
