CONSTANTS
  Images = {v1, v2}
  NoImage = NoImage
  NoRecord = NoRecord
  GenerationModulus = 16
  FlashErrors = TRUE
  ChecksResults = TRUE
  MaxGeneration = 5
SPECIFICATION Spec
INVARIANTS
  StoreInv
PROPERTIES
  RecordIsNeverLost
  ImplementsDurableRecord
