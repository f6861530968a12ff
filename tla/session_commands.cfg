CONSTANTS
  Images <- MCImages
  NoImage = NoImage
  NoRecord = NoRecord
  GenerationModulus = 64
  Blank = Blank
  Garbled = Garbled
  Values = {0, 1}
  SlotUnits = 4
  PageUnits = 2
  MaxBlock = 2
  BadVectors <- MCBadVectors
  EraseErrors = TRUE
  WriteErrors = TRUE
  Records <- MCRecords
  LastActivation = 2
SPECIFICATION Spec
INVARIANTS
  SessionInv
  CandidateIsAnnounced
  PendingIsWhole
PROPERTIES
  ConfirmedSlotUntouched
