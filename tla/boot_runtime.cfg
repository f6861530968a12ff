SPECIFICATION Spec
CONSTANTS
  Images <- MCImages
  Base <- MCBase
  SlotSize = 24
  Outside = 255
  BootRam = 251
  RamStart = 128
  RamEnd = 144
  GotAddr = 136
  GotWords = 1
  VectorWords = 3
  MaxAttempts = 1
  MaxResets = 2
INVARIANTS
  RuntimeInv
  TablesAreRebased
  RunsInItsSlot
  AppKnowsItself
PROPERTIES
  OutcomeIsTheImages
CHECK_DEADLOCK FALSE
