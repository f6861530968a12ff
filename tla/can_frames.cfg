CONSTANTS
  Packets <- MCPackets
  FirstChunk = 1
  NextChunk = 2
  MinLength = 3
  MaxLength = 5
  MaxPackets = 3
  MaxFaults = 2
SPECIFICATION CanSpec
INVARIANTS
  DeliversUnbroken
  CanInv
  DeliversWhatWasSent
  DeliversAllWithoutFaults
CHECK_DEADLOCK FALSE
