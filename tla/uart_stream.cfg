CONSTANTS
  Sync0 = 9
  Sync1 = 8
  Packets <- MCPackets
  MaxPayload = 4
  NoiseBytes = {4, 8, 9}
  MaxPackets = 4
  MaxFaults = 3
SPECIFICATION StreamSpec
INVARIANTS
  StreamInv
  DeliversWhatWasSent
  Resynchronizes
  RefusesOncePerFault
CHECK_DEADLOCK FALSE
