SPECIFICATION FairSpec
CONSTANTS
  Valve = {v1}
  Config <- MCConfigs
  Default <- MCDefault
  Corrupt = Corrupt
  Packet <- MCPackets
  NoPacket = NoPacket
  Byte = 4
  CountRange = 32
  MaxTicks = 2
  MaxCounts = 4
  MaxPackets = 2
  MaxRestarts = 1
  MaxDuds = 1
INVARIANTS
  TypeOK
  StateIsTruth
  OpenValvesExpire
  RevertsUnsaved
  AsleepHears
PROPERTIES
  ClosesOnlyWhenSilent
  SleepsAgain
CHECK_DEADLOCK FALSE
