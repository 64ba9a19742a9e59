SPECIFICATION MetadataSpec
CONSTANTS
  Widths <- MCWidths
  KickWidth = 3
  SyncTime = 1
  Duration = 9
  MaxGap = 1
  MinHalfCycle = 3
  AuditPeriod = 2
  LogPeriod = 4
  Capacity = 12
  MaxEvents = 7
  RingSize = 5
  MaxRuns = 2
  HeadSize = 52
  RecordSize = 1
  ProbeSize = 1
  PeakSize = 4
  CrossSize = 5
  PulseSize = 2
  TailSize = 5
  KeySize = 6
  TailReserve = 16
  HardBudget = 106
INVARIANTS
  RoomForEvery
  AuditMatchesEvents
  LogOfOneRun
  PulsesTold
  MetadataTold
CHECK_DEADLOCK FALSE
