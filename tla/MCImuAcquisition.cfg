SPECIFICATION StartupSpec
CONSTANTS
  QueueLen = 2
  SeqMod = 10
  Attempts = 2
  WarmAccel = 1
  WarmGyro = 2
INVARIANTS
  RunSamplesKept
  AuditBalances
  NoHalfStart
PROPERTIES
  DeliveredWithoutGap
  NothingReadAway
  TroubleStopsRun
