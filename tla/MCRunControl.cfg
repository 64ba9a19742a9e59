SPECIFICATION RunAuditSpec
CONSTANTS
  MaxRuns = 3
  RecentSize = 2
INVARIANTS
  ExclusiveOwner
  SnapshotIsCurrent
  StopIsForItsRun
  AuditOfOneRun
PROPERTIES
  RunEnds
  ImplementsOwnership
