SPECIFICATION AuditSpec
CONSTANTS
  Currents <- MCCurrents
  QueueLen = 4
  ErrorLimit = 3
  MaxFaults = 3
  PulseDiscipline = TRUE
INVARIANTS
  ChargeOfOnePulse
  RecordMatchesDevice
  OffAfterStopPass
  QueueHasRoom
PROPERTIES
  StopTurnsMotorOff
  Recovers
