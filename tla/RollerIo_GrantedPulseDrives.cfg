SPECIFICATION AuditSpec
CONSTANTS
  Currents <- MCCurrents
  QueueLen = 4
  ErrorLimit = 3
  MaxFaults = 1
  PulseDiscipline = TRUE
INVARIANT GrantedPulseDrives
