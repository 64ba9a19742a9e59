SPECIFICATION Spec
CONSTANTS
  Angles <- MCAngles
  Widths <- MCWidths
  KickWidth = 1
  Duration = 8
  MaxGap = 1
  MinHalfCycle = 3
  MinZeroToPeak = 2
  ConfirmSamples = 2
  SolverMayFail = TRUE
  MaxRuns = 2
INVARIANTS
  MotorFollowsPulse
  NeverStuck
  HalfCyclesInOrder
PROPERTIES
  PeakOnCommandedSide
CHECK_DEADLOCK FALSE
