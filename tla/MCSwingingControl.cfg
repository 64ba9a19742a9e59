SPECIFICATION ShadowSpec
CONSTANTS
  Angles <- MCAngles
  Widths <- MCWidths
  KickWidth = 4
  Duration = 60
  MaxGap = 1
  MinHalfCycle = 10
  MinZeroToPeak = 5
  ConfirmSamples = 3
  SolverMayFail = FALSE
  MaxRuns = 1
  Amplitudes <- MCAmplitudes
  Lead = 2
  Rearm = 1
  MinShadowInterval = 8
INVARIANTS
  NoExtremumMissed
  ShadowSilent
PROPERTIES
  PeakIsExtremum
CHECK_DEADLOCK FALSE
