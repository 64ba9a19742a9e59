SPECIFICATION AttSpec
CONSTANTS
  CalibTime = 2
  SettleTime = 2
  StartPattern <- MCPattern
  EndPattern <- MCEndPattern
  ReinitTime = 4
  MinSamples = 2
  Duration = 34
  MidFirst = 2
  MidInterval = 17
  MidOn = 4
  MidGap = 4
  MidTotal = 13
  LogPeriod = 2
  MaxGap = 2
  GuideAfter = 4
  UprightHold = 2
  BetaHold = 2
  SoftStart = 2
  BetaCeiling = 2
  IdleCeiling = 3
  MaxRuns = 1
PROPERTIES
  SettledBeforeRun
