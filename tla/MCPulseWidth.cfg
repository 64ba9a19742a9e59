SPECIFICATION DecisionSpec
CONSTANTS
  MaxWidth = 25
  Slack = 2
  Curves <- MCCurves
  Limits <- MCLimits
  Targets <- MCTargets
  WidthMs = 4
  Tau = 611
  Rise <- MCRise
  Goal <- MCGoal
  Remains <- MCRemains
  SideCorrection = FALSE
  Wanted = {800}
  Rates = {10, 89}
  Amplitudes = {500, 800, 1100}
  Batteries <- MCBatteries
  Ki = 37
  MaxError = 300
  MaxLoose = 1
INVARIANTS
  SelectsAsExhaustive
  IntegralBounded
CHECK_DEADLOCK FALSE
