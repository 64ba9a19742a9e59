SPECIFICATION PageSpec
CONSTANT MaxRuns = 2
INVARIANTS
  ButtonsSafe
PROPERTIES
  ThawsWhenOver

VIEW PageView
