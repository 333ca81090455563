SPECIFICATION FairLookupSpec
CONSTANTS
  N = 4
  K = 3
  Alpha = 2
  Modes = {"node", "value"}
  Dead = {3}
  Bad = {2}
  Full = {4}
  Churn = {3}
  Networks <- Progressive
INVARIANTS LookupSound ConvergesToClosest
PROPERTY WalkEnds
CHECK_DEADLOCK FALSE
