SPECIFICATION Spec
CONSTANTS
  MaxDesired = 9
  Weights = {0, 1, 5, 10, 25, 33, 50, 75, 99, 100}
  Surges = {0, 25, 100}
INVARIANTS SplitExact CanaryCarriesWeight CreateWithinSurge ProportionalFair
PROPERTIES ScaleUpTakesNothing
CHECK_DEADLOCK FALSE
