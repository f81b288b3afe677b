SPECIFICATION Spec
CONSTANTS
  Refs <- SomeRefs
  VSs = {"app", "edge"}
  FirstHttp <- FirstRoutes
  Edits <- SomeEdits
  Weights = {0, 50, 100}
  MaxAsks = 3
  MaxEdits = 2
  MaxFaults = 1
CHECK_DEADLOCK FALSE
INVARIANTS DoneMeansRouted
PROPERTIES OthersKept WeightsArrive
