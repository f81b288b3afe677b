SPECIFICATION Spec
CONSTANTS
  Tmpls = {"v1", "v2"}
  FirstTmpl = "v1"
  Sizes = {1, 2, 4}
  Surge = 50
  Unavailable = 0
  Collides = {"v2"}
  MaxRetries = 5
  MaxRev = 4
  Scenarios <- MCScenarios
INVARIANTS TypeOK
PROPERTIES SurgeKept AvailabilityKept RecreateExclusive RollbackUndoes RolloutCompletes StuckReported
CHECK_DEADLOCK FALSE
