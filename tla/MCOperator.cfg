SPECIFICATION Spec
CONSTANTS
  Tmpls = {"v1", "v2"}
  FirstTmpl = "v1"
  Plans <- SizingPlans
  FirstPlan <- SizingPlan
  StepNames = {"w50", "match", "park"}
  Sizes = {0, 2}
  FirstSize = 2
  NServices = 0
  HPAStrategy = "Preserve"
  AutoPromotion = "Enabled"
  Router = "mesh"
  VerifyWeight = FALSE
  ScaleDownDelay = TRUE
  HistoryLimit = 1
  MaxSurge = 0
  Forwarded = TRUE
  Verdicts = {"Successful", "Failed"}
  Lag = FALSE
  UserEdits = {"template", "scale", "abort", "paused", "mesh"}
  MaxEdits = 2
  MaxFaults = 1
  MaxRev = 4
INVARIANTS TypeOK MatchAgrees
PROPERTIES AbortDrains PausedFreezes SplitConverges
