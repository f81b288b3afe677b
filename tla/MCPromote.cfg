SPECIFICATION Spec
CONSTANTS
  Tmpls = {"v1"}
  FirstTmpl = "v1"
  Plans <- ParkedPlans
  FirstPlan <- ParkedPlan
  StepNames = {"w50", "park"}
  Sizes = {2}
  FirstSize = 2
  NServices = 1
  HPAStrategy = "Preserve"
  AutoPromotion = "Enabled"
  Router = "mesh"
  VerifyWeight = TRUE
  ScaleDownDelay = TRUE
  HistoryLimit = 1
  MaxSurge = 25
  Forwarded = TRUE
  Verdicts = {"Successful", "Failed"}
  Lag = FALSE
  UserEdits = {"clear"}
  MaxEdits = 1
  MaxFaults = 0
  MaxRev = 4
PROPERTIES PauseIsPromoted
