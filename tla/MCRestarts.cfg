SPECIFICATION SafetySpec
CONSTANTS
  Tmpls = {"v1", "v2"}
  FirstTmpl = "v1"
  Plans <- ShortPlans
  FirstPlan <- ShortPlan
  StepNames = {"w50", "go"}
  Sizes = {2}
  FirstSize = 2
  NServices = 1
  HPAStrategy = "Preserve"
  AutoPromotion = "Enabled"
  Router = "mesh"
  VerifyWeight = TRUE
  ScaleDownDelay = TRUE
  HistoryLimit = 1
  MaxSurge = 25
  Forwarded = TRUE
  Verdicts = {"Successful", "Failed"}
  Lag = FALSE
  UserEdits = {}
  MaxEdits = 0
  MaxFaults = 0
  MaxRev = 4
PROPERTIES HealthyIsTerminal
