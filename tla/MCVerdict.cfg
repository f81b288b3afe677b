SPECIFICATION SafetySpec
CONSTANTS
  Tmpls = {"v1", "v2"}
  FirstTmpl = "v1"
  Plans <- GatePlans
  FirstPlan <- GatePlan
  StepNames = {"gate", "park"}
  Sizes = {2}
  FirstSize = 2
  NServices = 1
  HPAStrategy = "Preserve"
  AutoPromotion = "Enabled"
  Router = "mesh"
  VerifyWeight = TRUE
  ScaleDownDelay = TRUE
  HistoryLimit = 1
  MaxSurge = 25
  Forwarded = TRUE
  Verdicts = {"Successful", "Failed"}
  Lag = FALSE
  UserEdits = {"template"}
  MaxEdits = 1
  MaxFaults = 0
  MaxRev = 4
PROPERTIES VerdictIsOfThisRevision
