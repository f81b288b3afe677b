SPECIFICATION Spec
CONSTANTS
  Tmpls = {"v1", "v2"}
  FirstTmpl = "v1"
  Plans <- CanaryPlans
  FirstPlan <- CanaryPlan
  StepNames = {"w50", "half", "soak", "gate", "go"}
  Sizes = {1, 2}
  FirstSize = 1
  NServices = 2
  HPAStrategy = "Preserve"
  AutoPromotion = "Enabled"
  Router = "mesh"
  VerifyWeight = TRUE
  ScaleDownDelay = TRUE
  HistoryLimit = 1
  MaxSurge = 25
  Forwarded = TRUE
  Verdicts = {"Successful", "Failed"}
  Lag = FALSE
  UserEdits = {"template", "scale"}
  MaxEdits = 1
  MaxFaults = 1
  MaxRev = 3
INVARIANTS RouterFollowsStatus WeightFollowsSteps
PROPERTIES GatesHold PromotionComplete PromoteOrder Completes FailedGateRollsBack
