SPECIFICATION Spec
CONSTANTS
  Tmpls = {"v1", "v2"}
  FirstTmpl = "v1"
  Plans <- MixedPlans
  FirstPlan <- MixedPlan
  StepNames = {"trial", "gate", "park"}
  Sizes = {0}
  FirstSize = 0
  NServices = 1
  HPAStrategy = "Disabled"
  AutoPromotion = "Manual"
  Router = "mesh"
  VerifyWeight = TRUE
  ScaleDownDelay = FALSE
  HistoryLimit = 0
  MaxSurge = 25
  Forwarded = TRUE
  Verdicts = {"Failed", "Inconclusive"}
  Lag = TRUE
  UserEdits = {"template", "plan", "clear"}
  MaxEdits = 2
  MaxFaults = 1
  MaxRev = 4
PROPERTIES StepsInOrder GatesHold ClosedGateHolds RevisionOnTop
