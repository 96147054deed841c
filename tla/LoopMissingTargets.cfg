SPECIFICATION Spec
CONSTANTS
  MaxIter = 3
  MoreIters = {}
  RoundBound = 3
  MaxVerifyRetry = 1
  NoProgress = 2
  FuncTarget = 50
  CondTarget = 50
  MaxCost = 1
  Costs = {0, 1}
  Shapes <- FreshShapes
  WholePcts = {0, 50}
  Verdicts = {"PASS", "FAIL"}
  AllowCrash = FALSE
  AllowResume = FALSE
INVARIANT
  MissingTargetsReported
