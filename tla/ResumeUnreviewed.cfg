SPECIFICATION Spec
CONSTANTS
  MaxIter = 2
  MoreIters = {1}
  RoundBound = 3
  MaxVerifyRetry = 0
  NoProgress = 1
  FuncTarget = 100
  CondTarget = 0
  MaxCost = 1
  Costs = {0, 1}
  Shapes <- ResumeShapes
  WholePcts = {0, 50}
  Verdicts = {"PASS", "FAIL"}
  AllowCrash = TRUE
  AllowResume = TRUE
INVARIANT
  ReviewedBeforeExecution
