SPECIFICATION SpecCall
CONSTANTS
  RetryLimits = {2}
  HasHook = FALSE
  BaseDelay = 6
  MaxDelay = 10
  TotalTimeout = 15
  Tokens = {0, 2}
  Pressure = 2
INVARIANT
  ChargedInFull
