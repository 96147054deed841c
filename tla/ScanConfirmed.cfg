SPECIFICATION SpecScan
CONSTANTS
  Tests = {"i1", "i2", "old"}
  OldTests = {"old"}
  Issues = {"i1", "i2"}
  MaxRuns = 1
INVARIANT
  JudgedByItsCase
