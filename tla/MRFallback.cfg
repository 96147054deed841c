SPECIFICATION Spec
CONSTANTS
  fa = fa
  fb = fb
  fc = fc
  fd = fd
  fe = fe
  Functions = {fa, fb, fc, fd, fe}
  Names = {"ab", "c", "d", "e", "x", "y"}
  NameOf <- MCNameOf
  Measured = {"ab", "c", "d", "x", "y"}
  Batchings <- MCBatchings
  Threshold = 50
  MaxSplitDepth = 2
  MaxIter = 1
  NoReport = NoReport
INVARIANT
  AllMetHolds
