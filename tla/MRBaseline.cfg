SPECIFICATION Spec
CONSTANTS
  fa = fa
  fb = fb
  fc = fc
  fd = fd
  fe = fe
  Functions = {fa, fb, fc, fd, fe}
  Names = {"ab", "c", "d", "e"}
  NameOf <- MCNameOf
  Measured = {"ab", "c", "d"}
  Batchings <- MCBatchings
  Threshold = 60
  MaxSplitDepth = 2
  MaxIter = 1
  NoReport = NoReport
INVARIANT
  StartsFromNewest
