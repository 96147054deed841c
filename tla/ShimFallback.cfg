SPECIFICATION FairRuntime
CONSTANTS
  Loops = {}
  Shims = {"shim"}
  Runtimes <- MCRuntimes
  TTL = 2
  MaxTime = 2
CHECK_DEADLOCK FALSE
PROPERTY
  CommandEnds
