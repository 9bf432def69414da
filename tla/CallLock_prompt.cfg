SPECIFICATION Spec
CONSTANTS
  p1 = p1
  p2 = p2
  p3 = p3
  h1 = h1
  h2 = h2
  NoLock = NoLock
  Proc = {p1, p2, p3}
  Host = {h1, h2}
  HostOf <- MCHostOf
  TTL = 2
  MaxBusy = 2
  MaxCrash = 2
  Windows = TRUE
  Recycle = FALSE
  Watcher = p1
INVARIANT MutualExclusion
PROPERTY ImplementsMutex
