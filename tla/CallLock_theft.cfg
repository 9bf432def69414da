SPECIFICATION Spec
CONSTANTS
  p1 = p1
  p2 = p2
  p3 = p3
  h1 = h1
  h2 = h2
  NoLock = NoLock
  Proc = {p1, p2}
  Host = {h1, h2}
  HostOf <- OneHost
  TTL = 2
  MaxBusy = 4
  MaxCrash = 0
  Windows = TRUE
  Recycle = FALSE
  Watcher = p1
PROPERTY NoFreshTheft
