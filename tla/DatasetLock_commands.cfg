SPECIFICATION FairSpec
CONSTANTS
  c1 = c1
  c2 = c2
  NoFile = NoFile
  NoPid = NoPid
  Proc = {c1, c2}
  Pid = {1, 2, 3}
  MaxCrash = 2
 
PROPERTY BlockedByALivePidOnly
