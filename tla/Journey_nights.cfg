SPECIFICATION JFairSpec
CONSTANTS
  main = main
  trial = trial
  Main = main
  None = None
  Reader = {main, trial}
  Stories = 2
  Contacts = 2
  Spoken <- ThreeSpoken
  Pending <- FirstPending
  Objective <- NoneObjective
  Commands <- Nights
  Process <- Estimates
  Sample = 1
  Concurrency = 1
  MaxRetries = 1
  MaxBad = 1
  MaxFault = 1
  MaxMishap = 1
INVARIANT ReadingIsWhole
INVARIANT FreeRerun
PROPERTY UnreadKept
PROPERTY ReportedInTheEnd
