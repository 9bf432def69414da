SPECIFICATION FairSpec
CONSTANTS
  Faults = {"crash", "fail", "review", "release"}
  MaxFault = 2
  MaxDamage = 1
  Stops <- JourneyStops
  Forces = {FALSE, TRUE}
  Doubtful <- SomeDoubts
INVARIANT FreshUnlessCut
INVARIANT ResumableUnlessLost
INVARIANT ReviewSurvivesResume
PROPERTY PartialIsNotDone
PROPERTY Recovers
