SPECIFICATION Spec
CONSTANTS
  Faults = {}
  MaxFault = 0
  MaxDamage = 1
  Stops <- JourneyStops
  Forces = {FALSE}
  Doubtful <- NoDoubts
INVARIANT PublishedFresh
