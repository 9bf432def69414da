SPECIFICATION FairSpec
CONSTANTS
  r1 = r1
  r2 = r2
  NoFile = NoFile
  Recording = {r1, r2}
  Name = {1, 2}
  Pieces = 1
  Poll = 1
  Stable = 1
  Settle = 1
  MaxCycle = 1
  MaxFault = 1
INVARIANT NoneOverwritten
INVARIANT Handled
INVARIANT ProcessedWasMade
PROPERTY StableFirst
PROPERTY EveryFileLeaves
