SPECIFICATION FairSpec
CONSTANTS
  None = None
  IslandMax = 1
  OpeningWindow = 2
  ClosingWindow = 2
  Numbers = {"n1"}
  MonologueBreak = 2
  MinSpeaking = 2
  MinOverlap = 1
  PatienceCap = 2
  DeadAirMin = 1
  Pad = 0
  WordSize = 4
  ContextBefore = 40
  AmountWindow = 14
  BirthLookahead = 60
  Calls <- AllCalls
  MaxAudio = 2
  MaxFault = 2
INVARIANT AnswerIsOfThisRecording
INVARIANT DialogIsFaithful
INVARIANT RolesAreStable
INVARIANT AudioCoversText
INVARIANT TextIsMasked
INVARIANT FeaturesAsDefined
PROPERTY WorkerNeverHoldsUp
