CONSTANTS
    Dims <- MCDims
    Weight <- MCWeight
    Gates <- MCGates
    MinCalls = 3
    NoValue = NoValue
    Held = Held
    Significant <- MCSignificant
    Unit = 27720
    Shares = 2
    Identifying = {2}
    Drivers <- MCDrivers
    MinGroup = 3
    MinPractical = 3
    MinDriver = 4
    MinTrend = 4
    MinSpan = 2
    RareCalls = 2
    OtherType = 9
    Unspecified = 0
    DurationBuckets = {0, 300, 600}
    DayUpTo = 3
    WeekUpTo = 50
    SpreadBankers = 3
    MinLows = 2
    Size <- MCSize
    Plain <- MCPlain
    Numbers <- MCNumbers
    Negations = {"not"}
    Labels = {"banker:"}
    Tags = {"<id>"}
    MinQuote = 8
    MaxRetries = 2
    MaxChars = 120
    MarkerSize = 8
    GateSeconds = 250
    Rubrics = {1, 2}
    Calls <- MCCalls

SPECIFICATION Spec
INVARIANT EvidenceIsReal
INVARIANT ScoreIsSafe
INVARIANT DegradesAsPromised
INVARIANT CountsWhatStands
PROPERTY JudgingEnds
INVARIANT NothingUnproven
INVARIANT ReportAddsUp
INVARIANT OpinionIsFair
