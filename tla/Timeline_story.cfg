CONSTANTS
    Gap = 2
    StartOp = "open"
    CallOutBefore = 1
    CallInAfter = 2
    MsgOutBefore = 2
    MsgInAfter = 3
    BusinessDays = 1
    DayLength = 2
    FirstDay = 3
    QuietDays = 4
    Branch = "7"
    Center = {"109"}
    Bankers <- MCBankers
    Bursts <- MCBursts
    Steps = {1, 3}
    MaxEvents = 4
    NoTime = NoTime

SPECIFICATION Spec
INVARIANT PromisesAreFair
INVARIANT PageAgrees
PROPERTY PastStays
