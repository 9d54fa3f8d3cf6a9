SPECIFICATION FairSpec
CONSTANTS
    glasses = glasses
    bsp = bsp
    imu = imu
    Primaries <- AllPrimaries
    Summarised <- WithSummary
    Ur = Ur
    NoAgent = NoAgent
    MaxEvents = 4
    MaxPolls = 2
INVARIANT SummaryIsOwn
INVARIANT OneOutstanding
INVARIANT ProxiesFollowConfig
PROPERTY PollAnswered
CHECK_DEADLOCK FALSE
