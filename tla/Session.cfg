SPECIFICATION SessionSpec
CONSTANTS
    plain = plain
    arm = arm
    glasses = glasses
    urNode = urNode
    local = local
    Keys <- TwoKeys
    Scripts <- TwoScripts
    NoScript = NoScript
    UrScripts <- ArmScripts
    UrAgents <- OneArm
    UrNode = urNode
    RequiredSets <- Announced
    Workflows <- Reports
    AskKinds = {"now"}
    MaxLines = 2
    MaxPosts = 2
    Agents <- OneAgent
    NoAgent = NoAgent
    LocalAgents <- OneLocal
    MaxChoices = 1
    MaxNotices = 0
INVARIANT LifecyclePaired
INVARIANT StopFlagHonest
INVARIANT EndsShownStopped
INVARIANT EstopOnlyOwn
INVARIANT StopReachesArm
INVARIANT MonitoringEnds
PROPERTY MonitorsCheckedScript
CHECK_DEADLOCK FALSE
