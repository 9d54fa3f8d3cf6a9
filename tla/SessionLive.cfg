SPECIFICATION FairSession
CONSTANTS
    plain = plain
    arm = arm
    glasses = glasses
    urNode = urNode
    local = local
    Keys <- TwoKeys
    Scripts <- OneScript
    NoScript = NoScript
    UrScripts = {}
    UrAgents <- OneArm
    UrNode = urNode
    RequiredSets = {}
    Workflows = {}
    AskKinds = {"cmd", "dialog"}
    MaxLines = 1
    MaxPosts = 2
    Agents <- OneAgent
    NoAgent = NoAgent
    LocalAgents <- OneLocal
    MaxChoices = 1
    MaxNotices = 1
PROPERTY AskAnswered
PROPERTY StopEndsScript
CHECK_DEADLOCK FALSE
