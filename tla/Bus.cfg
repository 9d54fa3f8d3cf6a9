SPECIFICATION FairSpec
CONSTANTS
    ui = ui
    actuator = actuator
    p1 = p1
    p2 = p2
    state = state
    other = other
    key = key
    NoKey = NoKey
    Targets <- TwoTargets
    Publishers <- TwoPublishers
    Kinds <- TwoKinds
    Patterns <- TwoPatterns
    Keys <- OneKey
    MaxDrain = 2
    MaxPublished = 3
    MaxSubscriptions = 2
INVARIANT NoLostWakeUp
PROPERTY KeepsPromise
PROPERTY WaiterServed
