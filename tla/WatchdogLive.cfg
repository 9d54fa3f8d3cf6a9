SPECIFICATION FairSpec
CONSTANTS
    a1 = a1
    a2 = a2
    Agents <- TwoAgents
    NoAgent = NoAgent
    kMaxInitRetries = 1
    MonitorLists <- PairOnly
    MaxCalls = 2
    MaxActivations = 0
    MaxLate = 0
    MaxEnsures = 1
    MaxToggles = 1
PROPERTY EstopServed
PROPERTY LossStopsScript
PROPERTY StopTerminates
