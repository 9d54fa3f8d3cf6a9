SPECIFICATION Spec
CONSTANTS
    a1 = a1
    a2 = a2
    Agents <- TwoAgents
    NoAgent = NoAgent
    kMaxInitRetries = 2
    MonitorLists <- BothAgents
    MaxCalls = 1
    MaxActivations = 2
    MaxLate = 0
    MaxEnsures = 0
    MaxToggles = 0
INVARIANT HealthyIsInitialised
