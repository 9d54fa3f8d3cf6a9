SPECIFICATION Spec
CONSTANTS
    a1 = a1
    a2 = a2
    Agents <- TwoAgents
    NoAgent = NoAgent
    kMaxInitRetries = 2
    MonitorLists <- BothAgents
    MaxCalls = 1
    MaxActivations = 1
    MaxLate = 1
    MaxEnsures = 1
    MaxToggles = 0
INVARIANT RecoveryBounded
INVARIANT HealthyNeedsInit
INVARIANT StartsAnew
PROPERTY VerdictIsForRequest
