SPECIFICATION Spec
CHECK_DEADLOCK FALSE
CONSTANTS
    bsp = bsp
    arm = arm
    scripts = scripts
    NoAgent = NoAgent
    Unknown = Unknown
    Agents <- ThreeAgents
    Python <- OnePython
    External <- OneExternal
    Local <- OneLocal
    Asks <- SomeAsks
    MaxRequests = 3
    MaxCommands = 2
PROPERTY ClientOutlivesCall
