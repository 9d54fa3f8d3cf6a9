SPECIFICATION FairSpec
CHECK_DEADLOCK FALSE
CONSTANTS
    stdout = stdout
    stderr = stderr
    Streams <- TwoStreams
    MaxStarts = 2
    MaxLines = 1
    MaxHosts = 2
INVARIANT OutputIsOwn
INVARIANT NothingLost
INVARIANT OnlyOwnRuns
PROPERTY CallsReturn
