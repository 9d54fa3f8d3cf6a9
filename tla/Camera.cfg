SPECIFICATION Spec
CHECK_DEADLOCK FALSE
CONSTANTS
    data = data
    script = script
    Views <- TwoViews
    ScriptView = script
    SlotCount = 2
    MaxObjects = 2
    MaxFrames = 4
    MaxSwitches = 1
INVARIANT WholeUnlessRacing
INVARIANT RequestServed
PROPERTY NeverBack
