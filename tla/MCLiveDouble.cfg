SPECIFICATION LiveSpec
CONSTANTS
    MaxFrames = 2
    MaxSegFrames = 2
    MaxBlockFrames = 2
    MaxInflight = 1
    NewSchema <- MCNewSchema
    MaxCrashes = 1
    MaxFaults = 0
    MaxEvents = 2
INVARIANTS
    LiveTypeOK
    NoDoubleOnceKnown
    GapExplained
