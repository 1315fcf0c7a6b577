SPECIFICATION LiveSpec
CONSTANTS
    MaxFrames = 2
    MaxSegFrames = 2
    MaxBlockFrames = 1
    MaxInflight = 2
    NewSchema <- MCNewSchema
    MaxCrashes = 0
    MaxFaults = 0
    MaxEvents = 0
INVARIANT NoGap
