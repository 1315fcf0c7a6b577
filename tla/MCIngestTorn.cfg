SPECIFICATION Spec
CONSTANTS
    MaxFrames = 3
    MaxSegFrames = 2
    MaxBlockFrames = 2
    MaxInflight = 2
    NewSchema <- MCNewSchema
    MaxCrashes = 1
    MaxFaults = 1
INVARIANT ReplayFailsClosed
