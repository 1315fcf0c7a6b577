SPECIFICATION Spec
CONSTANTS
    MaxFrames = 3
    MaxSegFrames = 2
    MaxBlockFrames = 2
    MaxInflight = 2
    NewSchema <- MCNewSchema
    MaxCrashes = 0
    MaxFaults = 1
INVARIANT CurrentIsWritable
