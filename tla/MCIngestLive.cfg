SPECIFICATION FairSpec
CONSTANTS
    MaxFrames = 3
    MaxSegFrames = 2
    MaxBlockFrames = 2
    MaxInflight = 1
    NewSchema <- MCNewSchema
    MaxCrashes = 1
    MaxFaults = 0
PROPERTIES
    EventuallyStored
    MutexReleased
    WalDrains
