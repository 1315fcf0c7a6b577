SPECIFICATION Spec
CONSTANTS
    MaxFrames = 3
    MaxSegFrames = 2
    MaxBlockFrames = 2
    MaxInflight = 2
    NewSchema <- MCNewSchema
    MaxCrashes = 2
    MaxFaults = 1
INVARIANTS
    TypeOK
    Durable
    DisjointRanges
    OneSchemaPerBlock
    OpenBlockAboveWatermark
PROPERTIES
    BlocksImmutable
    ImplementsPromise
