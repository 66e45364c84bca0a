SPECIFICATION Spec
CONSTANTS
    MaxFiles = 3
    MaxSize = 2
    RecordSizes = {1, 3}
    MaxRecords = 6
    MaxFaults = 2
    NoFile = NoFile
INVARIANTS
    TypeOK
    OldestFirst
    SizeBounded
    OldFilesFull
PROPERTIES
    LosesOnlyEnds
