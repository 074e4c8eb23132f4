SPECIFICATION Spec
CONSTANTS
    Contents <- AllContents
    ChunkSize = 5
    ChunkBuffer = 1
    ResultBuffer = 1
    MaxBytes = 8
INVARIANTS TagsDoNotLeak
CHECK_DEADLOCK FALSE
