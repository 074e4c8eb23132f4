SPECIFICATION Spec
CONSTANTS
    Contents <- AllContents
    ChunkSize = 5
    ChunkBuffer = 1
    ResultBuffer = 1
    MaxBytes = 8
INVARIANTS StreamShowsSplit
PROPERTIES EveryStreamEnds
CHECK_DEADLOCK FALSE
