SPECIFICATION FairSpec
CONSTANTS
    ImageLen = 3
    BlockSize = 2
    HeaderLen = 2
    Programs <- MCPrograms
    Segments <- MCSegments
    MemSize = 4
    RingSize = 2
    WrongSizes <- MCWrongSizes
    MaxSegment = 2
    MaxNoise = 1
    MaxCommands = 1
    MaxResets = 1
CHECK_DEADLOCK FALSE
INVARIANTS
    TypeOK
    CompleteMeansStored
    CommandsAreKeys
    CheckedMeansIntact
PROPERTIES
    UploadEnds
