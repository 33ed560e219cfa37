SPECIFICATION FairSpec
CONSTANTS
    RxSize <- MCRxSize
    FifoDepth <- MCFifoDepth
    MaxReq <- MCMaxReq
    MaxBytes <- MCMaxBytes
CHECK_DEADLOCK FALSE
INVARIANTS
    TypeOK
    InOrder
    ReadFillsExactly
    SingleFifoReader
PROPERTIES
    LossOnlyWhenFull
    KeptOutsideLapWindow
    StreamSpec
    FlaggedByteWakes
    GetcReturns
