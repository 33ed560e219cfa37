SPECIFICATION FairSpec
CONSTANTS
    RxSize <- MCRxSize
    FifoDepth <- MCFifoDepth
    MaxReq <- MCMaxReq
    MaxBytes <- MCFewBytes
CHECK_DEADLOCK FALSE
PROPERTY BlockedReaderWakes
