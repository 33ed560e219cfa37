SPECIFICATION Spec
CONSTANTS
    RxSize <- MCRxSize
    FifoDepth <- MCFifoDepth
    MaxReq <- MCMaxReq
    MaxBytes <- MCMaxBytes
CHECK_DEADLOCK FALSE
PROPERTY NeverOverwritten
