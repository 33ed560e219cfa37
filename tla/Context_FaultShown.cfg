SPECIFICATION FairSpec
CONSTANTS
    KernelTop = 10
    UserBottom = 11
    UserTop = 21
    CodeSize = 2
    MaxCalls = 2
CHECK_DEADLOCK FALSE
PROPERTY
    FaultShown
