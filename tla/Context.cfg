SPECIFICATION Spec
CONSTANTS
    KernelTop = 10
    UserBottom = 11
    UserTop = 21
    CodeSize = 2
    MaxCalls = 2
CHECK_DEADLOCK FALSE
INVARIANTS
    TypeOK
    KernelStackKept
    FaultIsFinal
PROPERTIES
    InterruptTransparent
    SyscallResumes
