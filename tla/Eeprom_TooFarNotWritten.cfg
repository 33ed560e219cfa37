SPECIFICATION Spec
CONSTANTS
    MemSize = 8
    PageSize = 2
    ByteBase = 4
    MaxNacks = 1
    AddrSpace = 16
    Writes <- MCWrites
    Reads <- MCReads
    MaxSize = 4
    MaxCalls = 3
    MaxResets = 1
CHECK_DEADLOCK FALSE
PROPERTY TooFarNotWritten
