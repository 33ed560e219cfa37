SPECIFICATION FairSpec
CONSTANTS
    Pages = 2
    Block = 2
    MemBlocks = 7
    Programs <- MCPrograms
    UserSize = 4
    Names = {"a", "b", "c"}
    NameLength <- MCNameLength
    ProgramElf = "a"
    Images <- MCImages
    Slips <- MCSlips
    DamagedSizes = {17}
    MaxFlashes = 2
    MaxRuns = 2
CHECK_DEADLOCK FALSE
INVARIANTS
    TypeOK
    ListComplete
    ScreenShowsState
    RunsSelected
    EntriesApart
PROPERTIES
    PoweredInOrder
    ShellAnswers
