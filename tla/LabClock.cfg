SPECIFICATION FairSpec
CONSTANTS
    Labs = {"io", "timer", "interrupts"}
    Lines = 2
    Cols = 3
    Period = 2
    FirstPrime = 24
    Pressed <- MCPressed
    Switches = {0, 5, 15}
    MaxTicks = 3
    MaxPrime = 31
CHECK_DEADLOCK FALSE
INVARIANTS
    DisplayShowsText
    SecondsKept
    CalculationsRight
PROPERTIES
    LoopComesRound
