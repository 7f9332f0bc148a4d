CONSTANTS
    MaxPid = 4
    MaxProcesses = 4
    TimeSlice = 1
    TickModulus = 2
    SleepTicks = {1}
    Calls = {"exit", "yield", "fork", "wait", "sleep"}
    Readers = {}
    None = None
SPECIFICATION CooperativeSpec
INVARIANT
    KeyboardSleeperIsWoken
PROPERTIES
    ReadyRuns
    WaitReturns
    SleeperWakes
