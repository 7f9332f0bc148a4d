CONSTANTS
    MaxPid = 3
    MaxProcesses = 4
    TimeSlice = 2
    TickModulus = 1
    SleepTicks = {1}
    Calls = {"yield"}
    Readers = {}
    None = None
SPECIFICATION FairSpec
PROPERTIES
    ReadyRuns
