CONSTANTS
    MaxPid = 6
    MaxProcesses = 6
    TimeSlice = 2
    TickModulus = 1
    SleepTicks = {1}
    Calls = {"exit", "fork", "wait"}
    Readers = {3}
    None = None
SPECIFICATION Spec
INVARIANTS
    QueueMatchesTable
    OneRunning
    NoLostExit
    IdleCanBeWoken
    ShellIsNotInterrupted
