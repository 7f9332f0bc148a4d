CONSTANTS
    MaxPid = 5
    MaxProcesses = 6
    TimeSlice = 2
    TickModulus = 1
    SleepTicks = {1}
    Calls = {"exit", "yield", "fork", "wait"}
    Readers = {}
    None = None
SPECIFICATION WindowSpec
PROPERTIES
    DeadNeverResumes
