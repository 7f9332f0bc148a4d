SPECIFICATION Spec
CONSTANTS
    idle = idle
    hello = hello
    child = child
    Threads <- MCThreads
    Users <- MCUsers
    Stacks <- MCStacks
    BootStack = 0
    First <- MCFirst
    Files <- MCFiles
    Results <- MCResults
    MaxFrames <- MCMaxFrames
    Zero = Zero
    Junk = Junk
    Unknown = Unknown
INVARIANTS
    LocalsAreKept
    StackIsOwn
PROPERTY ProgramsAreIsolated
CHECK_DEADLOCK TRUE
