CONSTANTS
    Procs = {1, 2, 3}
    Pages <- MCPages
    RegionSize = 2
    LastVa = 4
    PageSize = 2
    Programs <- MCPrograms
    Increments = {3}
    None = None
SPECIFICATION Spec
VIEW MCView
INVARIANTS
    FramesExclusive
    NoPageLost
    TablesPresent
    HeapIsMapped
