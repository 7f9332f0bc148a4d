CONSTANTS
    HEAP_SIZE = 168
    HEADER_SIZE = 24
    Requests = {3, 8, 29}
    Waiters = {}
    Kernel = Kernel
SPECIFICATION Spec
VIEW MCView
INVARIANTS
    Layout
    HeldDisjoint
    UsedIsExact
    Coalesced
