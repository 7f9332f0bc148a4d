CONSTANTS
    HeaderSize = 24
    ChunkSize = 128
    MaxHeap = 256
    Requests = {5, 32}
SPECIFICATION Spec
CHECK_DEADLOCK FALSE
INVARIANTS
    NeverGaps
