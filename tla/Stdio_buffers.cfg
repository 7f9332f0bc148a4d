SPECIFICATION Spec
CONSTANTS
    FILE_BUF_SIZE = 3
    Items <- MCItems
    Reads = {2, 4}
    Room = 12
    MaxAccepted = 12
INVARIANTS
    AcceptedIsKept
    ReadInOrder
    BuffersFit
PROPERTY CallsReturn
