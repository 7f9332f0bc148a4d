SPECIFICATION CalendarSpec
CONSTANTS
    N = 3
    Radix = 3
    MaxUpdates = 3
INVARIANTS
    ReadsAShownTime
    ReadingIsDecoded
PROPERTY Returns
