SPECIFICATION Spec
CONSTANTS
    TotalPages <- MCTotalPages
    PageSize <- MCPageSize
    E820 <- MCE820
    BootPage = 2
    LowEnd = 4
    BitmapBase = 9
    BitmapPages = 1
    HeapBase = 11
    HeapPages = 2
    KernelImage <- MCKernelImage
    Owners = {shell, program, file}
INVARIANTS
    PagesExclusive
    ReservedStaysReserved
    CounterDoesNotDrift
