SPECIFICATION KernelSpec
CONSTANTS
    WordSize = 512
    Start = 40
    End = 244
    Requests = {1, 9, 24, 40}
    Maps <- MCMaps
    MinLength = 60
    MaxLength = 244
    kernel_start = 8
    kernel_end = 20
INVARIANTS
    Tiled
    Coalesced
    NothingLeaks
    IInv
    HeapIsAvailable
    HeapMissesKernel
PROPERTIES
    KeepsPromise
