CONSTANTS
    ByteBits = 1
    IntBits = 2
    LongBits = 4
    NullPtr = NullPtr
    NotMade = NotMade
    Regs <- MCRegs
    Temporaries = {}
    NViews = 2
    ViewType = "uint32_t"
    CallerTags <- MCCallerTags
    Args <- MCArgs
    Garbage <- MCGarbage
    ReceivedTags <- MCReceivedTags
    Storages <- MCStorages
    Blobs <- MCBlobs
    Default = 3
    UncheckedAccess = FALSE
INIT Init
NEXT Next
INVARIANT TypeOK
INVARIANT EqualityMatchesVariant
INVARIANT FallbackChainReadsFirstPresent
INVARIANT NumericAuthorizationZeroFill
PROPERTY VariantRefinement
