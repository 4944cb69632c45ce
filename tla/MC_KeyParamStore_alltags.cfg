CONSTANTS
    ByteBits = 1
    IntBits = 2
    LongBits = 4
    NullPtr = NullPtr
    NotMade = NotMade
    Regs <- MCRegsOne
    Temporaries = {}
    NViews = 1
    ViewType = "uint32_t"
    CallerTags <- DeclaredTags
    Args <- MCAllArgs
    Garbage <- MCGarbage
    ReceivedTags <- MCAllTags
    Storages <- MCAllStorages
    Blobs <- MCBlobs
    Default = 3
    UncheckedAccess = FALSE
INIT Init
NEXT Next
INVARIANT EqualityWithArrivalsMatchesVariant
PROPERTY VariantRefinement
