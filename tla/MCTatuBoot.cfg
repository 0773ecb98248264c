SPECIFICATION Spec
CONSTANTS
    U64 = 64
    U32 = 16
    MAX_CPUS = 1
    MAX_MEMORY_REGIONS = 2
    MAX_DEVICE_RANGES = 3
    MAX_RESERVED = 1
    E820_MAX_ENTRIES = 7
    HOST_DTBO_MAX = 2
    LOAD_PHYSICAL_ADDR = 2
    KERNEL_IMAGE_SIZE = 10
    KASLR_ALIGN = 2
    Name <- MCName
    Seed = {"s0", "s1"}
    AcpiWorkspace <- MCAcpi
    Input <- MCInput
INVARIANTS
    TatuTypeOK
    MeasuredTreeReachesKernel
    HandoffIsSound
    RefusesOnlyUnusable
    E820IsTheMap
    ValidatedTreeFitsE820
    KaslrStaysInWindow
PROPERTY BootEnds
