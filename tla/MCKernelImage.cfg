SPECIFICATION Spec
CONSTANTS
    W = 512
    PAGE = 4
    S_REL = {"jiffies", "__per_cpu_load", "init_per_cpu__var"}
    INIT_PER_CPU = {"init_per_cpu__var"}
    Broken = Broken
    Missing = Missing
    PREFIX = 400
    IDENTITY = 410
    Name <- MCName
    MAX_BANNER = 6
    MAX_RELEASE = 4
    LOAD_PHYSICAL_ADDR = 4
    KERNEL_IMAGE_SIZE = 36
    KASLR_ALIGN = 4
    MinKernel = 64
    ZBOOT_HEADER_MIN = 56
    Input <- MCInput
INVARIANTS
    RunningKernelIsRelinked
    ReleaseIsTheLoadedOne
PROPERTY SupportedKernelBoots
