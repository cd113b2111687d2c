CONSTANTS
    Page = 2
    KernPart = 4
    DtbPart = 4
    RootfsPart = 4
    KERNEL_LOAD_PA = 0
    DTB_LOAD_PA = 4
    PsramEnd = 8
    NeedleLen = 2
    Flashes <- MCFlashes
    Resets <- MCResets
    MaxBoots = 1
SPECIFICATION FairSpec
CHECK_DEADLOCK FALSE
INVARIANTS TypeOK KernelIntact DtbIntact HandOver StdioWhole
PROPERTIES BootsThrough
