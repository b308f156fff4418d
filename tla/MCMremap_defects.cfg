SPECIFICATION Spec
CONSTANTS
    MREMAP_RANGE_SIZE = 4
    MREMAP_RANGE_LARGE_SIZE = 5
    Pages = 26
    Slack = 1
    Defects <- AllDefects
    MayFail = TRUE
INVARIANTS
    LaidOut
    CorrectKernelPasses
    DefectReported
