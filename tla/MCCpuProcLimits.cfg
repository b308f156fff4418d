\* pipe and fork may fail at any child.
SPECIFICATION FairSpec
CONSTANTS
    proc_num = 3
    MayFail = TRUE
INVARIANTS
    EofMeansGivenUp
    NoSigpipe
PROPERTIES
    AllEnd
    ProcsMeet
