SPECIFICATION FairSpec
CONSTANTS
    thread_num = 3
    numdiv = 7
    MayFail = TRUE
INVARIANTS
    FreeIsLast
    OkComplete
PROPERTIES
    Terminates
    ThreadsMeet
