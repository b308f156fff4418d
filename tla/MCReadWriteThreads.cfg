\* Any thread may fail to open the file, and any pthread_create or pthread_join may fail.
\* The process may stop for good, at the barrier or because it has ended.
CHECK_DEADLOCK FALSE
SPECIFICATION FairSpec
CONSTANTS
    thread_num = 4
    watched = 3
    MayFail = TRUE
INVARIANTS
    InOrder
    FailedHoldsAll
PROPERTIES
    Completes
    RoundMeets
