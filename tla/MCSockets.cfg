\* The programs may end, and the server may wait for ever for a client that gave up.
CHECK_DEADLOCK FALSE
SPECIFICATION FairSpec
CONSTANTS
    CONNECT_RETRY = 5
    SEND_COUNT = 10
    Faulty <- AnyCall
INVARIANTS
    AllReceived
    KilledByFailure
PROPERTIES
    BothEnd
