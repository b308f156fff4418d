SPECIFICATION DSpec
CONSTANTS
    p1 = p1
    p2 = p2
    test_mck_nr_devs = 2
    Procs <- TwoProcs
    tester = p1
    BufPages = 3
    MaxPages = 4
    Defects <- BothDefects
    Runs = 3
    Faulty <- AnyCall
INVARIANTS
    CleanSlate
    OpenIsServed
    Independent
    DefectReported
PROPERTIES
    ReleasedOnce
    BufferLive
    DriverKept
