SPECIFICATION Spec
CONSTANTS
    p1 = p1
    p2 = p2
    test_mck_nr_devs = 2
    Procs <- TwoProcs
    Faulty <- ClassOnly
INVARIANTS
    LoadedMeansReady
