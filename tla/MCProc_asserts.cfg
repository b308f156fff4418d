CONSTANTS
    Program <- Programs
    MaxChild = 3
    num_of_cpus = 4
    Tests = {"getppid0", "setpgid0"}
    Faulty = {"pipe", "fork"}
    Defects = {"wrong_ppid"}
SPECIFICATION Spec
CHECK_DEADLOCK FALSE
INVARIANTS AssertsCount
