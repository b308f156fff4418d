CONSTANTS
    Program <- Programs
    MaxChild = 3
    num_of_cpus = 4
    Tests = {"setaffinity8", "setaffinity9", "setaffinity10", "setaffinity11", "gettid2", "kill0", "kill1", "kill2", "waitid0", "waitid1", "waitid2", "wait40", "wait42", "wait43", "getppid0", "setpgid0", "setpgid4", "vfork0", "vfork1", "vfork2", "fork0", "getaffinity5", "getaffinity6", "pthread_setaffinity0", "tkill0", "tgkill0", "tgkill1", "tkill1", "tgkill2", "fpregs5", "sched_yield0", "pthread_getaffinity0", "tls0", "tls1", "msync1", "vm_readv0", "vm_writev0", "fork_execve0", "execve0", "execve1", "nanosleep1", "pause0", "rt_sigsuspend0", "rt_sigprocmask0", "rt_sigaction4", "getrusage0", "getrusage1", "getrusage2", "gettid1", "fpregs1", "fpregs2", "nfo1", "nfo2", "procfs2", "procfs3", "procfs5"}
    Faulty = {"fork", "pipe", "alloc", "fopen", "sigaction", "kill", "setpgid", "setpgid_try", "setaffinity", "getaffinity", "execve", "wait", "waitany", "waitgrp", "mmap", "file", "msync", "getmask", "getrusage", "sigprocmask", "sched_yield", "process_vm"}
    Defects = {"no_migrate", "no_sigchld", "no_restart", "vfork_is_fork", "mask_reset", "no_eacces", "mask_ignored", "yield_noop", "tls_shared", "not_shared", "vm_short", "vm_wrong", "no_eintr", "not_blocked", "no_reset", "same_tid"}
SPECIFICATION Spec
CHECK_DEADLOCK FALSE
INVARIANTS NoFalseFailure DefectReported OkMeansReaped OneResult
PROPERTIES EndsWithResult NoneLeft
