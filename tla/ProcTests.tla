------------------------------ MODULE ProcTests ------------------------------
(***************************************************************************)
(* What the processes of the forking test points do, a step per call:      *)
(* sched_setaffinity 008 - 011, gettid 002, kill, tkill, tgkill, waitid,   *)
(* wait4, getppid, setpgid 000 and 004, vfork, fork, fork_execve, execve,  *)
(* sched_getaffinity 005 and 006, pthread_setaffinity and                  *)
(* pthread_getaffinity 000, sched_yield, fpregs 005, tls, msync 001,       *)
(* process_vm_readv and _writev, nanosleep 001, pause, rt_sigsuspend,      *)
(* rt_sigprocmask, rt_sigaction 004, getrusage 000 - 002, gettid 001,      *)
(* fpregs 001 and 002, nfo 001 and 002, procfs 002, 003 and 005.           *)
(* A step names the call, the process or pipe it is about, its argument    *)
(* and the steps taken instead of the rest when it fails (none: the test   *)
(* does not look).  Output, frees, closes and the sleeps that no other     *)
(* step relies on are left out.                                            *)
(***************************************************************************)
EXTENDS Integers, Sequences

S(op, to, arg, val, fail) == [op |-> op, to |-> to, arg |-> arg, val |-> val, fail |-> fail]

\* return NULL, and a tp_assert that fails in RUN_FUNC
Ok == <<S("return", 0, "ok", "", <<>>)>>
Err == <<S("return", 0, "error", "", <<>>)>>
Ask == <<S("return", 0, "ask", "", <<>>)>>      \* a message that asks to look at the output
Exit(how) == <<S("exit", 0, how, "", <<>>)>>

Fork(i, kind, fail) == S("fork", i, kind, "", fail)
Handle(sig, how, fail) == S("sigaction", 0, sig, how, fail)
Kill(i, sig) == S("kill", i, sig, "pid", <<>>)
Spin == S("spin", 0, "sig_count", 1, <<>>)
SendCpu(x) == S("write", x, 4, "cpu", <<>>)
Read(x, bytes) == S("read", x, bytes, "", <<>>)
Sync(x) == S("write", x, 17, "", <<>>)      \* PIPE_BUF_SIZE + 1 bytes
WaitSync(x) == S("read", x, 16, "", <<>>)
Wait(i, fail) == S("wait", i, "", "", fail)
Check(what, fail) == S("check", 0, what, "", fail)
Call(what, fail) == S(what, 0, "", "", fail)
Move(i, where, fail) == S("setaffinity", i, where, "", fail)
Assign(what) == S("assign", 0, what, "", <<>>)
Post(x) == S("sem_post", x, "", "", <<>>)
SemWait(x) == S("sem_wait", x, "", "", <<>>)

SyncSem == <<"sync1", "sync2", "sync3">>
StartSem == <<"start1", "start2", "start3">>
InfoPipe == <<"pipe1", "pipe2">>

\* parent: the steps of process 0; child: those of each child; cpus = 1: the test
\* looks at the CPUs, and starts on any; exec: what a program started by execve does
P(parent, child) == [parent |-> parent, child |-> child, cpus |-> 0, exec |-> Exit("exit0")]
OnCpus(p) == [p EXCEPT !.cpus = 1]
Executing(p, program) == [p EXCEPT !.exec = program]

--------------------------------------------------------------------------
\* sched_setaffinity 008: the child tells its CPU before and after it is moved
child_migrate ==
    <<Handle("USR1", "once", <<>>), SendCpu("c2p"), Kill(0, "USR2"), Spin, SendCpu("c2p")>>
    \o Exit("exit0")

\* mutant: the CPU numbers are not compared
setaffinity8_unchecked == OnCpus(P(
    <<Handle("USR2", "once", <<>>), Call("pipe", Err), Fork(1, "fork", Err), Spin, Read("c2p", 4),
      Call("alloc", Err), Check("target", Err), Move(1, "away", <<>>), Kill(1, "USR1"),
      Read("c2p", 4), Wait(1, <<>>), Check("result", Err)>> \o Ok,
    <<child_migrate>>))

setaffinity8 == OnCpus(P(
    <<Handle("USR2", "once", <<>>), Call("pipe", Err), Fork(1, "fork", Err), Spin, Read("c2p", 4),
      Call("alloc", Err), Check("target", Err), Move(1, "away", <<>>), Kill(1, "USR1"),
      Read("c2p", 4), Wait(1, <<>>), Check("moved", Err), Check("result", Err)>> \o Ok,
    <<child_migrate>>))

setaffinity9 == OnCpus(P(
    <<Handle("USR2", "once", <<>>), Call("pipe", Err), Fork(1, "fork", Err), Spin, Read("c2p", 4),
      Call("alloc", Err), Move(1, "last", <<>>), Kill(1, "USR1"),
      Read("c2p", 4), Wait(1, <<>>), Check("moved", Err), Check("result", Err)>> \o Ok,
    <<child_migrate>>))

\* fpregs 005: 008 once more, but migrate_cpu is unsigned and its check never fails
fpregs5 == OnCpus(P(
    <<Handle("USR2", "once", <<>>), Call("pipe", Err), Fork(1, "fork", Err), Spin, Read("c2p", 4),
      Call("alloc", Err), Move(1, "away", <<>>), Kill(1, "USR1"),
      Read("c2p", 4), Wait(1, <<>>), Check("moved", Err), Check("result", Err)>> \o Ok,
    <<child_migrate>>))

\* sched_yield 000: the child is moved to the parent's CPU, and the order of the two
\* lines on stdout is the result.  A mapping that failed is not NULL, so that the test
\* goes on and dies in sem_init.  shm is the shared page with parent_core.
Line == S("write", "stdout", 1, "pid", <<>>)
sched_yield0 == OnCpus(P(
    <<Call("mmap", Exit("sig")), Fork(1, "fork", Err), SemWait("sync1"), SendCpu("shm"),
      Move(1, "own", Err), Move(0, "own", Err), Call("usleep", <<>>), Post("sync2"),
      Call("sched_yield", Err), Line, Call("waitany", Err), Check("exit_code", Err)>> \o Ask,
    << <<Call("getcpu", <<>>), Post("sync1"), SemWait("sync2"), Call("getcpu", <<>>),
         Check("core", Exit("exit1")), Line>> \o Exit("exit0")>>))

\* sched_setaffinity 010: two children, the second moved to the CPU of the first
child1_fn == <<Handle("USR1", "once", <<>>), SendCpu("c2p"), Spin>> \o Exit("exit0")
child2_fn == <<Handle("USR1", "once", <<>>), Kill(0, "USR2"), Spin>> \o Exit("exit0")
kill_both == <<Kill(1, "KILL"), Kill(2, "KILL")>> \o Err

\* mutants: each child is woken only when it is waited for; child 1 is not released
setaffinity10_one_by_one == OnCpus(P(
    <<Handle("USR2", "keep", <<>>), Call("pipe", Err), Fork(1, "fork", Err), Read("c2p", 4),
      Fork(2, "fork", <<Kill(1, "USR1")>> \o Err),
      S("setpgid", 1, 1, "", kill_both), S("setpgid", 2, 1, "", kill_both),
      Call("alloc", Err), Spin, Assign("clear"),
      Move(2, "child1", <<S("kill", 2, "USR1", "group", <<>>)>> \o Err),
      Kill(2, "USR1"), Wait(2, <<>>), Kill(1, "USR1"), Wait(1, <<>>), Check("result", Err)>> \o Ok,
    <<child1_fn, child2_fn>>))
setaffinity10_not_released == OnCpus(P(
    <<Handle("USR2", "keep", <<>>), Call("pipe", Err), Fork(1, "fork", Err), Read("c2p", 4),
      Fork(2, "fork", Err),
      S("setpgid", 1, 1, "", kill_both), S("setpgid", 2, 1, "", kill_both),
      Call("alloc", Err), Spin, Assign("clear"),
      Move(2, "child1", <<S("kill", 2, "USR1", "group", <<>>)>> \o Err),
      Kill(2, "USR1"), Kill(1, "USR1"), Wait(1, <<>>), Wait(2, <<>>), Check("result", Err)>> \o Ok,
    <<child1_fn, child2_fn>>))

setaffinity10 == OnCpus(P(
    <<Handle("USR2", "keep", <<>>), Call("pipe", Err), Fork(1, "fork", Err), Read("c2p", 4),
      Fork(2, "fork", <<Kill(1, "USR1")>> \o Err),
      S("setpgid", 1, 1, "", kill_both), S("setpgid", 2, 1, "", kill_both),
      Call("alloc", Err), Spin, Assign("clear"),
      Move(2, "child1", <<S("kill", 2, "USR1", "group", <<>>)>> \o Err),
      Kill(2, "USR1"), Kill(1, "USR1"), Wait(1, <<>>), Wait(2, <<>>), Check("result", Err)>> \o Ok,
    <<child1_fn, child2_fn>>))

\* sched_setaffinity 011: the same with threads
child_fn_common(i) ==
    <<SendCpu(InfoPipe[i]), Post(SyncSem[i]), SemWait(StartSem[i])>> \o Exit("exit0")

setaffinity11 == OnCpus(P(
    <<Fork(1, "thread", <<>>), Read("pipe1", 8), Fork(2, "thread", <<>>), Read("pipe2", 8),
      Call("alloc", Err), SemWait("sync1"), SemWait("sync2"), Move(2, "child1", <<>>),
      Post("start2"), Post("start1"), Wait(1, <<>>), Wait(2, <<>>), Check("result", Err)>> \o Ok,
    <<child_fn_common(1), child_fn_common(2)>>))

\* gettid 002: the first thread notes its CPU, the others move there
gettid_func(i) ==
    LET rest == <<SemWait(StartSem[i]), S("record", 0, "", "", <<>>)>> \o Exit("exit0")
    IN <<Check("later", <<Assign("child_cpu"), Post(SyncSem[i])>> \o rest),
         Post(SyncSem[i]),
         Move(i, "child_cpu", <<S("dropped", 0, "", "", <<>>)>> \o Exit("exit0"))>> \o rest

gettid2 == OnCpus(P(
    <<Call("alloc", Err), Fork(1, "thread", Err), SemWait("sync1"),
      Fork(2, "thread", Err), SemWait("sync2"), Fork(3, "thread", Err), SemWait("sync3"),
      Post("start1"), Post("start2"), Post("start3"),
      Wait(1, <<>>), Wait(2, <<>>), Wait(3, <<>>), Check("posts", Err)>> \o Ok,
    <<gettid_func(1), gettid_func(2), gettid_func(3)>>))

--------------------------------------------------------------------------
\* kill.c
kill_child_fn == <<Handle("USR1", "keep", Exit("exit1")), Spin>> \o Exit("exit0")

\* The fork loop stops at the first failure; without any child the test fails.
Forks(rest) ==
    LET third == <<Fork(3, "fork", rest[2])>> \o rest[3]
        second == <<Fork(2, "fork", rest[1])>> \o third
    IN <<Fork(1, "fork", Err)>> \o second

\* kill 000, 001: to the own group, to everyone; all waits are made, whatever was forked
Signalled_at_once(to) ==     \* mutant: no sleep before the signal
    <<Handle("USR1", "keep", Exit("exit1")), S("kill", 0, "USR1", to, <<>>),
      Wait(1, <<>>), Wait(2, <<>>), Wait(3, <<>>)>> \o Ok
Signalled(to) ==
    <<Handle("USR1", "keep", Exit("exit1")), Call("sleep3", <<>>), S("kill", 0, "USR1", to, <<>>),
      Wait(1, <<>>), Wait(2, <<>>), Wait(3, <<>>)>> \o Ok
Alike(s) == <<s, s, s>>

kill0 == P(<<S("setpgid", 0, 0, "", <<>>)>> \o Forks(Alike(Signalled("own"))), Alike(kill_child_fn))
kill1 == P(Forks(Alike(Signalled("all"))), Alike(kill_child_fn))

\* kill 002: the children join the group of the first.  After a failed fork the loop
\* still runs over proc_num - 1 pids, whether they were stored or not.
Regroup(n) ==
    <<Call("sleep3", <<>>)>> \o [i \in 1 .. n |-> S("setpgid", i, 1, "", <<>>)]
    \o <<S("kill", 1, "USR1", "group", <<>>), Wait(1, <<>>), Wait(2, <<>>), Wait(3, <<>>)>> \o Ok
kill2 == P(Forks(<<Regroup(2), Regroup(2), Regroup(3)>>), Alike(kill_child_fn))

--------------------------------------------------------------------------
\* waitid 000, wait4 000: a failed fork skips the wait
waitid0 == P(<<Fork(1, "fork", Ok), Wait(1, Err)>> \o Ok, <<Exit("exit0")>>)
wait40 == P(<<Fork(1, "fork", Ok), Wait(1, Err)>> \o Ok, <<Exit("exit0")>>)

\* waitid 001 with two children, one of which leaves the group; 002 with two
waitid1 == P(<<Fork(1, "fork", <<>>), Fork(2, "fork", <<>>), Call("waitgrp", Err)>> \o Ok,
             << <<S("setpgid", 1, 1, "", <<>>)>> \o Exit("exit0"), Exit("exit0")>>)
waitid2 == P(<<Fork(1, "fork", <<>>), Fork(2, "fork", <<>>), Call("waitany", Err),
               Call("waitany", Err)>> \o Ok,
             <<Exit("exit0"), Exit("exit0")>>)

\* wait4 002: SIGCHLD must have come; 003: a signal restarts the wait
wait42 == P(<<Handle("CHLD", "once", <<>>), Fork(1, "fork", <<Check("sig_count", Err)>> \o Ok),
              Wait(1, Err), Check("sig_count", Err)>> \o Ok, <<Exit("exit0")>>)
wait43 == P(<<Handle("USR2", "keep", <<>>), Fork(1, "fork", Ok), Call("waitany", Err),
              Check("termsig", Err)>> \o Ok,
            << <<Call("sleep1", <<>>), S("kill", 0, "USR2", "pid", Exit("exit1"))>> \o Exit("exit0")>>)

\* getppid 000, setpgid 000: what the functions return is not looked at
getppid0 == P(
    <<Call("pipe", Err), Call("pipe", Err), Fork(1, "fork", Err), WaitSync("c2p"),
      S("write", "p2c", 4, "pid", <<>>), WaitSync("c2p")>> \o Ok,
    << <<S("getppid", 0, "", "", <<>>), Sync("c2p"), Read("p2c", 4),
         Check("same", <<S("dropped", 0, "", "", <<>>)>> \o Exit("exit0")), Sync("c2p")>>
       \o Exit("exit0")>>)

setpgid0 == P(
    <<Call("pipe", Err), Call("pipe", Err), Fork(1, "fork", Err), WaitSync("c2p"),
      S("setpgid", 1, 1, "", <<S("dropped", 0, "", "", <<>>)>> \o Ok),
      Sync("p2c"), WaitSync("c2p")>> \o Ok,
    << <<Sync("c2p"), WaitSync("p2c"), Sync("c2p")>> \o Exit("exit0")>>)

\* setpgid 004: EACCES once the child has called execve
setpgid4 == P(
    <<Fork(1, "fork", Ok), S("setpgid_try", 1, "", "", Err), S("setpgid_poll", 1, "", "", Err),
      Wait(1, <<>>)>> \o Ok,
    << <<S("execve", 0, "", "", <<>>)>> \o Err>>)

\* vfork 000 - 002, fork 000
vfork0 == P(<<Fork(1, "vfork", Err), Check("vfork_global", Err), Wait(1, Err)>> \o Ok,
            << <<Assign("vfork_global"), S("execve", 0, "", "", <<>>)>> \o Err>>)
vfork2 == P(<<Fork(1, "vfork", Err), Wait(1, Err)>> \o Ok,
            << <<S("execve", 0, "", "", <<>>)>> \o Err>>)
print_ids == <<Assign("lock"), Assign("unlock")>>
vfork1 == P(<<Fork(1, "vfork", Err)>> \o print_ids \o Ok, <<print_ids \o Exit("exit0")>>)
fork0 == P(<<Fork(1, "fork", Err)>> \o print_ids \o Ok, <<print_ids \o Exit("exit0")>>)

\* sched_getaffinity 005: the mask is inherited by fork; 006: kept by execve, where the
\* output is compared by hand
getaffinity5 == P(
    <<Fork(1, "fork", Err), Call("alloc", Err), S("getaffinity", 0, "", "", Err),
      Call("alloc", Err), S("getaffinity", 1, "", "", Err), Kill(1, "USR1"), Check("result", Err)>>
    \o Ok,
    << <<Handle("USR1", "exit", <<>>), Spin>> \o Exit("exit0")>>)
getaffinity6 == P(
    <<Fork(1, "fork", Err), Wait(1, <<>>)>> \o Ok,
    << <<Call("fopen", Err), Call("alloc", Err), S("getaffinity", 1, "", "", Err),
         S("execve", 0, "", "", <<>>)>> \o Err>>)

\* pthread_setaffinity 000: a thread sets its mask and reads it back; what it returns
\* is the verdict
affinity_func ==
    LET out == Exit("exit0")
    IN <<Call("alloc", out), S("getaffinity", 1, "", "", out), Call("alloc", out),
         Check("mask_new", out), Move(1, "own", out), Call("alloc", out),
         S("getaffinity", 1, "", "", out), Check("mask_set", out), S("record", 0, "", "", <<>>)>> \o out

pthread_setaffinity0 == P(
    <<Call("alloc", Err), Fork(1, "thread", <<>>), S("wait", 1, "join", "", <<>>), Check("errmsg", Err)>>
    \o Ok, <<affinity_func>>)

\* pthread_getaffinity 000: the same, read back in two ways
getaffinity_func ==
    LET out == Exit("exit0")
    IN <<Call("alloc", out), Move(1, "own", out), Call("alloc", out),
         S("getaffinity", 1, "", "", out), Check("mask_set", out), Call("alloc", out),
         S("getaffinity", 1, "", "", out), Check("mask_set", out), S("record", 0, "", "", <<>>)>> \o out

pthread_getaffinity0 == P(
    <<Call("alloc", Err), Fork(1, "thread", <<>>), S("wait", 1, "join", "", <<>>), Check("errmsg", Err)>>
    \o Ok, <<getaffinity_func>>)

--------------------------------------------------------------------------
\* tls 000: two threads, one after the other; 001: all at once.  Neither looks at what
\* pthread_create returns.
tls_func == <<Call("tls", <<>>)>> \o Exit("exit0")
Counted(i) == S("check", i, "tls", "", Err)
tls0 == P(
    <<Fork(1, "thread", <<>>), S("wait", 1, "join", "", <<>>), Counted(1),
      Fork(2, "thread", <<>>), S("wait", 2, "join", "", <<>>), Counted(2)>> \o Ok,
    <<tls_func, tls_func>>)

tls1_func(i) == <<Post(SyncSem[i]), SemWait(StartSem[i]), Call("tls", <<>>)>> \o Exit("exit0")
tls1 == P(
    <<Call("alloc", Err), Fork(1, "thread", <<>>), Fork(2, "thread", <<>>), Fork(3, "thread", <<>>),
      SemWait("sync1"), SemWait("sync2"), SemWait("sync3"), Post("start1"), Post("start2"), Post("start3"),
      Wait(1, <<>>), Wait(2, <<>>), Wait(3, <<>>), Counted(1), Counted(2), Counted(3)>> \o Ok,
    <<tls1_func(1), tls1_func(2), tls1_func(3)>>)

\* msync 001: a thread writes through a mapping of its own; what its assertions return
\* is not looked at, and RUN_FUNC waits for a status that is set after them.
msync_func ==
    LET out == <<S("dropped", 0, "", "", <<>>)>> \o Exit("exit0")
    IN <<Call("file", out), Call("mmap", out), S("write", "shm", 1, "", <<>>), Call("msync", out),
         Assign("STAT_MSYNC"), S("spin", 0, "status", "STAT_CHECK_MEM", <<>>)>> \o Exit("exit0")
msync1 == P(
    <<Call("file", Err), Call("mmap", Err), Fork(1, "thread", Err),
      S("spin", 0, "status", "STAT_MSYNC", <<>>), Check("seen", Err),
      Assign("STAT_CHECK_MEM"), Wait(1, Err)>> \o Ok,
    <<msync_func>>)

\* process_vm_readv, process_vm_writev: 000 forks and executes the test program again,
\* as test point 999, which works on the memory of its parent and is a test of its own.
vm_readv999 == <<Call("alloc", Err), Call("process_vm", Err), Call("alloc", Err), Check("copied", Err)>> \o Ok
vm_writev999 == <<Call("alloc", Err), Call("process_vm", Err)>> \o Ok
vm_child == <<S("execve", 0, "", "", <<>>)>> \o Err

vm_readv0 == Executing(
    P(<<Fork(1, "fork", Err), Wait(1, Err), Check("status", Err)>> \o Ok, <<vm_child>>), vm_readv999)
vm_writev0 == Executing(
    P(<<Fork(1, "fork", Err), Wait(1, Err), Check("status", Err), Check("copied", Err)>> \o Ok,
      <<vm_child>>), vm_writev999)

\* fork_execve 000, execve 000 and 001
fork_execve0 == P(<<Fork(1, "fork", Ok), Wait(1, <<>>)>> \o Ok,
                  << <<S("execve", 0, "", "", <<>>)>> \o Err>>)
execve0 == P(<<S("execve", 0, "", "", <<>>)>> \o Ok, <<>>)
execve1 == P(<<S("execve", 0, "", "", <<>>)>> \o Err, <<>>)

--------------------------------------------------------------------------
\* nanosleep 001: the child's signal comes within the 10 s; pause 000, rt_sigsuspend
\* 000: the alarm should come after the call, and nothing makes sure of it.
nanosleep1 == P(
    <<Handle("INT", "keep", Err), Fork(1, "fork", Err), S("nanosleep", 0, "", "", Err)>> \o Ok,
    << <<Call("sleep2", <<>>), Kill(0, "INT")>> \o Exit("exit0")>>)
pause0 == P(<<Handle("ALRM", "keep", <<>>), Call("alarm", <<>>), Call("pause", <<>>)>> \o Ok, <<>>)
rt_sigsuspend0 == P(
    <<Handle("ALRM", "keep", Err), Call("getmask", Err), Call("alarm", <<>>), Call("pause", <<>>),
      Call("getmask", Err), Check("mask_kept", Err)>> \o Ok, <<>>)

\* rt_sigprocmask 000: a blocked signal; rt_sigaction 004: the second signal is to kill
rt_sigprocmask0 == P(
    <<Handle("USR1", "keep", Err), S("sigprocmask", 0, "USR1", "", Err),
      S("kill", 0, "USR1", "pid", Err), Check("not_handled", Err)>> \o Ok, <<>>)
rt_sigaction4 == P(
    <<Handle("USR1", "once", Err), Kill(0, "USR1"), Kill(0, "USR1")>> \o Err, <<>>)

\* getrusage 000 - 002: the same work in the process, in a child and in a thread.  A
\* mapping that failed is not NULL, and is written to.
rusage_work(out) ==
    <<Call("mmap", Exit("sig")), Call("alarm", <<>>), Spin>>
    \o out
getrusage0 == P(
    <<Assign("clear"), Handle("ALRM", "keep", Err), Call("getrusage", Err)>>
    \o rusage_work(<<Call("getrusage", Err), Call("getrusage", Err)>> \o Ask), <<>>)
getrusage1 == P(
    <<Call("getrusage", Err), Fork(1, "fork", Err), Call("waitany", <<>>), Call("getrusage", Err)>> \o Ask,
    << <<Assign("clear"), Handle("ALRM", "keep", Exit("exit0"))>> \o rusage_work(Exit("exit0"))>>)
getrusage2 == P(
    <<Call("getrusage", Err), Fork(1, "thread", Err), Wait(1, <<>>), Call("getrusage", Err)>> \o Ask,
    << <<Assign("clear"), Call("getrusage", Exit("exit0")), Handle("ALRM", "keep", Exit("exit0"))>>
       \o rusage_work(<<Call("getrusage", <<>>)>> \o Exit("exit0"))>>)

--------------------------------------------------------------------------
\* tkill 000, tgkill 000 and 001 (raise): to the own thread
tkill0 == P(<<Handle("USR1", "keep", Err), S("kill", 0, "USR1", "pid", Err), Spin>> \o Ok, <<>>)
tgkill0 == P(<<Handle("USR1", "keep", Err), S("kill", 0, "USR1", "pid", Err)>> \o Ok, <<>>)
tgkill1 == P(<<Handle("USR1", "keep", Err), S("kill", 0, "USR1", "pid", Err)>> \o Ok, <<>>)

\* tkill 001, tgkill 002: to a thread without a handler, with an endless loop in both.
\* An id that is not stored yet is 0, and an error.
tkill_child_func == <<S("record", 0, "", "", <<>>), Spin>> \o Exit("exit0")
tkill1 == P(<<Fork(1, "thread", Err), Call("sleep5", <<>>), Check("stored", Err),
              S("kill", 1, "USR1", "pid", Err), Spin>> \o Ok, <<tkill_child_func>>)
tgkill2 == P(<<Fork(1, "thread", Err), Call("sleep5", <<>>), Check("stored", Err),
               S("kill", 1, "USR1", "pid", Err), Spin>> \o Ok, <<tkill_child_func>>)

--------------------------------------------------------------------------
\* gettid 001: the parent's id is the pid, the thread's is another
Gettid == S("record", 0, "", "", <<>>)
gettid1 == P(<<Fork(1, "thread", Err), Gettid, Check("own", Err), Wait(1, Err), Check("unique", Err)>> \o Ok,
             << <<Gettid>> \o Exit("exit0")>>)

\* fpregs 001, 002: the registers are only shown
fpregs1 == P(<<Fork(1, "fork", Ok), Wait(1, <<>>)>> \o Ok, <<Exit("exit0")>>)
fpregs2 == P(<<Fork(1, "thread", Err), Wait(1, Err)>> \o Ok, <<Exit("exit0")>>)

\* nfo 001, 002: both threads map two pages and read them; a message of the thread
\* (exit1) reaches the parent through pthread_join.
nfo_func(fail) == <<Call("mmap", fail), Call("mmap", fail)>>
nfo1 == P(nfo_func(Err) \o <<Fork(1, "thread", Err), Wait(1, Err), Check("exit_code", Err)>> \o Ok,
          <<nfo_func(Exit("exit1")) \o Exit("exit0")>>)
nfo2 == P(<<Fork(1, "thread", Err), SemWait("sync1")>> \o nfo_func(Err)
          \o <<Post("start1"), Wait(1, Err), Check("exit_code", Err)>> \o Ok,
          << <<Post("sync1"), SemWait("start1")>> \o nfo_func(Exit("exit1")) \o Exit("exit0")>>)

\* procfs 002, 003, 005: a thread reads a file of its own under /proc; the parent joins
\* it and asks to look at the output, whatever the thread returns.  A calloc that failed
\* is only reported before the buffer is filled.
Procfs(thread) == P(<<Fork(1, "thread", Ask), Wait(1, <<>>)>> \o Ask,
                    <<thread \o <<Call("file", Exit("exit0"))>> \o Exit("exit0")>>)
procfs2 == Procfs(<<Call("alloc", Exit("sig"))>>)
procfs3 == Procfs(<<>>)
procfs5 ==
    LET out == <<S("dropped", 0, "", "", <<>>)>> \o Exit("exit0")
    IN Procfs(<<Call("mmap", out), Call("mmap", out), Call("mmap", out)>>)

Programs ==
    [setaffinity8 |-> setaffinity8, setaffinity9 |-> setaffinity9, setaffinity10 |-> setaffinity10,
     setaffinity11 |-> setaffinity11, gettid2 |-> gettid2, kill0 |-> kill0, kill1 |-> kill1,
     kill2 |-> kill2, waitid0 |-> waitid0, waitid1 |-> waitid1, waitid2 |-> waitid2,
     wait40 |-> wait40, wait42 |-> wait42, wait43 |-> wait43, getppid0 |-> getppid0,
     setpgid0 |-> setpgid0, setpgid4 |-> setpgid4, vfork0 |-> vfork0, vfork1 |-> vfork1,
     vfork2 |-> vfork2, fork0 |-> fork0, getaffinity5 |-> getaffinity5,
     getaffinity6 |-> getaffinity6, pthread_setaffinity0 |-> pthread_setaffinity0,
     tkill0 |-> tkill0, tgkill0 |-> tgkill0, tgkill1 |-> tgkill1, tkill1 |-> tkill1,
     tgkill2 |-> tgkill2, fpregs5 |-> fpregs5, sched_yield0 |-> sched_yield0,
     pthread_getaffinity0 |-> pthread_getaffinity0, tls0 |-> tls0, tls1 |-> tls1, msync1 |-> msync1,
     vm_readv0 |-> vm_readv0, vm_writev0 |-> vm_writev0, fork_execve0 |-> fork_execve0,
     execve0 |-> execve0, execve1 |-> execve1, nanosleep1 |-> nanosleep1, pause0 |-> pause0,
     rt_sigsuspend0 |-> rt_sigsuspend0, rt_sigprocmask0 |-> rt_sigprocmask0,
     rt_sigaction4 |-> rt_sigaction4, getrusage0 |-> getrusage0, getrusage1 |-> getrusage1,
     getrusage2 |-> getrusage2, gettid1 |-> gettid1, fpregs1 |-> fpregs1, fpregs2 |-> fpregs2,
     nfo1 |-> nfo1, nfo2 |-> nfo2, procfs2 |-> procfs2, procfs3 |-> procfs3, procfs5 |-> procfs5]
=============================================================================
