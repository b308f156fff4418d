----------------------------- MODULE ProcSession -----------------------------
(***************************************************************************)
(* A run of a test point that forks: RUN_FUNC as process 0 and its         *)
(* children (processes or threads) 1 .. MaxChild, each a sequence of       *)
(* steps, one per call, taken from ProcTests.  The kernel under test is    *)
(* external: processes, process groups, signals, pipes, semaphores, vfork  *)
(* and CPUs.  A CPU changes to another process only when the one it runs   *)
(* blocks or ends, so that a test point that busy-waits on the CPU its     *)
(* partner needs is a test point that hangs.                               *)
(***************************************************************************)
EXTENDS Integers, Sequences, FiniteSets

CONSTANTS
    Tests,          \* the test points
    Program,        \* what their processes do
    MaxChild,       \* the largest number of children
    num_of_cpus,    \* the argument of -p
    Faulty,         \* calls that may fail
    Defects         \* what the kernel under test may get wrong

ASSUME ProcAssumption ==
    /\ MaxChild \in Nat \ {0}
    /\ num_of_cpus \in Nat /\ num_of_cpus > MaxChild

Procs == 0 .. MaxChild
Children == 1 .. MaxChild
Cpus == 0 .. num_of_cpus - 1
Sigs == {"USR1", "USR2", "CHLD", "KILL", "INT", "ALRM"}
ShellGroup == MaxChild + 1      \* the group the harness runs in

VARIABLES
    test,       \* the test point of this run
    defect,     \* the kernel's defect in this run, or "none"
    pr,         \* the processes
    glob,       \* the global variables of each address space
    pipe,       \* bytes and values in each pipe, on stdout and in the shared memory;
                \* the value of each semaphore
    cur,        \* the process each CPU runs
    failed,     \* calls that have failed
    asserted,   \* 1: a failed tp_assert returned to a caller that ignores it
    printed     \* the RESULT each process has printed

vars == <<test, defect, pr, glob, pipe, cur, failed, asserted, printed>>

Pipes == {"c2p", "p2c", "pipe1", "pipe2", "sync1", "sync2", "sync3",
          "start1", "start2", "start3", "shm", "stdout"}

--------------------------------------------------------------------------
Unborn == [st |-> "unborn", todo |-> <<>>, kind |-> "fork", space |-> 0,
           hnd |-> [s \in Sigs |-> "dfl"], pend |-> {}, blk |-> {}, alarm |-> 0, pgid |-> ShellGroup,
           how |-> "none", cpu |-> 0, mask |-> Cpus, exec |-> 0, loc |-> <<>>, res |-> 0]

\* The defects a kernel may show in a test point: the one the test point is about.
\* sched_setaffinity 010 and 011 and gettid 002 move a process too, but compare no CPU
\* afterwards: they would pass without the move, and are left out.
Concerns == {<<"setaffinity8", "no_migrate">>, <<"setaffinity9", "no_migrate">>,
             <<"wait42", "no_sigchld">>, <<"wait43", "no_restart">>,
             <<"vfork0", "vfork_is_fork">>, <<"getaffinity5", "mask_reset">>,
             <<"setpgid4", "no_eacces">>, <<"getppid0", "wrong_ppid">>,
             <<"pthread_setaffinity0", "mask_ignored">>, <<"pthread_getaffinity0", "mask_ignored">>,
             <<"fpregs5", "no_migrate">>, <<"sched_yield0", "no_migrate">>,
             <<"sched_yield0", "yield_noop">>, <<"tls0", "tls_shared">>, <<"msync1", "not_shared">>,
             <<"vm_readv0", "vm_short">>, <<"vm_readv0", "vm_wrong">>,
             <<"vm_writev0", "vm_short">>, <<"vm_writev0", "vm_wrong">>,
             <<"nanosleep1", "no_eintr">>, <<"rt_sigprocmask0", "not_blocked">>,
             <<"rt_sigaction4", "no_reset">>, <<"gettid1", "same_tid">>}

Init ==
    /\ test \in Tests
    /\ defect \in {"none"} \cup {d \in Defects : <<test, d>> \in Concerns}
    /\ \E c \in IF Program[test].cpus = 1 THEN Cpus ELSE {0} :
          pr = [q \in Procs |-> IF q = 0 THEN [Unborn EXCEPT !.st = "run", !.cpu = c,
                                                             !.todo = Program[test].parent]
                                ELSE Unborn]
    /\ glob = [q \in Procs |-> [sig_count |-> 0, lock |-> 0, vfork_global |-> 0, child_cpu |-> -1,
                                 status |-> "STAT_NULL", tls |-> 0]]
    /\ pipe = [x \in Pipes |-> [n |-> 0, vals |-> <<>>]]
    /\ cur = [c \in Cpus |-> 0]
    /\ failed = {} /\ asserted = 0
    /\ printed = [q \in Procs |-> "none"]

Lives(q) == pr[q].st = "run"
Step(q) == Head(pr[q].todo)
\* The parent of a vfork sleeps until the child execs or ends.
Suspended(q) == \E d \in Children :
    q = 0 /\ Lives(d) /\ pr[d].kind = "vfork" /\ pr[d].exec = 0 /\ defect # "vfork_is_fork"

Zombie(d) == pr[d].st = "zombie"
Born(d) == pr[d].st # "unborn"
InGroup(d, g) == Born(d) /\ pr[d].st # "gone" /\ pr[d].pgid = g

\* Does the call at hand return at once?
Ready(q) ==
    LET s == Step(q) IN
    CASE s.op \in {"read", "sem_wait"} -> pipe[s.to].n > 0
      [] s.op = "wait" -> ~Lives(s.to)
      [] s.op = "waitany" -> (\E d \in Children : Zombie(d)) \/ ~(\E d \in Children : Lives(d))
      [] s.op = "waitgrp" -> \/ \E d \in Children : Zombie(d) /\ InGroup(d, pr[q].pgid)
                             \/ ~\E d \in Children : InGroup(d, pr[q].pgid)
      [] s.op = "paused" -> FALSE
      [] s.op = "nanosleep" -> ~Lives(1)
      [] s.op = "usleep" -> Lives(1) => Step(1).op = "sem_wait"
      [] s.op = "sleep2" -> Lives(0) => Step(0).op = "nanosleep"
      [] s.op = "sleep1" -> Lives(0) => Step(0).op = "waitany"
      [] s.op = "sleep5" -> Lives(1) => pr[1].loc # <<>>
      [] s.op = "sleep3" -> \A d \in Children : Lives(d) => Step(d).op = "spin"
      [] OTHER -> TRUE

Due(q) == pr[q].pend \ pr[q].blk      \* the signals to deliver
Blocked(q) == Due(q) = {} /\ (Suspended(q) \/ ~Ready(q))

\* A CPU whose process is blocked, gone or moved away takes another.
Switch(c) ==
    /\ LET q == cur[c] IN ~(Lives(q) /\ pr[q].cpu = c /\ ~Blocked(q))
    /\ \E r \in Procs : /\ Lives(r) /\ pr[r].cpu = c /\ ~Blocked(r) /\ r # cur[c]
                        /\ cur' = [cur EXCEPT ![c] = r]
    /\ UNCHANGED <<test, defect, pr, glob, pipe, failed, asserted, printed>>

\* Signals are taken before the next call.
Runs(q) == Lives(q) /\ cur[pr[q].cpu] = q /\ ~Suspended(q)
At(q, op) == Runs(q) /\ Due(q) = {} /\ Step(q).op = op /\ Ready(q)

Go(q) == [pr EXCEPT ![q].todo = Tail(@)]
OnFail(q) == IF Step(q).fail = <<>> THEN Tail(pr[q].todo) ELSE Step(q).fail

\* The threads of the process of q
Mates(q) == {d \in Procs : d = q \/ \A t \in {d, q} : t = 0 \/ (Born(t) /\ pr[t].kind = "thread")}

\* With process 0, and with a thread that dies of a signal, all threads end.
EndsWith(d, q, how) ==
    /\ Lives(d) /\ d \in Mates(q)
    /\ q = 0 \/ how = "sig"

\* The process ends.  Its parent gets SIGCHLD, which is ignored unless there is a
\* handler for it.
Ends(q, how) ==
    [d \in Procs |->
        IF d = q \/ EndsWith(d, q, how)
        THEN [pr[d] EXCEPT !.st = "zombie", !.how = how, !.pend = {}, !.todo = <<>>]
        ELSE IF /\ d = 0 /\ q # 0 /\ Lives(0) /\ pr[0].hnd["CHLD"] # "dfl"
                /\ pr[q].kind # "thread" /\ defect # "no_sigchld"
             THEN [pr[d] EXCEPT !.pend = @ \cup {"CHLD"}]
             ELSE pr[d]]

--------------------------------------------------------------------------
(* The calls.                                                              *)
\* fork, vfork, pthread_create.  The child runs on a CPU of its own.
fork(q) ==
    /\ At(q, "fork")
    /\ LET i == Step(q).to IN
       \E c \in IF Program[test].cpus = 1 THEN Cpus ELSE {i} :
          /\ ~\E d \in Procs : Lives(d) /\ pr[d].cpu = c
          /\ pr' = [Go(q) EXCEPT ![i] =
                [pr[q] EXCEPT !.todo = Program[test].child[i], !.kind = Step(q).arg, !.cpu = c,
                              !.space = IF \/ Step(q).arg = "thread"
                                           \/ Step(q).arg = "vfork" /\ defect # "vfork_is_fork"
                                        THEN q ELSE i,
                              !.mask = IF defect = "mask_reset" THEN {c} ELSE @,
                              !.loc = <<>>]]
          /\ cur' = [cur EXCEPT ![c] = i]
          /\ glob' = [glob EXCEPT ![i] = glob[pr[q].space]]
    /\ UNCHANGED <<test, defect, pipe, failed, asserted, printed>>

\* sigaction, signal: arg is the signal, val what becomes of it in all threads
sigaction(q) ==
    /\ At(q, "sigaction")
    /\ pr' = [d \in Procs |-> [Go(q)[d] EXCEPT
                  !.hnd[Step(q).arg] = IF d \in Mates(q) THEN Step(q).val ELSE @]]
    /\ UNCHANGED <<test, defect, glob, pipe, cur, failed, asserted, printed>>

Targets(q) ==
    LET s == Step(q) IN
    {d \in Procs : /\ Lives(d)
                   /\ CASE s.val = "pid" -> d = s.to
                        [] s.val = "group" -> pr[d].pgid = s.to
                        [] s.val = "own" -> pr[d].pgid = pr[q].pgid
                        [] s.val = "all" -> d # q}

\* kill(pid), kill(0), kill(-1), kill(-pgid)
kill(q) ==
    /\ At(q, "kill")
    /\ pr' = [d \in Procs |-> [Go(q)[d] EXCEPT
                  !.pend = IF d \in Targets(q) THEN @ \cup {Step(q).arg} ELSE @]]
    /\ UNCHANGED <<test, defect, glob, pipe, cur, failed, asserted, printed>>

\* What a process does after a handler: a wait is restarted, a sleep is over.
Resumes(q) ==
    LET s == Step(q) IN
    CASE s.op = "waitany" /\ defect = "no_restart" -> OnFail(q)
      [] s.op = "paused" -> Tail(pr[q].todo)
      [] s.op = "nanosleep" /\ defect # "no_eintr" -> Tail(pr[q].todo)
      [] OTHER -> pr[q].todo

\* The kernel delivers a signal: the handler runs, or the process dies of it.
Deliver(q) ==
    /\ Runs(q)
    /\ \E s \in Due(q) :
        LET h == IF s = "KILL" THEN "dfl" ELSE pr[q].hnd[s] IN
        \/ /\ h = "dfl" /\ pr' = Ends(q, "sig") /\ UNCHANGED glob
        \/ /\ h = "exit" /\ pr' = Ends(q, "exit0") /\ UNCHANGED glob
        \/ /\ h \in {"once", "keep"}
           /\ pr' = [pr EXCEPT ![q].pend = @ \ {s},
                               ![q].hnd[s] = IF h = "once" /\ defect # "no_reset" THEN "dfl" ELSE h,
                               ![q].todo = Resumes(q)]
           /\ glob' = [glob EXCEPT ![pr[q].space].sig_count = 1]
    /\ UNCHANGED <<test, defect, pipe, cur, failed, asserted, printed>>

\* alarm: the signal comes at some time after it, to any of the threads.
alarm(q) ==
    /\ At(q, "alarm")
    /\ pr' = [Go(q) EXCEPT ![q].alarm = 1]
    /\ UNCHANGED <<test, defect, glob, pipe, cur, failed, asserted, printed>>

Expires(q) ==
    /\ Lives(q) /\ pr[q].alarm = 1
    /\ \E d \in Mates(q) : Lives(d) /\ pr' = [pr EXCEPT ![q].alarm = 0, ![d].pend = @ \cup {"ALRM"}]
    /\ UNCHANGED <<test, defect, glob, pipe, cur, failed, asserted, printed>>

sigprocmask(q) ==
    /\ At(q, "sigprocmask")
    /\ pr' = [Go(q) EXCEPT ![q].blk = IF defect = "not_blocked" THEN @ ELSE @ \cup {Step(q).arg}]
    /\ UNCHANGED <<test, defect, glob, pipe, cur, failed, asserted, printed>>

\* pause, rt_sigsuspend: from here on until a handler has run
pause(q) ==
    /\ At(q, "pause")
    /\ pr' = [pr EXCEPT ![q].todo = <<[Step(q) EXCEPT !.op = "paused"]>> \o Tail(@)]
    /\ UNCHANGED <<test, defect, glob, pipe, cur, failed, asserted, printed>>

\* nanosleep gets through its 10 s only when the signal is not to come.
nanosleep(q) ==
    /\ At(q, "nanosleep")
    /\ pr' = [pr EXCEPT ![q].todo = OnFail(q)]
    /\ UNCHANGED <<test, defect, glob, pipe, cur, failed, asserted, printed>>

\* while (sig_count == 0) cpu_pause(); the CPU stays busy
spin(q) ==
    /\ At(q, "spin")
    /\ glob[pr[q].space][Step(q).arg] = Step(q).val
    /\ pr' = Go(q)
    /\ UNCHANGED <<test, defect, glob, pipe, cur, failed, asserted, printed>>

\* sleep3 is kill's "wait for a few sec...", long enough for the children to get
\* ready, sleep5 that of tkill, long enough for the thread to store its id, sleep1
\* that of the child of wait4 003, long enough for the parent to wait, sleep2 that of
\* nanosleep 001, usleep "sched_setaffinity interval" that of sched_yield, long enough
\* for the child to wait on its semaphore; the other sleeps order nothing.
sleep(q) ==
    /\ \E op \in {"sleep3", "sleep5", "sleep1", "sleep2", "usleep"} : At(q, op)
    /\ pr' = Go(q)
    /\ UNCHANGED <<test, defect, glob, pipe, cur, failed, asserted, printed>>

\* write: arg bytes; val says what they hold, "cpu" and "pid" one int
write(q) ==
    /\ At(q, "write")
    /\ pipe' = [pipe EXCEPT ![Step(q).to].n = @ + Step(q).arg,
                            ![Step(q).to].vals = CASE Step(q).val = "cpu" -> Append(@, pr[q].cpu)
                                                   [] Step(q).val = "pid" -> Append(@, q)
                                                   [] OTHER -> @]
    /\ pr' = Go(q)
    /\ UNCHANGED <<test, defect, glob, cur, failed, asserted, printed>>

\* read: up to arg bytes, what is there
read(q) ==
    /\ At(q, "read")
    /\ LET x == pipe[Step(q).to]
           a == Step(q).arg
       IN /\ pipe' = [pipe EXCEPT ![Step(q).to] =
                          [n |-> IF x.n > a THEN x.n - a ELSE 0,
                           vals |-> IF x.vals = <<>> THEN <<>> ELSE Tail(x.vals)]]
          /\ pr' = [Go(q) EXCEPT ![q].loc = IF x.vals = <<>> THEN @ ELSE Append(@, Head(x.vals))]
    /\ UNCHANGED <<test, defect, glob, cur, failed, asserted, printed>>

sem_post(q) ==
    /\ At(q, "sem_post")
    /\ pipe' = [pipe EXCEPT ![Step(q).to].n = @ + 1]
    /\ pr' = Go(q)
    /\ UNCHANGED <<test, defect, glob, cur, failed, asserted, printed>>

sem_wait(q) ==
    /\ At(q, "sem_wait")
    /\ pipe' = [pipe EXCEPT ![Step(q).to].n = @ - 1]
    /\ pr' = Go(q)
    /\ UNCHANGED <<test, defect, glob, cur, failed, asserted, printed>>

\* setpgid(to, arg).  A pid the test never stored is an uninitialised word: 0, which
\* is the caller itself, or no process, and the error is only a warning.
setpgid(q) ==
    /\ At(q, "setpgid")
    /\ LET d == Step(q).to IN
       IF Born(d) THEN pr' = [Go(q) EXCEPT ![d].pgid = Step(q).arg]
       ELSE \/ pr' = [Go(q) EXCEPT ![q].pgid = Step(q).arg]
            \/ pr' = Go(q)
    /\ UNCHANGED <<test, defect, glob, pipe, cur, failed, asserted, printed>>

\* setpgid 004 loops on a child that is to exec: EACCES ends the loop.
setpgid_try(q) ==
    /\ At(q, "setpgid_try")
    /\ LET d == Step(q).to IN
       pr' = IF pr[d].exec = 1 /\ defect # "no_eacces" THEN [pr EXCEPT ![q].todo = Tail(Tail(@))]
             ELSE Go(q)
    /\ UNCHANGED <<test, defect, glob, pipe, cur, failed, asserted, printed>>

\* ... and after a success waitpid(WNOHANG) looks whether the child has ended.
setpgid_poll(q) ==
    /\ At(q, "setpgid_poll")
    /\ LET d == Step(q).to IN
       pr' = IF Zombie(d) THEN [pr EXCEPT ![q].todo = OnFail(q), ![d].st = "gone"]
             ELSE [pr EXCEPT ![q].todo = <<[Step(q) EXCEPT !.op = "setpgid_try"]>> \o @]
    /\ UNCHANGED <<test, defect, glob, pipe, cur, failed, asserted, printed>>

Waitable(q) ==
    LET s == Step(q) IN
    {d \in Children : /\ Zombie(d)
                      /\ CASE s.op = "wait" -> d = s.to
                           [] s.op = "waitany" -> TRUE
                           [] s.op = "waitgrp" -> pr[d].pgid = pr[q].pgid}

\* waitpid, wait4, waitid, pthread_join.  With no such child it is ECHILD; to join a
\* thread that was never created is undefined, an error or a crash.
wait(q) ==
    /\ At(q, "wait") \/ At(q, "waitany") \/ At(q, "waitgrp")
    /\ \/ \E d \in Waitable(q) : pr' = [Go(q) EXCEPT ![d].st = "gone"]
       \/ Waitable(q) = {} /\ pr' = [pr EXCEPT ![q].todo = OnFail(q)]
       \/ Step(q).arg = "join" /\ ~Born(Step(q).to) /\ pr' = Ends(q, "sig")
    /\ UNCHANGED <<test, defect, glob, pipe, cur, failed, asserted, printed>>

\* mutant: the child's CPU is not avoided
get_migrate_target_cpuid_any(parent_cpu, child_cpu, target_cpu) ==
    IF parent_cpu = target_cpu THEN target_cpu - 1 ELSE target_cpu

\* sched_setaffinity 008: the highest CPU up to target that is neither the parent's
\* nor the child's, -1 if there is none.
get_migrate_target_cpuid(parent_cpu, child_cpu, target_cpu) ==
    LET f[t \in -1 .. target_cpu] ==
          LET a == IF child_cpu = t THEN f[t - 1] ELSE t
          IN IF a >= 0 /\ parent_cpu = a THEN f[a - 1] ELSE a
    IN f[target_cpu]


\* sched_setaffinity 009: the parent's CPU is avoided only on the way down.
last_cpu(parent_cpu, child_cpu) ==
    LET l == num_of_cpus - 1
        m == IF l = child_cpu THEN l - 1 ELSE l
    IN IF m # l /\ m = parent_cpu THEN m - 1 ELSE m

Target(q) ==
    LET a == Step(q).arg IN
    CASE a = "away" -> get_migrate_target_cpuid(pr[q].cpu, pr[q].loc[1], num_of_cpus - 1)
      [] a = "last" -> last_cpu(pr[q].cpu, pr[q].loc[1])
      [] a = "child1" -> pr[q].loc[1]
      [] a = "own" -> pr[q].cpu
      [] a = "child_cpu" -> glob[pr[q].space].child_cpu

\* sched_setaffinity: the process moves to the one CPU of the mask.
sched_setaffinity(q) ==
    /\ At(q, "setaffinity")
    /\ LET d == Step(q).to IN
       pr' = [Go(q) EXCEPT ![d].cpu = IF defect = "no_migrate" THEN @ ELSE Target(q),
                           ![d].mask = IF defect = "mask_ignored" THEN @ ELSE {Target(q)}]
    /\ UNCHANGED <<test, defect, glob, pipe, cur, failed, asserted, printed>>

\* sched_yield: the CPU takes another process that can run, if there is one.
sched_yield(q) ==
    /\ At(q, "sched_yield")
    /\ LET others == {r \in Procs : Lives(r) /\ pr[r].cpu = pr[q].cpu /\ ~Blocked(r) /\ r # q} IN
       IF others = {} \/ defect = "yield_noop" THEN UNCHANGED cur
       ELSE \E r \in others : cur' = [cur EXCEPT ![pr[q].cpu] = r]
    /\ pr' = Go(q)
    /\ UNCHANGED <<test, defect, glob, pipe, failed, asserted, printed>>

getcpu(q) ==
    /\ At(q, "getcpu")
    /\ pr' = [Go(q) EXCEPT ![q].loc = Append(@, pr[q].cpu)]
    /\ UNCHANGED <<test, defect, glob, pipe, cur, failed, asserted, printed>>

\* tls++ in a new thread, counted once for the INC_COUNT of tls 001, whose threads run
\* at the same time: a lost update could hide a shared variable there.
tls(q) ==
    /\ At(q, "tls")
    /\ LET seen == 1 + IF defect = "tls_shared" THEN glob[pr[q].space].tls ELSE 0 IN
       /\ pr' = [Go(q) EXCEPT ![q].loc = <<seen>>]
       /\ glob' = [glob EXCEPT ![pr[q].space].tls = seen]
    /\ UNCHANGED <<test, defect, pipe, cur, failed, asserted, printed>>

\* process_vm_readv, process_vm_writev on the parent: the bytes are copied, if it lives.
process_vm(q) ==
    /\ At(q, "process_vm")
    /\ pr' = IF ~Lives(0) \/ defect = "vm_short" THEN [pr EXCEPT ![q].todo = OnFail(q)]
             ELSE [Go(q) EXCEPT ![q].loc = IF defect = "vm_wrong" THEN @ ELSE <<q>>]
    /\ UNCHANGED <<test, defect, glob, pipe, cur, failed, asserted, printed>>

\* sched_getaffinity of the child, compared with the parent's own
sched_getaffinity(q) ==
    /\ At(q, "getaffinity")
    /\ pr' = [Go(q) EXCEPT ![q].res = IF pr[Step(q).to].mask = pr[q].mask THEN 0 ELSE -1]
    /\ UNCHANGED <<test, defect, glob, pipe, cur, failed, asserted, printed>>

getppid(q) ==
    /\ At(q, "getppid")
    /\ pr' = [Go(q) EXCEPT ![q].loc = Append(@, IF defect = "wrong_ppid" THEN q ELSE 0)]
    /\ UNCHANGED <<test, defect, glob, pipe, cur, failed, asserted, printed>>

\* A call that changes nothing here and may fail; "file" is the calls that make, open
\* or read a file.
call(q) ==
    /\ \E op \in {"pipe", "alloc", "fopen", "mmap", "file", "msync", "getmask", "getrusage"} : At(q, op)
    /\ pr' = Go(q)
    /\ UNCHANGED <<test, defect, glob, pipe, cur, failed, asserted, printed>>

Holds(q, what) ==
    LET g == glob[pr[q].space] IN
    CASE what = "moved" -> pr[q].loc[1] # pr[q].loc[2]
      [] what = "same" -> pr[q].loc[1] = pr[q].loc[2]
      [] what = "result" -> pr[q].res = 0
      [] what = "target" ->
            get_migrate_target_cpuid(pr[q].cpu, pr[q].loc[1], num_of_cpus - 1) >= 0
      [] what = "sig_count" -> g.sig_count > 0
      [] what = "vfork_global" -> g.vfork_global = 1
      [] what = "termsig" -> \A d \in Children : pr[d].how # "sig"
      [] what = "posts" -> \A d \in Children : pr[d].loc # <<>>
      [] what = "stored" -> pr[1].loc # <<>>
      [] what = "errmsg" -> Born(1) => pr[1].loc # <<>>
      [] what = "mask_new" -> pr[q].mask # {pr[q].cpu}
      [] what = "mask_set" -> pr[q].mask = {pr[q].cpu}
      [] what = "exit_code" -> pr[1].how # "exit1"
      [] what = "status" -> pr[1].how = "exit0"
      [] what = "core" -> pipe["shm"].vals[1] # pr[q].loc[1] => pr[q].loc[1] # pr[q].loc[2]
      [] what = "tls" -> pr[Step(q).to].loc = <<1>>
      [] what = "seen" -> pipe["shm"].n > 0 /\ defect # "not_shared"
      [] what = "copied" -> pr[1].loc # <<>>
      [] what = "mask_kept" -> pr[q].blk = {}
      [] what = "not_handled" -> g.sig_count = 0
      [] what = "own" -> pr[q].loc = <<q>>
      [] what = "unique" -> pr[1].loc # pr[q].loc
      [] what = "later" -> g.child_cpu # -1

\* tp_assert, or an if: the condition holds, or the other way is taken.
check(q) ==
    /\ At(q, "check")
    /\ pr' = [pr EXCEPT ![q].todo = IF Holds(q, Step(q).arg) THEN Tail(@) ELSE OnFail(q)]
    /\ UNCHANGED <<test, defect, glob, pipe, cur, failed, asserted, printed>>

\* Assignments to global variables, and the spin lock on one
assign(q) ==
    /\ At(q, "assign")
    /\ LET sp == pr[q].space IN
       \/ /\ Step(q).arg = "vfork_global" /\ glob' = [glob EXCEPT ![sp].vfork_global = 1]
       \/ /\ Step(q).arg = "child_cpu" /\ glob' = [glob EXCEPT ![sp].child_cpu = pr[q].cpu]
       \/ /\ Step(q).arg = "lock" /\ glob[sp].lock = 0 /\ glob' = [glob EXCEPT ![sp].lock = 1]
       \/ /\ Step(q).arg = "unlock" /\ glob' = [glob EXCEPT ![sp].lock = 0]
       \/ /\ Step(q).arg \in {"STAT_MSYNC", "STAT_CHECK_MEM"}
          /\ glob' = [glob EXCEPT ![sp].status = Step(q).arg]
       \/ /\ Step(q).arg = "clear" /\ glob' = [glob EXCEPT ![sp].sig_count = 0]
    /\ pr' = Go(q)
    /\ UNCHANGED <<test, defect, pipe, cur, failed, asserted, printed>>

\* A thread records that it got past its start semaphore, its id, or its success.
record(q) ==
    /\ At(q, "record")
    /\ pr' = [Go(q) EXCEPT ![q].loc = <<IF defect = "same_tid" THEN 0 ELSE q>>]
    /\ UNCHANGED <<test, defect, glob, pipe, cur, failed, asserted, printed>>

\* execve: the new program
execve(q) ==
    /\ At(q, "execve")
    /\ pr' = [pr EXCEPT ![q].exec = 1, ![q].todo = Program[test].exec]
    /\ UNCHANGED <<test, defect, glob, pipe, cur, failed, asserted, printed>>

exit(q) ==
    /\ At(q, "exit")
    /\ pr' = Ends(q, Step(q).arg)
    /\ UNCHANGED <<test, defect, glob, pipe, cur, failed, asserted, printed>>

\* The value of a failed tp_assert is returned to a caller that does not look at it.
dropped(q) ==
    /\ At(q, "dropped")
    /\ asserted' = 1
    /\ pr' = Go(q)
    /\ UNCHANGED <<test, defect, glob, pipe, cur, failed, printed>>

\* mutant: main ends with EXIT_SUCCESS whatever the result
Return_success(q) ==
    /\ At(q, "return")
    /\ printed' = [printed EXCEPT ![q] = Step(q).arg]
    /\ pr' = Ends(q, "exit0")
    /\ UNCHANGED <<test, defect, glob, pipe, cur, failed, asserted>>

\* RUN_FUNC returns: main prints the result and ends, whichever process it is in; any
\* message makes the exit status EXIT_FAILURE.
Return(q) ==
    /\ At(q, "return")
    /\ printed' = [printed EXCEPT ![q] = Step(q).arg]
    /\ pr' = Ends(q, IF Step(q).arg = "ok" THEN "exit0" ELSE "exit1")
    /\ UNCHANGED <<test, defect, glob, pipe, cur, failed, asserted>>

\* The call fails and the test goes the way it has for that.  (A vfork child whose
\* execve fails returns into the frame its parent still uses: undefined, not modelled.)
Fails(q) ==
    /\ Runs(q) /\ Due(q) = {}
    /\ Step(q).op \in Faulty
    /\ ~(Step(q).op = "execve" /\ pr[q].kind = "vfork")
    /\ failed' = failed \cup {Step(q).op}
    /\ pr' = [pr EXCEPT ![q].todo = OnFail(q),
                        ![q].res = IF Step(q).op = "setaffinity" THEN -1 ELSE @]
    /\ UNCHANGED <<test, defect, glob, pipe, cur, asserted, printed>>

Makes(q) ==
    \/ fork(q) \/ sigaction(q) \/ kill(q) \/ spin(q) \/ sleep(q) \/ write(q) \/ read(q)
    \/ sem_post(q) \/ sem_wait(q) \/ setpgid(q) \/ setpgid_try(q) \/ setpgid_poll(q) \/ wait(q)
    \/ sched_setaffinity(q) \/ sched_getaffinity(q) \/ getppid(q) \/ call(q) \/ check(q)
    \/ alarm(q) \/ sigprocmask(q) \/ pause(q) \/ nanosleep(q) \/ sched_yield(q) \/ getcpu(q) \/ tls(q)
    \/ process_vm(q) \/ assign(q) \/ record(q) \/ execve(q) \/ exit(q) \/ dropped(q) \/ Return(q)

Next ==
    \/ \E q \in Procs : Makes(q) \/ Deliver(q) \/ Expires(q) \/ Fails(q)
    \/ \E c \in Cpus : Switch(c)

\* A process that can run does, an alarm goes off, and a CPU that can change process
\* does; no call has to fail.
Fairness ==
    /\ \A q \in Procs : WF_vars(Makes(q) \/ Deliver(q)) /\ WF_vars(Expires(q))
    /\ \A c \in Cpus : WF_vars(Switch(c))

Spec == Init /\ [][Next]_vars /\ Fairness

--------------------------------------------------------------------------
(* What a process may still come to do, read off the test point's steps.   *)
\* The steps taken after a call that fails, and after one that does not
Failing(s) == IF Head(s).fail = <<>> THEN Tail(s) ELSE Head(s).fail
After(t, s) ==
    LET h == Head(s) IN
    CASE h.op \in {"exit", "return"} -> {}
      [] h.op = "execve" -> {Program[t].exec}
      [] h.op = "pause" -> {<<[h EXCEPT !.op = "paused"]>> \o Tail(s)}
      [] h.op = "setpgid_try" -> {Tail(s), Tail(Tail(s))}
      [] h.op = "setpgid_poll" -> {Failing(s), <<[h EXCEPT !.op = "setpgid_try"]>> \o s}
      [] h.op \in {"check", "wait", "waitany", "waitgrp", "nanosleep", "process_vm"} -> {Tail(s), Failing(s)}
      [] OTHER -> {Tail(s)}
Faults(s) == IF Head(s).op \in Faulty THEN {Failing(s)} ELSE {}

\* The steps reached from the set "from" when each leads to Moves; a test point has no
\* path of more than Rounds steps.
Rounds == 40
Reached(from, Moves(_)) ==
    LET r[n \in 0 .. Rounds] ==
          IF n = 0 THEN from ELSE LET old == r[n - 1] IN old \cup UNION {Moves(s) : s \in old}
    IN r[Rounds]
ParentCode == [t \in Tests |->
    LET Moves(s) == After(t, s) \cup Faults(s) IN Reached({Program[t].parent}, Moves)]

\* The test points whose child is a test point of its own, and those whose child
\* returns into main when a call of it fails
OwnTest == {"vm_readv0", "vm_writev0"}
ReturnsOnError == {"getaffinity6", "setpgid4", "fork_execve0"}
VforkOnly == {t \in Tests : \A s \in ParentCode[t] : Head(s).op = "fork" => Head(s).arg = "vfork"}
ChildFaults(t, s) ==
    IF t \in ReturnsOnError \/ (Head(s).op = "execve" /\ t \in VforkOnly) THEN {} ELSE Faults(s)
ChildCode == [t \in Tests |->
    LET Moves(s) == After(t, s) \cup ChildFaults(t, s)
    IN Reached({Program[t].child[i] : i \in DOMAIN Program[t].child}, Moves)]

\* The parent of such a test point: before its child is there, before the child's exit
\* status is found to be 0, and after that
IsStatus(s) == Head(s).op = "check" /\ Head(s).arg = "status"
Unforked == [t \in Tests \cap OwnTest |->
    LET Moves(s) == (IF Head(s).op = "fork" THEN {} ELSE After(t, s)) \cup Faults(s)
    IN Reached({Program[t].parent}, Moves)]
Unjudged == [t \in Tests \cap OwnTest |->
    LET Moves(s) == (IF IsStatus(s) THEN {Failing(s)} ELSE After(t, s)) \cup Faults(s)
    IN Reached({Tail(s) : s \in {u \in Unforked[t] : Head(u).op = "fork"}}, Moves)]
Judged == [t \in Tests \cap OwnTest |->
    LET Moves(s) == After(t, s) \cup Faults(s)
    IN Reached({Tail(s) : s \in {u \in Unjudged[t] : IsStatus(u)}}, Moves)]

\* Only the parent forks, and only a child that is a test point of its own comes to a return.
ASSUME CodeAssumption ==
    \A t \in Tests :
      /\ Program[t].parent \in ParentCode[t]
      /\ \A s \in ParentCode[t] :
           /\ s # <<>> /\ After(t, s) \cup Faults(s) \subseteq ParentCode[t]
           /\ Head(s).op = "fork" => /\ Head(s).to \in Children
                                     /\ Program[t].child[Head(s).to] \in ChildCode[t]
      /\ \A s \in ChildCode[t] :
           /\ s # <<>> /\ After(t, s) \cup ChildFaults(t, s) \subseteq ChildCode[t]
           /\ Head(s).op # "fork"
           /\ Head(s).op = "return" => t \in OwnTest

\* Where the child is a test point of its own, the parent forks once and does not
\* return NULL before it has looked at the child's exit status.
ASSUME JudgedAssumption ==
    \A t \in Tests \cap OwnTest :
      /\ Program[t].parent \in Unforked[t]
      /\ \A s \in Unforked[t] :
           /\ s # <<>> /\ Faults(s) \subseteq Unforked[t]
           /\ Head(s).op = "fork" => Head(s).to = 1 /\ Tail(s) \in Unjudged[t]
           /\ Head(s).op # "fork" => After(t, s) \subseteq Unforked[t]
           /\ Head(s).op = "return" => Head(s).arg # "ok"
      /\ \A s \in Unjudged[t] :
           /\ s # <<>> /\ Faults(s) \subseteq Unjudged[t] /\ Head(s).op # "fork"
           /\ IsStatus(s) => Tail(s) \in Judged[t] /\ Failing(s) \in Unjudged[t]
           /\ ~IsStatus(s) => After(t, s) \subseteq Unjudged[t]
           /\ Head(s).op = "return" => Head(s).arg # "ok"
      /\ \A s \in Judged[t] :
           /\ s # <<>> /\ After(t, s) \cup Faults(s) \subseteq Judged[t] /\ Head(s).op # "fork"

--------------------------------------------------------------------------
(* Properties                                                              *)
\* Every process is unborn, running, a zombie or reaped, with the attributes of one;
\* only live processes have steps to make.
TypeOK ==
    /\ test \in Tests /\ defect \in {"none"} \cup Defects
    /\ \A q \in Procs :
         /\ pr[q].st \in {"unborn", "run", "zombie", "gone"}
         /\ pr[q].kind \in {"fork", "vfork", "thread"} /\ pr[q].space \in Procs
         /\ pr[q].pend \subseteq Sigs /\ pr[q].blk \subseteq Sigs /\ pr[q].alarm \in {0, 1}
         /\ pr[q].pgid \in Procs \cup {ShellGroup}
         /\ pr[q].how \in {"none", "exit0", "exit1", "sig"}
         /\ pr[q].cpu \in Cpus /\ pr[q].mask \subseteq Cpus
         /\ pr[q].exec \in {0, 1} /\ pr[q].res \in {0, -1}
         /\ (pr[q].todo # <<>>) <=> Lives(q)
    /\ \A x \in Pipes : pipe[x].n \in Nat
    /\ cur \in [Cpus -> Procs] /\ asserted \in {0, 1}
    /\ printed \in [Procs -> {"none", "ok", "error", "ask"}]

\* A RESULT that counts as passed: NULL, or a message that asks to look at the output,
\* with the output as it should be ("check end order, [end child] -> [end parent]").
Passed ==
    \/ printed[0] = "ok"
    \/ printed[0] = "ask" /\ (test = "sched_yield0" => pipe["stdout"].vals = <<1, 0>>)

\* On a correct kernel, with no failing call, no order of signals, pipe messages and
\* scheduling makes a test point report a failure.  setpgid 004 alone may: its child can
\* exec and end between a setpgid that succeeded and the waitpid after it, and it says
\* "child process exited." only then.
NoFalseFailure ==
    failed = {} /\ defect = "none"
        => /\ \A d \in Children : printed[d] # "error"
           /\ \/ Passed \/ printed[0] = "none"
              \/ test = "setpgid4" /\ pr[1].exec = 1 /\ pr[1].st = "gone"

\* A kernel with a defect does not pass the test point that is about it: one that does not
\* move the process, send SIGCHLD, restart the wait, interrupt the sleep, suspend the vfork
\* parent, hand the mask on, set it, refuse setpgid after execve, yield the CPU, keep the
\* threads' variables and ids apart, share the mapping, copy between processes, block the
\* signal or reset its handler.  (wrong_ppid is not among the defects of this run: AssertsCount
\* shows that getppid 000 passes with it.)
DefectReported == failed = {} /\ Passed => <<test, defect>> \notin Concerns

\* The children a test point waits for before it returns
Awaited(d) ==
    CASE test \in {"getppid0", "setpgid0", "vfork1", "fork0", "getaffinity5", "nanosleep1"} -> FALSE
      [] test = "waitid1" -> d = 2
      [] OTHER -> Born(d)

\* A passed test was made: every child it was to wait for was reaped, having got
\* to its own _exit(0), not killed by the signal it should have handled.
OkMeansReaped ==
    Passed /\ failed = {} /\ defect = "none"
        => \A d \in Children : Awaited(d) => pr[d].st = "gone" /\ pr[d].how = "exit0"

\* One process prints the RESULT, or two that agree: the child of process_vm_readv and
\* process_vm_writev is a test of its own, and when it fails its parent does not pass.
\* Elsewhere a forked child returns into main as well only when its execve, or in
\* sched_getaffinity 006 a call before it, failed.
OneResult ==
    \A d \in Children : printed[d] # "none"
        => \/ test \in {"getaffinity6", "setpgid4", "fork_execve0"} /\ failed # {}
           \/ test \in {"vm_readv0", "vm_writev0"} /\ (printed[d] = "error" => printed[0] # "ok")

\* A failed tp_assert is a failed test.
AssertsCount == asserted = 1 => printed[0] # "ok"

\* Test points that notice when a signal is not handled or not sent, or need none
Notices == {"nanosleep1", "rt_sigsuspend0", "rt_sigprocmask0", "rt_sigaction4",
            "getrusage0", "getrusage1", "getrusage2"}

\* What keeps a test point from its RESULT: a signal that is not sent or not handled; a
\* thread that was not created; in kill 002 children outside the group or, through the
\* pid never stored, the parent in it; a mapping that failed and is not NULL, in procfs
\* 002 a buffer that is; in msync 001 an assertion in the thread, which never sets the
\* status waited for; and an alarm that goes off before pause or rt_sigsuspend is called.
Stuck ==
    \/ failed \cap {"sigaction", "kill"} # {} /\ test \notin Notices
    \/ "fork" \in failed /\ test \in {"setaffinity11", "kill2", "pthread_setaffinity0",
                                      "pthread_getaffinity0", "tls0", "tls1"}
    \/ "setpgid" \in failed /\ test = "kill2"
    \/ "mmap" \in failed /\ test \in {"sched_yield0", "getrusage0", "getrusage2"}
    \/ "alloc" \in failed /\ test = "procfs2"
    \/ asserted = 1 /\ test = "msync1"
    \/ Lives(0) /\ Step(0).op = "paused" /\ glob[0].sig_count = 1

\* tkill 001, tgkill 002 and rt_sigaction 004 are to die of the signal they send, execve
\* 000 and 001 to become another program.
EndsAsMeant ==
    \/ test \in {"tkill1", "tgkill2", "rt_sigaction4"} /\ pr[0].how = "sig"
    \/ test \in {"execve0", "execve1"} /\ pr[0].exec = 1 /\ ~Lives(0)

\* Every run prints its RESULT, or ends as it is meant to, on CPUs that do not
\* preempt, but for those cases.
EndsWithResult == <>[](printed[0] # "none" \/ EndsAsMeant \/ Stuck)

\* The failures after which children are left spinning or blocked for good
Leaves ==
    \/ "alloc" \in failed /\ test \in {"setaffinity8", "setaffinity9", "setaffinity10", "getaffinity5",
                                       "fpregs5"}
    \/ "getaffinity" \in failed /\ test = "getaffinity5"
    \/ "setaffinity" \in failed /\ test \in {"setaffinity10", "sched_yield0"}
    \/ "setpgid" \in failed /\ test = "setpgid0"

\* No run leaves a process behind, but for those failures.
NoneLeft == <>[]((\A q \in Procs : ~Lives(q)) \/ Stuck \/ Leaves)
=============================================================================
